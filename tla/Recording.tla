------------------------------ MODULE Recording -----------------------------
(***************************************************************************)
(* Recordings of calls in progress (call/recording.rs) and voicemail       *)
(* (call/voicemail/), the files they write, and the HTTP requests that     *)
(* read and delete those files (health/mod.rs).  The two recorders differ  *)
(* in what feeds them and in how they end, and share everything else: a    *)
(* loop, the WAV file, the transcript and, last, the metadata that makes   *)
(* the recording visible.                                                  *)
(***************************************************************************)
EXTENDS Naturals, FiniteSets

CONSTANTS
    Rec,          \* recordings; all active ones are of the same call
    MaxSamples,   \* bound: packets written
    Crashes       \* bound: restarts of the process

ASSUME RecAssumption == IsFiniteSet(Rec) /\ MaxSamples \in Nat /\ Crashes \in Nat

VARIABLES
    rec,        \* the recording tasks
    active,     \* CallRecorder.active, voicemail_active
    stopper,    \* where the task that stops a recording stands
    disk,       \* the files: WAV, its samples; metadata, its duration; transcript
    delete,     \* where a DELETE of a recording stands
    deleted,    \* recordings somebody has begun to delete
    reader,     \* the recording a GET has found, as a set of at most one
    torn,       \* recordings a GET has delivered with an unfinished header
    crashes

recVars == <<rec, active, stopper, disk, delete, deleted, reader, torn, crashes>>

RecStages == {"None", "Create", "Wait", "Write", "Finalize", "Transcribe", "Meta", "WriteMeta",
              "Done", "Failed"}
Over == {"Done", "Failed"}
NoFiles == [wav |-> "None", samples |-> 0, meta |-> "None", duration |-> 0, txt |-> FALSE]

RecInit ==
    /\ rec = [r \in Rec |-> [kind |-> "Active", stage |-> "None", count |-> 0]]
    /\ active = {} /\ stopper = [r \in Rec |-> "Idle"]
    /\ disk = [r \in Rec |-> NoFiles]
    /\ delete = [r \in Rec |-> "Idle"] /\ deleted = {}
    /\ reader = {} /\ torn = {} /\ crashes = 0

In(r, s) == rec[r].stage = s
GoTo(r, s) == rec' = [rec EXCEPT ![r].stage = s]
Others == UNCHANGED <<delete, deleted, reader, torn, crashes>>
-----------------------------------------------------------------------------
(* Start                                                                   *)

\* WavWriter::create: the header with its two sizes still zero.
NewWav(r) == disk' = [disk EXCEPT ![r].wav = "Open", ![r].samples = 0]

\* CallRecorder::start, under the table's lock: refused while the call has an
\* entry, even one whose recording has ended by itself.
StartRecording(r) ==
    /\ In(r, "None") /\ \A s \in active : rec[s].kind # "Active"
    /\ \/ /\ GoTo(r, "Wait") /\ NewWav(r)
          /\ active' = active \cup {r}
       \/ GoTo(r, "Failed") /\ UNCHANGED <<disk, active>>
    /\ UNCHANGED stopper /\ Others

\* VoicemailRecorder::start only spawns the task.
StartVoicemail(r) ==
    /\ In(r, "None")
    /\ rec' = [rec EXCEPT ![r].kind = "Voicemail", ![r].stage = "Create"]
    /\ active' = active \cup {r}
    /\ UNCHANGED <<stopper, disk>> /\ Others

CreateWav(r) ==
    /\ In(r, "Create")
    /\ (GoTo(r, "Wait") /\ NewWav(r)) \/ (GoTo(r, "Failed") /\ UNCHANGED disk)
    /\ UNCHANGED <<active, stopper>> /\ Others
-----------------------------------------------------------------------------
(* run_recording_loop                                                      *)

\* A packet of the call's media; one that is not u-law is passed over.
TakePacket(r) ==
    /\ In(r, "Wait") /\ rec[r].count < MaxSamples
    /\ rec[r].kind = "Active" => r \in active
    /\ GoTo(r, "Write")
    /\ UNCHANGED <<active, stopper, disk>> /\ Others

\* write_samples is awaited outside the select.  After an error an active
\* recording ends, voicemail skips the packet.
WriteSamples(r) ==
    /\ In(r, "Write")
    /\ \/ /\ rec' = [rec EXCEPT ![r].stage = "Wait", ![r].count = @ + 1]
          /\ disk' = [disk EXCEPT ![r].samples = @ + 1]
       \/ /\ GoTo(r, IF rec[r].kind = "Active" THEN "Finalize" ELSE "Wait")
          /\ UNCHANGED disk
    /\ UNCHANGED <<active, stopper>> /\ Others

\* Every sender is gone: stop has dropped the only one.
ChannelCloses(r) ==
    /\ In(r, "Wait") /\ rec[r].kind = "Active" /\ r \notin active /\ stopper[r] = "Join"
    /\ GoTo(r, "Finalize")
    /\ UNCHANGED <<active, stopper, disk>> /\ Others

\* recv_from on the voicemail's socket returns an error.
SocketFails(r) ==
    /\ In(r, "Wait") /\ rec[r].kind = "Voicemail"
    /\ GoTo(r, "Finalize")
    /\ UNCHANGED <<active, stopper, disk>> /\ Others

\* Mutant: no deadline.
NoDeadline(r) == FALSE /\ UNCHANGED recVars

\* max_duration has passed.  The table keeps its entry.
RecDeadline(r) ==
    /\ In(r, "Wait")
    /\ GoTo(r, "Finalize")
    /\ UNCHANGED <<active, stopper, disk>> /\ Others
-----------------------------------------------------------------------------
(* The end of a recording                                                  *)

\* Mutant: the metadata is written before the header.
MetaFirst(r) ==
    /\ In(r, "Finalize")
    /\ rec' = [rec EXCEPT ![r].stage = "Transcribe"]
    /\ disk' = [disk EXCEPT ![r].meta = "Full", ![r].duration = rec[r].count]
    /\ UNCHANGED <<active, stopper>> /\ Others

\* WavWriter::finalize puts the sizes into the header.
FinalizeWav(r) ==
    /\ In(r, "Finalize")
    /\ \/ GoTo(r, "Transcribe") /\ disk' = [disk EXCEPT ![r].wav = IF @ = "Open" THEN "Whole" ELSE @]
       \/ GoTo(r, "Failed") /\ UNCHANGED disk
    /\ UNCHANGED <<active, stopper>> /\ Others

\* run_transcription_hook: no transcriber, or one that fails, changes nothing.
Transcribe(r) ==
    /\ In(r, "Transcribe")
    /\ GoTo(r, "Meta")
    /\ \E b \in BOOLEAN : disk' = [disk EXCEPT ![r].txt = @ \/ b]
    /\ UNCHANGED <<active, stopper>> /\ Others

CreateMeta(r) ==
    /\ In(r, "Meta")
    /\ \/ GoTo(r, "WriteMeta") /\ disk' = [disk EXCEPT ![r].meta = "Empty"]
       \/ GoTo(r, "Failed") /\ UNCHANGED disk
    /\ UNCHANGED <<active, stopper>> /\ Others

WriteMeta(r) ==
    /\ In(r, "WriteMeta")
    /\ \/ /\ GoTo(r, "Done")
          /\ disk' = [disk EXCEPT ![r].meta = IF @ = "Empty" THEN "Full" ELSE @,
                                  ![r].duration = rec[r].count]
       \/ GoTo(r, "Failed") /\ UNCHANGED disk
    /\ UNCHANGED <<active, stopper>> /\ Others
-----------------------------------------------------------------------------
(* Stop                                                                    *)

\* The entry is taken out of the table.
StopTakes(r) ==
    /\ r \in active /\ stopper[r] = "Idle"
    /\ active' = active \ {r}
    /\ stopper' = [stopper EXCEPT ![r] = "Notify"]
    /\ UNCHANGED <<rec, disk>> /\ Others

\* notify_waiters wakes the loop if it waits at this moment, and is lost
\* otherwise.  handle_bye drops a voicemail's handle; CallRecorder::stop drops
\* the sender first and joins the task.
StopNotifies(r) ==
    /\ stopper[r] = "Notify"
    /\ IF In(r, "Wait") THEN GoTo(r, "Finalize") ELSE UNCHANGED rec
    /\ stopper' = [stopper EXCEPT ![r] = IF rec[r].kind = "Active" THEN "Join" ELSE "Gone"]
    /\ UNCHANGED <<active, disk>> /\ Others

\* The join returns, and the browser is told what became of the recording.
StopReturns(r) ==
    /\ stopper[r] = "Join" /\ rec[r].stage \in Over
    /\ stopper' = [stopper EXCEPT ![r] = "Gone"]
    /\ UNCHANGED <<rec, active, disk>> /\ Others
-----------------------------------------------------------------------------
(* The files over HTTP                                                     *)

Task == UNCHANGED <<rec, active, stopper, crashes>>

\* load_list and get: a recording is known by metadata that parses.
Listed(r) == disk[r].meta = "Full"

\* DELETE removes the metadata, the WAV and the transcript in this order; each
\* removal may fail, which is ignored.
DeleteNext(d) == CASE d = "Idle" -> "Wav" [] d = "Wav" -> "Txt" [] d = "Txt" -> "Idle"

DeleteStep(r) ==
    /\ ~In(r, "None")
    /\ delete[r] = "Idle" => r \notin deleted
    /\ \/ UNCHANGED disk
       \/ disk' = [disk EXCEPT ![r] = CASE delete[r] = "Idle" -> [@ EXCEPT !.meta = "None"]
                                        [] delete[r] = "Wav" -> [@ EXCEPT !.wav = "None"]
                                        [] delete[r] = "Txt" -> [@ EXCEPT !.txt = FALSE]]
    /\ delete' = [delete EXCEPT ![r] = DeleteNext(@)]
    /\ deleted' = deleted \cup {r}
    /\ Task /\ UNCHANGED <<reader, torn>>

\* GET of the audio: the metadata first, without it 404,
ReadMeta(r) ==
    /\ reader = {} /\ Listed(r)
    /\ reader' = {r}
    /\ Task /\ UNCHANGED <<disk, delete, deleted, torn>>

\* then the WAV, whatever it is by now; without it 500.  A transcript that is
\* missing is 404 here.
ReadWav(r) ==
    /\ r \in reader
    /\ reader' = {}
    /\ torn' = IF disk[r].wav = "Open" THEN torn \cup {r} ELSE torn
    /\ Task /\ UNCHANGED <<disk, delete, deleted>>
-----------------------------------------------------------------------------
\* The process ends; the files stay as they are.
RecCrash ==
    /\ crashes < Crashes
    /\ crashes' = crashes + 1
    /\ rec' = [r \in Rec |-> IF rec[r].stage = "None" THEN rec[r] ELSE [rec[r] EXCEPT !.stage = "Failed"]]
    /\ active' = {} /\ stopper' = [r \in Rec |-> "Gone"]
    /\ delete' = [r \in Rec |-> "Idle"] /\ reader' = {}
    /\ UNCHANGED <<disk, deleted, torn>>

RecTask(r) ==
    \/ CreateWav(r) \/ WriteSamples(r) \/ ChannelCloses(r) \/ RecDeadline(r)
    \/ FinalizeWav(r) \/ Transcribe(r) \/ CreateMeta(r) \/ WriteMeta(r)
StopTask(r) == StopNotifies(r) \/ StopReturns(r)

RecNext ==
    \/ \E r \in Rec : \/ StartRecording(r) \/ StartVoicemail(r) \/ TakePacket(r) \/ SocketFails(r)
                      \/ RecTask(r) \/ StopTakes(r) \/ StopTask(r)
                      \/ DeleteStep(r) \/ ReadMeta(r) \/ ReadWav(r)
    \/ RecCrash

RecTypeOK ==
    /\ rec \in [Rec -> [kind : {"Active", "Voicemail"}, stage : RecStages, count : 0..MaxSamples]]
    /\ active \subseteq Rec /\ Cardinality({r \in active : rec[r].kind = "Active"}) <= 1
    /\ stopper \in [Rec -> {"Idle", "Notify", "Join", "Gone"}]
    /\ disk \in [Rec -> [wav : {"None", "Open", "Whole"}, samples : 0..MaxSamples,
                         meta : {"None", "Empty", "Full"}, duration : 0..MaxSamples, txt : BOOLEAN]]
    /\ delete \in [Rec -> {"Idle", "Wav", "Txt"}] /\ deleted \subseteq Rec
    /\ reader \subseteq Rec /\ torn \subseteq Rec /\ crashes \in 0..Crashes

\* A recording that shows in the list has its audio, with a finished header and
\* the duration the list gives, whatever failed or crashed on the way; nobody
\* was given an unfinished file.
ListedIsComplete ==
    /\ \A r \in Rec : Listed(r) /\ r \notin deleted =>
                         disk[r].wav = "Whole" /\ disk[r].duration = disk[r].samples
    /\ torn = {}

\* Every recording comes to an end, and so does every request to stop one, even
\* if the notification of the stop is lost.
RecordingEnds ==
    <>[](\A r \in Rec : rec[r].stage \in {"None"} \cup Over /\ stopper[r] \in {"Idle", "Gone"})

\* What the recorders promise of every recording.
RecordingsKept == []ListedIsComplete /\ RecordingEnds
=============================================================================
