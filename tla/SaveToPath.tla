---- MODULE SaveToPath ----
(***************************************************************************)
(* s3_get_object with saveToPath (src/src/s3/objects.ts): an object is     *)
(* streamed into a temporary file next to the target and renamed over it.  *)
(* Downloads of one target run side by side, other programs may replace or *)
(* remove the target and the temporary file, B2 may fail or fall silent,   *)
(* the caller may abort, the server may be killed and the machine may lose *)
(* power.  One action is one file operation or one await.                  *)
(*                                                                         *)
(* A file is named by what made it: a download, another program, or it was *)
(* there before.  The code knows it by its identity: device, inode, mode   *)
(* and owner.  A new file may be given the identity of one that is gone.   *)
(* B2 states the length of each object.                                    *)
(***************************************************************************)
EXTENDS Naturals

CONSTANTS
    Downloads,
    Others,         \* bound: the files that other programs put somewhere
    Old, None,      \* the file that was there, no file
    MaxRemovals     \* bound: files that other programs remove

Files == Downloads \cup Others \cup {Old}
Entries == Files \cup {None}

ASSUME FilesDiffer ==
    /\ Downloads \cap Others = {} /\ {Old, None} \cap (Downloads \cup Others) = {}
    /\ Old # None
ASSUME RemovalsAreCounted == MaxRemovals \in Nat

VARIABLES
    target,         \* the directory's entry for the target
    temp,           \* and for the temporary name of each download
    earlier,        \* entries for the target that the disk may still hold
    identity,       \* of each file, given as it is made: that of the file named
    content,        \* of the file each download makes: empty, partial or whole
    synced,         \* downloads whose file is on the disk
    pc,             \* idle, a step of downloadToPath, ended, or dead
    vetted,         \* what was at the target when the download was accepted
    known,          \* downloads that know the identity of their temporary file
    body,           \* none, open or released: an open one holds a connection
    late,           \* downloads whose entries changed behind their last look
    made, removed   \* what other programs did

dirVars == <<target, temp, earlier>>
fileVars == <<identity, content, synced>>
ownVars == <<vetted, known, body>>
meddling == <<made, removed>>
vars == <<dirVars, fileVars, pc, ownVars, late, meddling>>

Init ==
    /\ target \in {Old, None}
    /\ temp = [d \in Downloads |-> None]
    /\ earlier = {target}
    /\ identity = [f \in Files |-> f]
    /\ content = [d \in Downloads |-> "empty"]
    /\ synced = {}
    /\ pc = [d \in Downloads |-> "idle"]
    /\ vetted = [d \in Downloads |-> None]
    /\ known = {}
    /\ body = [d \in Downloads |-> "none"]
    /\ late = {}
    /\ made = {} /\ removed = 0

-----------------------------------------------------------------------------
(* downloadToPath. *)

Goto(d, step) == pc' = [pc EXCEPT ![d] = step]

\* The entry of the target changes; who looked at it already does not see it.
SetTarget(entry, ds) ==
    /\ target' = entry
    /\ earlier' = earlier \cup {entry}
    /\ late' = late \cup {d \in ds : pc[d] = "matched"}

\* A download keeps its file open from "wx" to the end of the finally block.
Opened(d) == pc[d] \notin {"idle", "vetted", "ended", "dead"}

\* The files that keep their identity from others.
Present == {target} \cup {temp[d] : d \in Downloads} \cup {d \in Downloads : Opened(d)}

\* Nothing holds the vetted file: its identity is free again once it is gone.
Freed == {identity[vetted[d]] : d \in {e \in Downloads : vetted[e] # None}}
            \ {identity[f] : f \in Present \ {None}}

\* File f is made, with an identity of its own or one that somebody vetted.
GiveIdentity(f) == \E i \in {f} \cup Freed : identity' = [identity EXCEPT ![f] = i]

\* Files f and g, or the absence of both, are the same to lstat.
LooksLike(f, g) == IF None \in {f, g} THEN f = g ELSE identity[f] = identity[g]

\* prepareSaveToPathTarget: what is there now is what may be replaced.
Vet(d) ==
    /\ pc[d] = "idle"
    /\ vetted' = [vetted EXCEPT ![d] = target]
    /\ Goto(d, "vetted")
    /\ UNCHANGED <<dirVars, fileVars, known, body, late, meddling>>

\* The version asked for does not belong to the key, or the directory cannot be
\* written: nothing was made.
Refuse(d) ==
    /\ pc[d] = "vetted"
    /\ Goto(d, "ended")
    /\ UNCHANGED <<dirVars, fileVars, ownVars, late, meddling>>

\* mkdir and open with "wx" under a random name.
Create(d) ==
    /\ pc[d] = "vetted"
    /\ temp' = [temp EXCEPT ![d] = d]
    /\ GiveIdentity(d)
    /\ Goto(d, "created")
    /\ UNCHANGED <<target, earlier, content, synced, ownVars, late, meddling>>

\* handle.stat; without it the file cannot be told from another one later.
Identify(d) ==
    /\ pc[d] = "created"
    /\ \/ known' = known \cup {d} /\ Goto(d, "identified")
       \/ Goto(d, "leaving") /\ UNCHANGED known
    /\ UNCHANGED <<dirVars, fileVars, vetted, body, late, meddling>>

\* assertOpenedInsideFileRoot, pinParentDir, preserveOwnership: the temporary
\* file must be where it was made, or the download is refused.
Pin(d) ==
    /\ pc[d] = "identified"
    /\ \/ temp[d] = d /\ Goto(d, "pinned")
       \/ Goto(d, "leaving")
    /\ UNCHANGED <<dirVars, fileVars, ownVars, late, meddling>>

\* fetchObject: the headers arrive, or the request fails.  withS3LongCircuit may
\* refuse then, with the body at hand.
FetchObject(d) ==
    /\ pc[d] = "pinned"
    /\ \/ /\ body' = [body EXCEPT ![d] = "open"]
          /\ Goto(d, "streaming") \/ Goto(d, "failing")
       \/ Goto(d, "leaving") /\ UNCHANGED body
    /\ UNCHANGED <<dirVars, fileVars, vetted, known, late, meddling>>

\* A chunk is written; the last one may be the first.
Chunk(d) ==
    /\ pc[d] = "streaming"
    /\ \E c \in {"partial", "whole"} :
           /\ content[d] # "whole" /\ content[d] # c
           /\ content' = [content EXCEPT ![d] = c]
    /\ UNCHANGED <<dirVars, identity, synced, pc, ownVars, late, meddling>>

\* The body ends cleanly; a short one is an incomplete_download.
BodyEnds(d) ==
    /\ pc[d] = "streaming"
    /\ body' = [body EXCEPT ![d] = "released"]
    /\ Goto(d, IF content[d] = "whole" THEN "written" ELSE "failing")
    /\ UNCHANGED <<dirVars, fileVars, vetted, known, late, meddling>>

\* The body breaks off, a write fails, or the caller aborts.
Breaks(d) ==
    /\ pc[d] = "streaming"
    /\ Goto(d, "failing")
    /\ UNCHANGED <<dirVars, fileVars, ownVars, late, meddling>>

\* Mutant: the idle timer is armed by the first chunk.
TimeoutAfterChunk(d) ==
    /\ pc[d] = "streaming" /\ content[d] # "empty"
    /\ Goto(d, "failing")
    /\ UNCHANGED <<dirVars, fileVars, ownVars, late, meddling>>

\* The idle timer, armed before the first chunk and again by each.
IdleTimeout(d) ==
    /\ pc[d] = "streaming"
    /\ Goto(d, "failing")
    /\ UNCHANGED <<dirVars, fileVars, ownVars, late, meddling>>

\* Mutant: the file is not synced before it is renamed.
NoSync(d) ==
    /\ pc[d] = "written"
    /\ Goto(d, "synced")
    /\ UNCHANGED <<dirVars, fileVars, ownVars, late, meddling>>

Sync(d) ==
    /\ pc[d] = "written"
    /\ \/ synced' = synced \cup {d} /\ Goto(d, "synced")
       \/ Goto(d, "failing") /\ UNCHANGED synced
    /\ UNCHANGED <<dirVars, identity, content, ownVars, late, meddling>>

\* assertCommitStillMatchesVetting, which looks at the temporary file first: its
\* open handle keeps its inode from others.  (A directory that was moved out of
\* the sandbox fails here too.)
CheckTemp(d) ==
    /\ pc[d] = "synced"
    /\ (temp[d] = d /\ Goto(d, "tempSeen")) \/ Goto(d, "failing")
    /\ UNCHANGED <<dirVars, fileVars, ownVars, late, meddling>>

\* Mutant: the target is not looked at again.
TargetUnchecked(d) ==
    /\ pc[d] = "tempSeen"
    /\ Goto(d, "matched")
    /\ UNCHANGED <<dirVars, fileVars, ownVars, late, meddling>>

\* The target is then compared with what was vetted, of which only the identity
\* is known.
CheckTarget(d) ==
    /\ pc[d] = "tempSeen"
    /\ Goto(d, IF LooksLike(target, vetted[d]) THEN "matched" ELSE "failing")
    /\ UNCHANGED <<dirVars, fileVars, ownVars, late, meddling>>

\* rename moves whatever is at the temporary name.
Rename(d) ==
    /\ pc[d] = "matched"
    /\ \/ /\ temp[d] # None
          /\ SetTarget(temp[d], Downloads \ {d})
          /\ temp' = [temp EXCEPT ![d] = None]
          /\ Goto(d, "ended")
       \/ /\ Goto(d, "failing")
          /\ UNCHANGED <<dirVars, late>>
    /\ UNCHANGED <<fileVars, ownVars, meddling>>

\* Mutant: only the error of the body itself gives its connection back.
CancelNothing(d) ==
    /\ pc[d] = "failing"
    /\ Goto(d, "leaving")
    /\ UNCHANGED <<dirVars, fileVars, ownVars, late, meddling>>

\* The catch block: cancelBody.
CancelBody(d) ==
    /\ pc[d] = "failing"
    /\ body' = [body EXCEPT ![d] = "released"]
    /\ Goto(d, "leaving")
    /\ UNCHANGED <<dirVars, fileVars, vetted, known, late, meddling>>

\* The finally block removes the temporary file if it still is its own.
LookAtTemp(d) ==
    /\ pc[d] = "leaving"
    /\ Goto(d, IF d \in known /\ temp[d] = d THEN "removing" ELSE "ended")
    /\ UNCHANGED <<dirVars, fileVars, ownVars, late, meddling>>

UnlinkTemp(d) ==
    /\ pc[d] = "removing"
    /\ temp' = [temp EXCEPT ![d] = None]
    /\ Goto(d, "ended")
    /\ UNCHANGED <<target, earlier, fileVars, ownVars, late, meddling>>

-----------------------------------------------------------------------------
(* Other programs, and the machine. *)

MeddleWithTarget(entry) ==
    /\ target # entry
    /\ SetTarget(entry, Downloads)
    /\ UNCHANGED <<temp, content, synced, pc, ownVars>>

MeddleWithTemp(d, entry) ==
    /\ temp[d] # None
    /\ temp' = [temp EXCEPT ![d] = entry]
    /\ late' = IF pc[d] \in {"tempSeen", "matched", "removing"} THEN late \cup {d} ELSE late
    /\ UNCHANGED <<target, earlier, content, synced, pc, ownVars>>

\* Another program puts a file of its own, or removes what is there.
Replace(f) ==
    /\ f \notin made
    /\ made' = made \cup {f}
    /\ GiveIdentity(f)
    /\ MeddleWithTarget(f) \/ \E d \in Downloads : MeddleWithTemp(d, f)
    /\ UNCHANGED removed

Remove ==
    /\ removed < MaxRemovals
    /\ removed' = removed + 1
    /\ MeddleWithTarget(None) \/ \E d \in Downloads : MeddleWithTemp(d, None)
    /\ UNCHANGED <<identity, made>>

Running(d) == pc[d] \notin {"idle", "ended", "dead"}

\* The process of these downloads is gone, with all it knew.
Forgotten(ds) ==
    /\ pc' = [d \in Downloads |-> IF d \in ds THEN "dead" ELSE pc[d]]
    /\ vetted' = [d \in Downloads |-> IF d \in ds THEN None ELSE vetted[d]]
    /\ body' = [d \in Downloads |-> IF d \in ds THEN "none" ELSE body[d]]
    /\ known' = known \ ds
    /\ late' = late \ ds

\* The server is killed; a later server begins with the downloads that were idle.
Kill ==
    /\ \E d \in Downloads : Running(d)
    /\ Forgotten({d \in Downloads : Running(d)})
    /\ UNCHANGED <<dirVars, fileVars, meddling>>

\* The machine loses power: a file that was not synced may be torn, and the
\* directory, which nobody syncs, may be any earlier one.
PowerFailure ==
    /\ target' \in earlier
    /\ earlier' = {target'}
    /\ \E torn \in SUBSET {d \in Downloads \ synced : pc[d] # "idle"} :
           content' = [d \in Downloads |-> IF d \in torn THEN "partial" ELSE content[d]]
    /\ Forgotten({d \in Downloads : pc[d] # "idle"})
    /\ UNCHANGED <<temp, identity, synced, meddling>>

\* What the server does by itself, and what it waits for B2 to do.
Own(d) ==
    \/ Refuse(d) \/ Create(d) \/ Identify(d) \/ Pin(d) \/ FetchObject(d)
    \/ IdleTimeout(d) \/ Sync(d) \/ CheckTemp(d) \/ CheckTarget(d) \/ Rename(d)
    \/ CancelBody(d) \/ LookAtTemp(d) \/ UnlinkTemp(d)

Next ==
    \/ \E d \in Downloads : Vet(d) \/ Own(d) \/ Chunk(d) \/ BodyEnds(d) \/ Breaks(d)
    \/ \E f \in Others : Replace(f)
    \/ Remove
    \/ Kill
    \/ PowerFailure

\* The request for the object ends by its own deadlines; the body has the idle timer.
Fairness == \A d \in Downloads : WF_vars(Own(d))

Spec == Init /\ [][Next]_vars /\ Fairness

-----------------------------------------------------------------------------
(* Properties. *)

Steps == {"idle", "vetted", "created", "identified", "pinned", "streaming", "written",
          "synced", "tempSeen", "matched", "failing", "leaving", "removing", "ended", "dead"}

\* The types of the variables.
TypeOK ==
    /\ target \in Entries /\ temp \in [Downloads -> Entries] /\ earlier \subseteq Entries
    /\ identity \in [Files -> Files]
    /\ content \in [Downloads -> {"empty", "partial", "whole"}] /\ synced \subseteq Downloads
    /\ pc \in [Downloads -> Steps]
    /\ vetted \in [Downloads -> Entries] /\ known \subseteq Downloads
    /\ body \in [Downloads -> {"none", "open", "released"}]
    /\ late \subseteq Downloads
    /\ made \subseteq Others /\ removed \in 0..MaxRemovals

\* What is at the target is never a part of an object: neither while downloads
\* run or fail, nor after the server was killed or the machine lost power.
TargetIsWhole == target \in Downloads => content[target] = "whole"

\* A download that ended, however it ended, left no temporary file of its own
\* and holds no body -- unless it never learned which file was its own.
NothingIsLeft ==
    \A d \in Downloads :
        pc[d] = "ended" => /\ d \in known => temp[d] # d
                           /\ body[d] # "open"

\* A download replaces what it was accepted for, with the file it made, and
\* removes its own file only: what other programs or other downloads put in the
\* meantime stays -- except in the gap after the last look, and except a file
\* that was given the very identity of the vetted one after that was gone.
OthersAreKept ==
    [][\A d \in Downloads :
           pc'[d] # pc[d] /\ pc'[d] # "dead" /\ d \notin late
           => /\ target' # target =>
                     /\ target' = d
                     /\ \/ target = vetted[d]
                        \/ /\ target # None /\ vetted[d] # None
                           /\ identity[target] = identity[vetted[d]]
              /\ temp'[d] = None /\ temp[d] # None => temp[d] = d]_vars

\* A download ends, also when B2 falls silent before or within the body.
DownloadsEnd ==
    \A d \in Downloads : pc[d] = "vetted" ~> pc[d] \in {"ended", "dead"}
====
