---- MODULE Tools_proofs ----
(***************************************************************************)
(* Proofs about two tools: the download to a local path (SaveToPath), for  *)
(* any downloads side by side, any files that other programs put, and any  *)
(* kills and power failures; and the usage reports (UsageReports), for any *)
(* bucket of report files, any budget and any failures of its requests.    *)
(***************************************************************************)
EXTENDS SaveToPath, UsageReports, FiniteSetTheorems, WellFoundedInduction, TLAPS

\* A file is on the disk before its name is given to the target; every entry
\* that a power failure may bring back was given so, or is not a download's.
Durable ==
    /\ target \in earlier
    /\ \A d \in Downloads :
          /\ d \in earlier => d \in synced
          /\ d \in synced => content[d] = "whole"
          /\ pc[d] = "written" => content[d] = "whole"
          /\ pc[d] \in {"synced", "tempSeen", "matched"} => d \in synced

\* No download's file is found under another one's temporary name.
TempsAreOwn == \A d \in Downloads : temp[d] \in {d, None} \cup Others

BodiesAreHeld ==
    \A d \in Downloads : body[d] = "open" => pc[d] \in {"streaming", "failing"}

EndsAreClean ==
    \A d \in Downloads :
        /\ pc[d] \in {"idle", "vetted", "created"} => d \notin known
        /\ pc[d] = "ended" /\ d \in known => temp[d] # d

\* A file that was not made yet is nowhere, and nobody was vetted with it.
Unmade ==
    /\ \A f \in Others \ made :
          f \notin earlier /\ \A d \in Downloads : temp[d] # f /\ vetted[d] # f
    /\ \A d \in Downloads :
          pc[d] \in {"idle", "vetted"} =>
              d \notin earlier /\ \A e \in Downloads : vetted[e] # d

\* What a download saw last still looks so, unless it is late.
LastLook ==
    \A d \in Downloads \ late :
        /\ pc[d] \in {"tempSeen", "matched", "removing"} => temp[d] = d
        /\ pc[d] = "matched" => LooksLike(target, vetted[d])

SaveInv ==
    /\ TypeOK /\ Durable /\ TempsAreOwn /\ BodiesAreHeld /\ EndsAreClean
    /\ Unmade /\ LastLook

\* A file that is given an identity leaves the others theirs.
LEMMA IdentityGiven ==
    ASSUME TypeOK, NEW f \in Files, GiveIdentity(f)
    PROVE  /\ identity' \in [Files -> Files]
           /\ \A g \in Files \ {f} : identity'[g] = identity[g]
<1>1. Freed \subseteq Files
  BY DEF Freed, TypeOK, Entries
<1>2. PICK i \in {f} \cup Freed : identity' = [identity EXCEPT ![f] = i]
  BY DEF GiveIdentity
<1> QED
  BY <1>1, <1>2 DEF TypeOK

LEMMA SaveInit == Init => SaveInv
<1> SUFFICES ASSUME Init PROVE SaveInv
  OBVIOUS
<1> USE DEF Init
<1>0. target \notin Downloads /\ target \notin Others /\ None \notin Others /\ None \notin Downloads
  BY FilesDiffer DEF FilesDiffer
<1>1. TypeOK
  BY RemovalsAreCounted DEF TypeOK, Entries, Files, Steps, RemovalsAreCounted
<1>2. Durable
  BY FilesDiffer DEF Durable, FilesDiffer
<1>3. TempsAreOwn /\ BodiesAreHeld /\ EndsAreClean /\ Unmade /\ LastLook
  BY <1>0 DEF TempsAreOwn, BodiesAreHeld, EndsAreClean, Unmade, LastLook
<1> QED
  BY <1>1, <1>2, <1>3 DEF SaveInv

\* A step of one download that leaves the directory alone.
LEMMA OwnInv ==
    ASSUME SaveInv, NEW d \in Downloads,
           \/ Vet(d) \/ Refuse(d) \/ Create(d) \/ Identify(d) \/ Pin(d) \/ FetchObject(d)
           \/ Chunk(d) \/ BodyEnds(d) \/ Breaks(d) \/ IdleTimeout(d)
           \/ Sync(d) \/ CheckTemp(d) \/ CheckTarget(d) \/ CancelBody(d)
           \/ LookAtTemp(d) \/ UnlinkTemp(d)
    PROVE  SaveInv'
<1> USE DEF SaveInv, dirVars, fileVars, ownVars, meddling, Goto, LooksLike, Unmade
<1>1. CASE Vet(d)
  BY <1>1 DEF Vet, TypeOK, Steps, Durable, TempsAreOwn, BodiesAreHeld, EndsAreClean, LastLook
<1>2. CASE Refuse(d)
  BY <1>2 DEF Refuse, TypeOK, Steps, Durable, TempsAreOwn, BodiesAreHeld, EndsAreClean, LastLook
<1>3. CASE Create(d)
  <2>1. /\ pc[d] = "vetted" /\ temp' = [temp EXCEPT ![d] = d]
        /\ pc' = [pc EXCEPT ![d] = "created"]
        /\ UNCHANGED <<target, earlier, content, synced, ownVars, late, meddling>>
    BY <1>3 DEF Create
  <2>2. /\ identity' \in [Files -> Files]
        /\ \A g \in Files \ {d} : identity'[g] = identity[g]
    BY <1>3, IdentityGiven DEF Create, Files
  <2>3. d \in Files /\ d \notin Others /\ None \notin Files
    BY FilesDiffer DEF Files, FilesDiffer
  <2>4. TypeOK'
    BY <2>1, <2>2, <2>3 DEF TypeOK, Steps, Entries
  <2>5. Durable' /\ TempsAreOwn' /\ BodiesAreHeld' /\ EndsAreClean' /\ Unmade'
    BY <2>1, <2>3 DEF TypeOK, Durable, TempsAreOwn, BodiesAreHeld, EndsAreClean
  <2>6. LastLook'
    <3> SUFFICES ASSUME NEW e \in Downloads \ late
                 PROVE  /\ pc'[e] \in {"tempSeen", "matched", "removing"} => temp'[e] = e
                        /\ pc'[e] = "matched" => LooksLike(target, vetted[e])'
      BY <2>1 DEF LastLook
    <3>1. CASE e = d
      BY <2>1, <3>1 DEF TypeOK
    <3>2. CASE e # d
      <4>1. pc'[e] = pc[e] /\ temp'[e] = temp[e]
        BY <2>1, <3>2 DEF TypeOK
      <4>2. target # d /\ vetted[e] # d
        BY <2>1 DEF Durable
      <4>3. target \in Files \cup {None} /\ vetted[e] \in Files \cup {None}
        BY DEF TypeOK, Entries
      <4>4. LooksLike(target, vetted[e]) => LooksLike(target, vetted[e])'
        BY <2>1, <2>2, <4>2, <4>3
      <4> QED
        BY <4>1, <4>4 DEF LastLook
    <3> QED
      BY <3>1, <3>2
  <2> QED
    BY <2>4, <2>5, <2>6
<1>4. CASE Identify(d)
  BY <1>4 DEF Identify, TypeOK, Steps, Durable, TempsAreOwn, BodiesAreHeld, EndsAreClean,
              LastLook
<1>5. CASE Pin(d)
  BY <1>5 DEF Pin, TypeOK, Steps, Durable, TempsAreOwn, BodiesAreHeld, EndsAreClean, LastLook
<1>6. CASE FetchObject(d)
  BY <1>6 DEF FetchObject, TypeOK, Steps, Durable, TempsAreOwn, BodiesAreHeld, EndsAreClean,
              LastLook
<1>7. CASE Chunk(d)
  BY <1>7 DEF Chunk, TypeOK, Steps, Durable, TempsAreOwn, BodiesAreHeld, EndsAreClean, LastLook
<1>8. CASE BodyEnds(d)
  BY <1>8 DEF BodyEnds, TypeOK, Steps, Durable, TempsAreOwn, BodiesAreHeld, EndsAreClean,
              LastLook
<1>9. CASE Breaks(d) \/ IdleTimeout(d)
  BY <1>9 DEF Breaks, IdleTimeout, TypeOK, Steps, Durable, TempsAreOwn, BodiesAreHeld,
              EndsAreClean, LastLook
<1>10. CASE Sync(d)
  BY <1>10 DEF Sync, TypeOK, Steps, Durable, TempsAreOwn, BodiesAreHeld, EndsAreClean, LastLook
<1>11. CASE CheckTemp(d)
  BY <1>11 DEF CheckTemp, TypeOK, Steps, Durable, TempsAreOwn, BodiesAreHeld, EndsAreClean,
               LastLook
<1>12. CASE CheckTarget(d)
  BY <1>12 DEF CheckTarget, TypeOK, Steps, Durable, TempsAreOwn, BodiesAreHeld, EndsAreClean,
               LastLook
<1>13. CASE CancelBody(d)
  BY <1>13 DEF CancelBody, TypeOK, Steps, Durable, TempsAreOwn, BodiesAreHeld, EndsAreClean,
               LastLook
<1>14. CASE LookAtTemp(d)
  BY <1>14 DEF LookAtTemp, TypeOK, Steps, Durable, TempsAreOwn, BodiesAreHeld, EndsAreClean,
               LastLook
<1>15. CASE UnlinkTemp(d)
  BY <1>15, FilesDiffer
     DEF UnlinkTemp, TypeOK, Steps, Entries, Durable, TempsAreOwn, BodiesAreHeld, EndsAreClean,
         LastLook, FilesDiffer
<1> QED
  BY <1>1, <1>2, <1>3, <1>4, <1>5, <1>6, <1>7, <1>8, <1>9, <1>10, <1>11, <1>12, <1>13,
     <1>14, <1>15

\* The rename: the file at the temporary name is synced, or another program's.
LEMMA RenameInv == ASSUME SaveInv, NEW d \in Downloads, Rename(d) PROVE SaveInv'
<1> USE DEF SaveInv, dirVars, fileVars, ownVars, meddling, Goto, LooksLike, Unmade
<1>1. CASE UNCHANGED <<dirVars, late>>
  BY <1>1 DEF Rename, SetTarget, TypeOK, Steps, Durable, TempsAreOwn, BodiesAreHeld,
              EndsAreClean, LastLook
<1>2. CASE /\ temp[d] # None
           /\ SetTarget(temp[d], Downloads \ {d})
           /\ temp' = [temp EXCEPT ![d] = None]
           /\ Goto(d, "ended")
  <2>1. /\ pc[d] = "matched" /\ UNCHANGED <<fileVars, ownVars, meddling>>
        /\ temp[d] \in {d} \cup Others /\ d # None
    BY <1>2, FilesDiffer DEF Rename, TempsAreOwn, FilesDiffer
  <2>2. TypeOK'
    BY <1>2, <2>1 DEF TypeOK, Entries, Steps, SetTarget
  <2>3. Durable'
    BY <1>2, <2>1, FilesDiffer DEF TypeOK, Durable, SetTarget, FilesDiffer
  <2>4. TempsAreOwn' /\ BodiesAreHeld' /\ EndsAreClean'
    BY <1>2, <2>1 DEF TypeOK, TempsAreOwn, BodiesAreHeld, EndsAreClean
  <2>5. LastLook'
    BY <1>2, <2>1 DEF TypeOK, LastLook, SetTarget
  <2>6. Unmade'
    BY <1>2, <2>1, FilesDiffer DEF TypeOK, SetTarget, FilesDiffer
  <2> QED
    BY <2>2, <2>3, <2>4, <2>5, <2>6
<1> QED
  BY <1>1, <1>2 DEF Rename

\* Another program changes an entry: whoever looked at it is late now.  A file
\* that it makes for that was nowhere before.
LEMMA MeddleInv ==
    ASSUME SaveInv, NEW entry \in Others \cup {None},
           made \subseteq made', made' \subseteq Others, removed' \in 0..MaxRemovals,
           entry # None => entry \in made',
           identity' \in [Files -> Files],
           \A g \in Files \ (Others \ made) : identity'[g] = identity[g],
           \/ MeddleWithTarget(entry)
           \/ \E d \in Downloads : MeddleWithTemp(d, entry)
    PROVE  SaveInv'
<1> USE DEF SaveInv, dirVars, ownVars
<1>0. entry \in Entries /\ entry \notin Downloads
  BY FilesDiffer DEF Entries, Files, FilesDiffer
<1>1. CASE MeddleWithTarget(entry)
  <2>1. TypeOK'
    BY <1>0, <1>1 DEF MeddleWithTarget, SetTarget, TypeOK
  <2>2. Durable'
    BY <1>0, <1>1 DEF MeddleWithTarget, SetTarget, Durable
  <2>3. TempsAreOwn' /\ BodiesAreHeld' /\ EndsAreClean' /\ LastLook'
    BY <1>1 DEF MeddleWithTarget, SetTarget, TempsAreOwn, BodiesAreHeld, EndsAreClean, LastLook
  <2>4. Unmade'
    BY <1>0, <1>1, FilesDiffer DEF MeddleWithTarget, SetTarget, Unmade, FilesDiffer
  <2> QED
    BY <2>1, <2>2, <2>3, <2>4
<1>2. ASSUME NEW d \in Downloads, MeddleWithTemp(d, entry) PROVE SaveInv'
  <2>1. TypeOK' /\ Durable' /\ TempsAreOwn' /\ BodiesAreHeld' /\ EndsAreClean'
    BY <1>0, <1>2 DEF MeddleWithTemp, TypeOK, Durable, TempsAreOwn, BodiesAreHeld, EndsAreClean
  <2>2. Unmade'
    BY <1>0, <1>2, FilesDiffer DEF MeddleWithTemp, Unmade, TypeOK, FilesDiffer
  <2>3. ASSUME NEW e \in Downloads PROVE LooksLike(target, vetted[e]) = LooksLike(target, vetted[e])'
    <3>1. target \notin Others \ made /\ vetted[e] \notin Others \ made
      BY DEF Unmade, Durable
    <3>2. target \in Files \cup {None} /\ vetted[e] \in Files \cup {None}
      BY DEF TypeOK, Entries
    <3>3. UNCHANGED <<target, vetted>>
      BY <1>2 DEF MeddleWithTemp
    <3> QED
      BY <3>1, <3>2, <3>3 DEF LooksLike
  <2>4. LastLook'
    BY <1>2, <2>3 DEF MeddleWithTemp, LastLook, TypeOK
  <2> QED
    BY <2>1, <2>2, <2>4
<1> QED
  BY <1>1, <1>2

\* The process of some downloads ends, and with the machine what was not synced.
LEMMA ForgottenInv ==
    ASSUME SaveInv, NEW ds \in SUBSET Downloads, Forgotten(ds),
           UNCHANGED <<temp, identity, synced, meddling>>,
           target' \in earlier, earlier' \subseteq earlier, target' \in earlier',
           target' = target \/ \A d \in Downloads : pc[d] # "idle" => d \in ds,
           content' \in [Downloads -> {"empty", "partial", "whole"}],
           \A d \in Downloads : content'[d] = content[d] \/ (d \in ds /\ d \notin synced)
    PROVE  SaveInv'
<1> USE DEF SaveInv, meddling, Forgotten
<1>1. TypeOK'
  BY DEF TypeOK, Entries, Steps
<1>2. Durable'
  BY DEF Durable, TypeOK
<1>3. TempsAreOwn' /\ BodiesAreHeld' /\ EndsAreClean'
  BY DEF TempsAreOwn, BodiesAreHeld, EndsAreClean, TypeOK
<1>4. Unmade'
  BY FilesDiffer DEF Unmade, TypeOK, FilesDiffer
<1>5. LastLook'
  BY DEF LastLook, TypeOK, LooksLike
<1> QED
  BY <1>1, <1>2, <1>3, <1>4, <1>5

\* Every step of a download, of another program, or of a failure.
LEMMA SaveStep == ASSUME SaveInv, [Next]_vars PROVE SaveInv'
<1>1. ASSUME NEW d \in Downloads, Vet(d) \/ Own(d) \/ Chunk(d) \/ BodyEnds(d) \/ Breaks(d)
      PROVE  SaveInv'
  BY <1>1, OwnInv, RenameInv DEF Own
<1>2. ASSUME NEW f \in Others, Replace(f) PROVE SaveInv'
  <2>1. /\ f \notin made /\ made' = made \cup {f}
        /\ made' \subseteq Others /\ removed' \in 0..MaxRemovals
    BY <1>2 DEF Replace, SaveInv, TypeOK
  <2>2. /\ identity' \in [Files -> Files]
        /\ \A g \in Files \ (Others \ made) : identity'[g] = identity[g]
    BY <1>2, <2>1, IdentityGiven DEF Replace, SaveInv, Files
  <2> QED
    BY <1>2, <2>1, <2>2, MeddleInv DEF Replace
<1>3. CASE Remove
  <2>1. made' \subseteq Others /\ removed' \in 0..MaxRemovals
    BY <1>3, RemovalsAreCounted DEF Remove, SaveInv, TypeOK, RemovalsAreCounted
  <2>2. UNCHANGED <<identity, made>> /\ identity \in [Files -> Files]
    BY <1>3 DEF Remove, SaveInv, TypeOK
  <2> QED
    BY <1>3, <2>1, <2>2, MeddleInv DEF Remove
<1>4. CASE Kill
  BY <1>4, ForgottenInv DEF Kill, dirVars, fileVars, SaveInv, Durable, TypeOK
<1>5. CASE PowerFailure
  <2> DEFINE ds == {d \in Downloads : pc[d] # "idle"}
  <2>1. /\ Forgotten(ds) /\ UNCHANGED <<temp, identity, synced, meddling>>
        /\ target' \in earlier /\ earlier' = {target'}
    BY <1>5 DEF PowerFailure
  <2>2. /\ content' \in [Downloads -> {"empty", "partial", "whole"}]
        /\ \A d \in Downloads : content'[d] = content[d] \/ (d \in ds /\ d \notin synced)
    BY <1>5 DEF PowerFailure, SaveInv, TypeOK
  <2> QED
    BY <2>1, <2>2, ForgottenInv
<1>6. CASE UNCHANGED vars
  BY <1>6 DEF vars, dirVars, fileVars, ownVars, meddling, SaveInv, TypeOK, Durable, TempsAreOwn,
              BodiesAreHeld, EndsAreClean, Unmade, LastLook, LooksLike
<1> QED
  BY <1>1, <1>2, <1>3, <1>4, <1>5, <1>6 DEF Next

\* The inductive invariant of the downloads: it relates the steps of a download
\* to its file, its temporary name, the identities of files and what the disk
\* may bring back.
THEOREM SaveInvariance == Spec => []SaveInv
<1>1. SaveInv /\ [Next]_vars => SaveInv'
  BY SaveStep
<1> QED
  BY <1>1, SaveInit, PTL DEF Spec

\* The variables of downloadToPath keep their types.
THEOREM SaveTypeCorrect == Spec => []TypeOK
<1>1. SaveInv => TypeOK
  BY DEF SaveInv
<1> QED
  BY <1>1, SaveInvariance, PTL

\* No part of an object is ever at the target, for any number of downloads,
\* kills and power failures.
THEOREM WholeTarget == Spec => []TargetIsWhole
<1>1. SaveInv => TargetIsWhole
  BY DEF SaveInv, Durable, TargetIsWhole
<1> QED
  BY <1>1, SaveInvariance, PTL

\* A download that ended left neither its temporary file nor an open body.
THEOREM LeavesNothing == Spec => []NothingIsLeft
<1>1. SaveInv => NothingIsLeft
  BY DEF SaveInv, BodiesAreHeld, EndsAreClean, NothingIsLeft
<1> QED
  BY <1>1, SaveInvariance, PTL

\* What OthersAreKept says of one step.
KeepsOthers ==
    \A d \in Downloads :
        pc'[d] # pc[d] /\ pc'[d] # "dead" /\ d \notin late
        => /\ target' # target =>
                  /\ target' = d
                  /\ \/ target = vetted[d]
                     \/ /\ target # None /\ vetted[d] # None
                        /\ identity[target] = identity[vetted[d]]
           /\ temp'[d] = None /\ temp[d] # None => temp[d] = d

LEMMA StepKeepsOthers == ASSUME SaveInv, [Next]_vars PROVE KeepsOthers
<1> SUFFICES ASSUME NEW e \in Downloads, pc'[e] # pc[e], pc'[e] # "dead", e \notin late
             PROVE  /\ target' # target =>
                           /\ target' = e
                           /\ \/ target = vetted[e]
                              \/ /\ target # None /\ vetted[e] # None
                                 /\ identity[target] = identity[vetted[e]]
                    /\ temp'[e] = None /\ temp[e] # None => temp[e] = e
  BY DEF KeepsOthers
<1>1. ASSUME NEW d \in Downloads, Vet(d) \/ Own(d) \/ Chunk(d) \/ BodyEnds(d) \/ Breaks(d)
      PROVE  /\ d = e
             /\ UNCHANGED <<target, temp>> \/ Create(d) \/ Rename(d) \/ UnlinkTemp(d)
  BY <1>1 DEF SaveInv, TypeOK, Own, Goto, dirVars, Vet, Refuse, Create, Identify, Pin,
              FetchObject, Chunk, BodyEnds, Breaks, IdleTimeout, Sync, CheckTemp, CheckTarget,
              Rename, CancelBody, LookAtTemp, UnlinkTemp
<1>2. CASE UNCHANGED <<target, temp>>
  BY <1>2
<1>3. CASE Create(e)
  BY <1>3, FilesDiffer DEF Create, SaveInv, TypeOK, FilesDiffer
<1>4. CASE Rename(e)
  BY <1>4 DEF Rename, SetTarget, dirVars, SaveInv, LastLook, LooksLike
<1>5. CASE UnlinkTemp(e)
  BY <1>5 DEF UnlinkTemp, SaveInv, LastLook
<1>6. CASE \/ \E f \in Others : Replace(f)
           \/ Remove \/ Kill \/ PowerFailure \/ UNCHANGED vars
  BY <1>6 DEF Replace, Remove, MeddleWithTarget, MeddleWithTemp, Kill, PowerFailure, Forgotten,
              vars, dirVars, SaveInv, TypeOK
<1> QED
  BY <1>1, <1>2, <1>3, <1>4, <1>5, <1>6 DEF Next

\* What other programs put is replaced or removed only in the gap after the
\* last look at it, or when it looks like the vetted file, whose identity it was
\* given.
THEOREM KeepsWhatOthersPut == Spec => OthersAreKept
<1>1. SaveInv /\ [Next]_vars => [KeepsOthers]_vars
  BY StepKeepsOthers
<1>2. Spec => [][KeepsOthers]_vars
  BY <1>1, SaveInvariance, PTL DEF Spec
<1> QED
  BY <1>2 DEF OthersAreKept, KeepsOthers

-----------------------------------------------------------------------------
LEMMA LeastOf ==
    ASSUME NEW S \in SUBSET Nat, S # {}
    PROVE  Min(S) \in S /\ \A x \in S : Min(S) <= x
<1> DEFINE R == OpToRel(<, Nat)
<1>0. \A x, y \in Nat : x < y => <<x, y>> \in R
  BY DEF OpToRel
<1>1. IsWellFoundedOn(R, Nat)
  BY NatLessThanWellFounded
<1> HIDE DEF R
<1>2. PICK x \in S : \A y \in S : ~(<<y, x>> \in R)
  BY <1>1, WFMin
<1>3. \A y \in S : x <= y
  <2> SUFFICES ASSUME NEW y \in S PROVE x <= y
    OBVIOUS
  <2>1. x \in Nat /\ y \in Nat
    OBVIOUS
  <2>2. ~(<<y, x>> \in R)
    BY <1>2
  <2>3. y < x => <<y, x>> \in R
    BY <1>0, <2>1
  <2> QED
    BY <2>1, <2>2, <2>3
<1> QED
  BY <1>3 DEF Min

\* A finite set of numbers has a greatest element: take a smallest subset that has none.
LEMMA GreatestOf ==
    ASSUME NEW S \in SUBSET Nat, IsFiniteSet(S), S # {}
    PROVE  Max(S) \in S /\ \A x \in S : x <= Max(S)
<1> DEFINE HasTop(T) == \E x \in T : \A y \in T : y <= x
           Bare == {T \in SUBSET S : T # {} /\ ~HasTop(T)}
           Sizes == {Cardinality(T) : T \in Bare}
<1>1. ASSUME Bare # {} PROVE FALSE
  <2>1. \A T \in SUBSET S : IsFiniteSet(T) /\ Cardinality(T) \in Nat
    BY FS_Subset, FS_CardinalityType
  <2>2. Sizes \in SUBSET Nat /\ Sizes # {}
    BY <1>1, <2>1
  <2>3. PICK T \in Bare : \A U \in Bare : Cardinality(T) <= Cardinality(U)
    <3>1. Min(Sizes) \in Sizes /\ \A n \in Sizes : Min(Sizes) <= n
      BY <2>2, LeastOf
    <3> QED
      BY <3>1
  <2>4. PICK x \in T : TRUE
    OBVIOUS
  <2> DEFINE U == T \ {x}
  <2>5. Cardinality(U) < Cardinality(T)
    BY <2>1, FS_RemoveElement
  <2>6. U = {} \/ HasTop(U)
    <3>1. U \in SUBSET S /\ Cardinality(U) \in Nat /\ Cardinality(T) \in Nat
      BY <2>1
    <3>2. U \in Bare => Cardinality(T) <= Cardinality(U)
      BY <2>3
    <3>3. U \notin Bare
      BY <2>5, <3>1, <3>2
    <3> QED
      BY <3>1, <3>3
  <2>7. CASE U = {}
    BY <2>7
  <2>8. CASE HasTop(U)
    <3>1. PICK z \in U : \A y \in U : y <= z
      BY <2>8
    <3>2. z \in Nat /\ x \in Nat /\ T \subseteq Nat
      OBVIOUS
    <3>3. CASE x <= z
      BY <3>1, <3>2, <3>3
    <3>4. CASE z <= x
      BY <3>1, <3>2, <3>4
    <3> QED
      BY <3>2, <3>3, <3>4
  <2> QED
    BY <2>6, <2>7, <2>8
<1>2. PICK x \in S : \A y \in S : y <= x
  BY <1>1
<1> QED
  BY <1>2 DEF Max

\* The least of two numbers.
LEMMA SmallerOf ==
    ASSUME NEW a \in Nat, NEW b \in Nat
    PROVE  Min({a, b}) \in {a, b} /\ Min({a, b}) <= a /\ Min({a, b}) <= b
BY LeastOf

\* The first n keys of a finite set: at most n, all of them if there are no more,
\* and no key is left out that comes before one that is in.
LEMMA FirstFew ==
    ASSUME NEW S \in SUBSET Nat, IsFiniteSet(S), NEW n \in Nat
    PROVE  /\ FirstKeys(S, n) \subseteq S /\ IsFiniteSet(FirstKeys(S, n))
           /\ Cardinality(FirstKeys(S, n)) <= n
           /\ \A k \in FirstKeys(S, n) : \A j \in S : j < k => j \in FirstKeys(S, n)
           /\ Cardinality(S) <= n => FirstKeys(S, n) = S
           /\ S # {} /\ n > 0 => FirstKeys(S, n) # {}
<1> DEFINE F == FirstKeys(S, n)
           Below(k) == {j \in S : j < k}
<1>0. F = {k \in S : Cardinality(Below(k)) < n}
  BY DEF FirstKeys
<1>1. \A T \in SUBSET S :
        IsFiniteSet(T) /\ Cardinality(T) \in Nat /\ Cardinality(T) <= Cardinality(S)
  BY FS_Subset, FS_CardinalityType
<1>2. F \subseteq S /\ IsFiniteSet(F) /\ Cardinality(F) \in Nat
  BY <1>0, <1>1
<1>3. Cardinality(F) <= n
  <2>1. CASE F = {}
    BY <2>1, FS_EmptySet
  <2>2. CASE F # {}
    <3> DEFINE m == Max(F)
    <3>1. m \in F /\ \A x \in F : x <= m
      BY <1>2, <2>2, GreatestOf
    <3>2. F \ {m} \subseteq Below(m)
      <4> SUFFICES ASSUME NEW x \in F, x # m PROVE x < m
        BY <1>2
      <4>1. x \in Nat /\ m \in Nat /\ x <= m
        BY <3>1, <1>2
      <4> HIDE DEF m
      <4> QED
        BY <4>1
    <3>3. Cardinality(Below(m)) < n /\ Cardinality(Below(m)) \in Nat /\ IsFiniteSet(Below(m))
      BY <3>1, <1>0, <1>1
    <3>4. Cardinality(F \ {m}) <= Cardinality(Below(m)) /\ Cardinality(F \ {m}) = Cardinality(F) - 1
      BY <3>1, <3>2, <3>3, <1>2, FS_Subset, FS_RemoveElement
    <3> QED
      BY <3>3, <3>4, <1>2
  <2> QED
    BY <2>1, <2>2
<1>4. ASSUME NEW k \in F, NEW j \in S, j < k PROVE j \in F
  <2>1. Below(j) \subseteq Below(k)
    <3> SUFFICES ASSUME NEW x \in S, x < j PROVE x < k
      OBVIOUS
    <3>1. x \in Nat /\ j \in Nat /\ k \in Nat
      BY <1>2, <1>4
    <3> QED
      BY <1>4, <3>1
  <2>2. Cardinality(Below(j)) <= Cardinality(Below(k))
    BY <2>1, <1>1, FS_Subset
  <2>3. Cardinality(Below(j)) \in Nat /\ Cardinality(Below(k)) \in Nat
    BY <1>1
  <2>4. Cardinality(Below(k)) < n
    BY <1>0, <1>4
  <2> QED
    BY <1>0, <2>2, <2>3, <2>4
<1>5. ASSUME Cardinality(S) <= n PROVE F = S
  <2> SUFFICES ASSUME NEW k \in S PROVE Cardinality(Below(k)) < n
    BY <1>0
  <2>1. Cardinality(Below(k)) <= Cardinality(S \ {k})
    BY <1>1, FS_Subset
  <2>2. Cardinality(S \ {k}) = Cardinality(S) - 1
    BY FS_RemoveElement
  <2> QED
    BY <1>1, <1>5, <2>1, <2>2
<1>6. ASSUME S # {}, n > 0 PROVE F # {}
  <2>1. Min(S) \in S /\ \A x \in S : Min(S) <= x
    BY <1>6, LeastOf
  <2>2. Below(Min(S)) = {}
    <3> SUFFICES ASSUME NEW x \in S PROVE ~(x < Min(S))
      OBVIOUS
    <3>1. x \in Nat /\ Min(S) \in Nat
      BY <2>1
    <3> QED
      BY <2>1, <3>1
  <2> QED
    BY <2>1, <2>2, <1>0, <1>6, FS_EmptySet
<1> HIDE DEF F
<1> QED
  BY <1>2, <1>3, <1>4, <1>5, <1>6 DEF F

-----------------------------------------------------------------------------
\* The budget of the call.
WithinBudget ==
    /\ stats.pages <= MaxPages /\ stats.bytes <= MaxBytes
    /\ Cardinality(keys) <= MaxCandidates
    /\ \A l \in Loads : IsFiniteSet(rows[l]) /\ Cardinality(rows[l]) <= MaxRows

\* At most one download runs, and it was granted what is left of the bytes.
Serial ==
    /\ \A f, g \in fetching : f = g
    /\ \A f \in fetching : f.grant = MaxBytes - stats.bytes

\* The reports among the keys, and those that were listed so far.
Csv(S) == {k \in S : IsCsv(k)}
Listed(S) == {k \in S : k <= at /\ IsCsv(k)}
\* The files that a load is to read, and those of them not read yet.
Wanted == SelectUsageKeys(Csv(Scope))
Pending == queue \cup {f.key : f \in fetching}

\* What each step of a call has left behind.
Stages ==
    /\ Missing => step \in {"probe", "list", "done"}
    /\ step \in {"near", "download"} => at = 0 /\ keys = {}
    /\ load = "period" <=> call.tool = "egress"
    /\ step = "near" => call.tool = "growth"
    /\ step # "done" => answer = "none"
    /\ step = "probe" /\ call.tool = "growth" => load = "then"
    /\ step = "near" => load = "then"
    /\ step \in {"probe", "near", "list"} => fetching = {} 
    /\ step \in {"list"} \/ (step \in {"probe", "near"} /\ call.tool = "growth")
         => rows[load] = {}
    /\ load = "then" => rows["now"] = {}

\* No bound was met so far.
Unstopped == stats.stop = "none" /\ ~Missing

\* A listing holds every candidate up to the last key it saw.
Scanned ==
    Unstopped =>
    /\ step = "probe" => keys = Listed(Since(Today - Lookbacks[window]))
    /\ step = "list" => keys = Listed(Scope)

\* A load has read every row of the files it wants, but for those still pending.
Loaded ==
    Unstopped /\ step = "download" =>
    /\ ~stopDownloads
    /\ \A f \in fetching : f.key \notin queue
    /\ ~capped => /\ Pending \subseteq Wanted
                  /\ rows[load] = RowsOf(Wanted \ Pending)
                  /\ stats.selected = 0 => Wanted = {}

\* No usage file is younger than the latest day.
LatestIs ==
    Unstopped /\ call.tool = "growth" /\ step \in {"near", "list", "download"} =>
         UsageFiles(Since(latest + 1)) = {}

\* The second load starts only when the first is complete.
ThenLoaded ==
    Unstopped /\ load = "now" /\ step \in {"list", "download"} =>
         Holds("then", OfDay(from))

\* Egress looks for a latest day only when its period holds no usage file.
NothingInPeriod ==
    Unstopped /\ step = "probe" /\ call.tool = "egress" => UsageFiles(Since(call.target)) = {}

\* The second inductive invariant: what the answer may be drawn from.
CompleteInv ==
    Scanned /\ Loaded /\ LatestIs /\ ThenLoaded /\ NothingInPeriod /\ CompleteOrFlagged

\* The counters of a call.
Budget == [pages : Nat, bytes : Nat, selected : Nat, stop : StopReasons]

\* The constants are numbers.
LEMMA Bounds ==
    /\ PageSize \in Nat /\ PageSize > 0 /\ MaxPages \in Nat /\ MaxPages > 0
    /\ MaxCandidates \in Nat /\ MaxSelected \in Nat /\ MaxSelected > 0
    /\ MaxBytes \in Nat /\ MaxRows \in Nat
BY BoundsArePositive DEF BoundsArePositive

\* What the reports of a bucket are.
LEMMA KeysAre ==
    /\ IsFiniteSet(DOMAIN Reports) /\ DOMAIN Reports \in SUBSET Nat
    /\ \A k \in DOMAIN Reports :
          /\ k \in Nat /\ k > 0 /\ Reports[k].day \in Nat /\ Reports[k].day > 0
          /\ Reports[k].kind \in {"usage", "audit", "other", "note"}
          /\ Reports[k].size \in Nat /\ Reports[k].rows \in Nat
    /\ \A S \in SUBSET DOMAIN Reports :
          S \in SUBSET Nat /\ IsFiniteSet(S) /\ Cardinality(S) \in Nat
BY ReportsAreFiles, FS_Subset, FS_CardinalityType DEF ReportsAreFiles

\* A stop reason changes nothing else, and is there afterwards.
LEMMA StopIs ==
    ASSUME NEW s \in Budget, NEW reason \in StopReasons \ {"none"}
    PROVE  /\ Stop(s, reason) \in Budget /\ Stop(s, reason).stop # "none"
           /\ Stop(s, reason).pages = s.pages /\ Stop(s, reason).bytes = s.bytes
           /\ Stop(s, reason).selected = s.selected
BY DEF Stop, Budget, StopReasons

\* A page stays within its bounds and, while no bound is met, leaves no candidate out.
LEMMA PageIs ==
    ASSUME stats \in Budget, at \in Nat, keys \in SUBSET DOMAIN Reports,
           Cardinality(keys) <= MaxCandidates,
           NEW scope \in SUBSET DOMAIN Reports, NEW page \in Pages(scope)
    PROVE  /\ page.keys \in SUBSET DOMAIN Reports /\ Cardinality(page.keys) <= MaxCandidates
           /\ page.stats \in Budget
           /\ page.stats.pages = stats.pages + 1 /\ page.stats.bytes = stats.bytes
           /\ page.at \in Nat /\ page.more \in BOOLEAN
           /\ page.stats.stop = "none" => stats.stop = "none"
           /\ page.stats.stop = "none" /\ keys = Listed(scope) =>
                 /\ page.keys = {k \in scope : k <= page.at /\ IsCsv(k)}
                 /\ ~page.more => page.keys = Csv(scope)
<1> DEFINE rest == {k \in scope : k > at}
           size == Cardinality(rest)
           sizes == IF size = 0 THEN {0} ELSE 1..Min({size, PageSize})
           part(n) == FirstKeys(rest, n)
           wanted(n) == {k \in part(n) : IsCsv(k)}
           room == MaxCandidates - Cardinality(keys)
           read == [stats EXCEPT !.pages = @ + 1]
<1>1. PICK n \in sizes :
        page = [keys |-> keys \cup FirstKeys(wanted(n), room),
                stats |-> IF Cardinality(wanted(n)) > room
                          THEN Stop(read, "max_candidate_keys") ELSE read,
                at |-> IF n = 0 THEN at ELSE Max(part(n)),
                more |-> n < size]
  BY DEF Pages
<1>2. /\ rest \in SUBSET scope /\ rest \in SUBSET Nat /\ IsFiniteSet(rest) /\ size \in Nat
      /\ room \in Nat
  BY KeysAre, Bounds
<1> HIDE DEF rest
<1>3. n \in Nat /\ n <= size /\ (n = 0 => rest = {})
  <2>1. CASE size = 0
    BY <1>2, <2>1, FS_EmptySet
  <2>2. CASE size # 0
    BY <1>2, <2>2, SmallerOf, Bounds
  <2> QED
    BY <2>1, <2>2
<1> DEFINE P == part(n)
           W == wanted(n)
           F == FirstKeys(W, room)
<1>4. /\ P \in SUBSET rest /\ IsFiniteSet(P)
      /\ \A k \in P : \A j \in rest : j < k => j \in P
      /\ size <= n => P = rest
      /\ rest # {} /\ n > 0 => P # {}
  BY <1>2, <1>3, FirstFew
<1> HIDE DEF P, size, room
<1>5. W = {k \in P : IsCsv(k)}
  BY DEF P
<1> HIDE DEF W
<1>6. W \in SUBSET P /\ W \in SUBSET Nat /\ IsFiniteSet(W) /\ Cardinality(W) \in Nat
  BY <1>2, <1>4, <1>5, FS_Subset, FS_CardinalityType
<1>7. /\ F \in SUBSET W /\ IsFiniteSet(F) /\ Cardinality(F) \in Nat /\ Cardinality(F) <= room
      /\ Cardinality(W) <= room => F = W
  BY <1>2, <1>6, FirstFew, FS_CardinalityType
<1> HIDE DEF F
<1>8. /\ page.keys = keys \cup F /\ page.more = (n < size)
      /\ page.at = IF n = 0 THEN at ELSE Max(P)
      /\ page.stats = IF Cardinality(W) > room THEN Stop(read, "max_candidate_keys") ELSE read
  BY <1>1 DEF P, W, F
<1>9. page.keys \in SUBSET DOMAIN Reports /\ Cardinality(page.keys) <= MaxCandidates
  <2>1. IsFiniteSet(keys) /\ Cardinality(keys) \in Nat /\ Cardinality(keys \cap F) \in Nat
    BY KeysAre
  <2>2. Cardinality(keys \cup F) = Cardinality(keys) + Cardinality(F) - Cardinality(keys \cap F)
    BY <1>7, <2>1, FS_Union
  <2>3. Cardinality(keys \cup F) <= MaxCandidates
    BY <1>2, <1>7, <2>1, <2>2, Bounds DEF room
  <2> QED
    BY <1>2, <1>4, <1>6, <1>7, <1>8, <2>3
<1>10. /\ read \in Budget /\ read.pages = stats.pages + 1 /\ read.bytes = stats.bytes
       /\ read.stop = stats.stop
  BY DEF Budget
<1>11. /\ page.stats \in Budget
       /\ page.stats.pages = stats.pages + 1 /\ page.stats.bytes = stats.bytes
       /\ page.stats.stop = "none" => stats.stop = "none" /\ Cardinality(W) <= room
  <2> HIDE DEF read
  <2>1. CASE Cardinality(W) > room
    BY <1>8, <1>10, <2>1, StopIs DEF StopReasons
  <2>2. CASE ~(Cardinality(W) > room)
    BY <1>2, <1>6, <1>8, <1>10, <2>2
  <2> QED
    BY <2>1, <2>2
<1>12. n # 0 => P # {} /\ Max(P) \in P /\ \A x \in P : x <= Max(P)
  <2> SUFFICES ASSUME n # 0 PROVE P # {} /\ Max(P) \in P /\ \A x \in P : x <= Max(P)
    OBVIOUS
  <2>1. rest # {} 
    <3>1. size > 0
      BY <1>2, <1>3
    <3> QED
      BY <1>2, <3>1, FS_EmptySet DEF size
  <2>2. P # {} /\ P \in SUBSET Nat
    BY <1>2, <1>3, <1>4, <2>1
  <2> QED
    BY <1>4, <2>2, GreatestOf
<1>13. page.at \in Nat /\ page.more \in BOOLEAN
  BY <1>2, <1>4, <1>8, <1>12
<1>14. ASSUME page.stats.stop = "none", keys = Listed(scope)
       PROVE  /\ page.keys = {k \in scope : k <= page.at /\ IsCsv(k)}
              /\ ~page.more => page.keys = Csv(scope)
  <2>1. page.keys = keys \cup W
    BY <1>7, <1>8, <1>11, <1>14
  <2>2. \A k \in scope : k \in Nat
    BY KeysAre
  <2>3. \A k \in scope : k <= page.at <=> k <= at \/ k \in P
    <3> SUFFICES ASSUME NEW k \in scope PROVE k <= page.at <=> k <= at \/ k \in P
      OBVIOUS
    <3>1. k \in Nat /\ (k \in rest <=> k > at)
      BY <2>2 DEF rest
    <3>2. CASE n = 0
      <4>1. page.at = at
        BY <1>8, <3>2
      <4>2. k \notin P
        BY <1>3, <1>4, <3>2
      <4> QED
        BY <4>1, <4>2
    <3>3. CASE n # 0
      <4>1. /\ page.at = Max(P) /\ Max(P) \in P /\ Max(P) \in Nat /\ Max(P) > at
            /\ k \in P => k <= Max(P)
        BY <1>2, <1>4, <1>8, <1>12, <2>2, <3>3 DEF rest
      <4>2. k \in rest /\ k <= Max(P) => k \in P
        <5>1. k < Max(P) \/ k = Max(P) \/ k > Max(P)
          BY <3>1, <4>1
        <5> QED
          BY <1>4, <3>1, <4>1, <5>1
      <4> QED
        BY <1>4, <3>1, <4>1, <4>2
    <3> QED
      BY <3>2, <3>3
  <2>4. page.keys = {k \in scope : k <= page.at /\ IsCsv(k)}
    BY <1>2, <1>4, <1>5, <1>14, <2>1, <2>3 DEF Listed
  <2>5. ASSUME ~page.more PROVE page.keys = Csv(scope)
    <3>1. P = rest
      <4>1. ~(n < size)
        BY <1>8, <2>5
      <4>2. size <= n
        BY <1>2, <1>3, <4>1
      <4> QED
        BY <1>4, <4>2
    <3>2. \A k \in scope : k <= at \/ k \in P
      BY <2>2, <3>1 DEF rest
    <3> QED
      BY <1>2, <1>4, <1>5, <1>14, <2>1, <3>2 DEF Listed, Csv
  <2> QED
    BY <2>4, <2>5
<1> QED
  BY <1>9, <1>11, <1>13, <1>14

-----------------------------------------------------------------------------
\* The first inductive invariant: what a call may use.
BudgetInv == ReportTypeOK /\ WithinBudget /\ Serial /\ Stages

\* Of keys among which there are usage files, those are selected.
LEMMA SelectIs ==
    ASSUME NEW S \in SUBSET DOMAIN Reports
    PROVE  /\ SelectUsageKeys(S) \in SUBSET S /\ IsFiniteSet(SelectUsageKeys(S))
           /\ SelectUsageKeys(S) \in SUBSET Nat
           /\ UsageFiles(S) # {} => SelectUsageKeys(S) = UsageFiles(S)
<1>1. SelectUsageKeys(S) \in SUBSET S
  BY DEF SelectUsageKeys
<1> QED
  BY <1>1, KeysAre DEF SelectUsageKeys, UsageFiles

\* A scope is a part of the bucket.
LEMMA ScopesAre ==
    ASSUME ReportTypeOK, ~Missing
    PROVE  /\ bucket \in SUBSET DOMAIN Reports /\ Scope \in SUBSET DOMAIN Reports
           /\ \A day : Since(day) \in SUBSET DOMAIN Reports /\ OfDay(day) \in SUBSET DOMAIN Reports
<1>1. bucket \in SUBSET DOMAIN Reports
  BY DEF ReportTypeOK, Missing
<1>2. \A day : Since(day) \in SUBSET DOMAIN Reports /\ OfDay(day) \in SUBSET DOMAIN Reports
  BY <1>1 DEF Since, OfDay
<1>3. Scope \in SUBSET DOMAIN Reports
  BY <1>2 DEF Scope, ReportTypeOK, Loads
<1> QED
  BY <1>1, <1>2, <1>3

LEMMA NoRoomIs ==
    ASSUME ReportTypeOK
    PROVE  /\ NoRoom \in Budget /\ NoRoom.stop # "none"
           /\ NoRoom.pages = stats.pages /\ NoRoom.bytes = stats.bytes
BY StopIs DEF NoRoom, ReportTypeOK, Budget, StopReasons

LEMMA BudgetInit == ReportInit => BudgetInv
<1> SUFFICES ASSUME ReportInit PROVE BudgetInv
  OBVIOUS
<1> USE DEF ReportInit
<1>1. ReportTypeOK
  <2>1. 1 \in 1..Len(Lookbacks)
    BY DaysAreNumbers DEF DaysAreNumbers
  <2> QED
    BY <2>1 DEF ReportTypeOK, StopReasons, Loads, NoDay
<1>2. WithinBudget
  BY Bounds, FS_EmptySet DEF WithinBudget
<1>3. Serial /\ Stages
  BY DEF Serial, Stages, Missing, Loads
<1> QED
  BY <1>1, <1>2, <1>3 DEF BudgetInv

LEMMA ProbePageBudget == ASSUME BudgetInv, ProbePage PROVE BudgetInv'
<1> USE DEF BudgetInv
<1>1. /\ step = "probe" /\ ~Missing /\ answer = "none" /\ fetching = {}
      /\ UNCHANGED <<call, bucket, outOfTime, from>> /\ UNCHANGED loading
  BY DEF ProbePage, Stages
<1>2. CASE RoomForPage
  <2>1. PICK page \in Pages(Since(Today - Lookbacks[window])) :
          /\ stats' = page.stats
          /\ \/ /\ at' = page.at /\ keys' = page.keys
                /\ UNCHANGED <<window, latest, step, answer>>
             \/ /\ at' = 0 /\ keys' = {}
                /\ \/ OnLatest(NoDay) /\ UNCHANGED <<window, latest>>
                   \/ WindowEnds(page.keys)
    BY <1>2 DEF ProbePage
  <2>2. /\ page.keys \in SUBSET DOMAIN Reports /\ Cardinality(page.keys) <= MaxCandidates
        /\ page.stats \in Budget /\ page.at \in Nat
        /\ page.stats.pages = stats.pages + 1 /\ page.stats.bytes = stats.bytes
    BY <1>1, ScopesAre, PageIs DEF ReportTypeOK, WithinBudget, Budget
  <2>3. stats.pages < MaxPages /\ stats.pages \in Nat
    BY <1>2 DEF RoomForPage, ReportTypeOK
  <2>4. /\ \/ UNCHANGED <<window, latest, step, answer>>
           \/ OnLatest(NoDay) /\ UNCHANGED <<window, latest>>
           \/ window' = window + 1 /\ window < Len(Lookbacks) /\ UNCHANGED <<latest, step, answer>>
           \/ latest' \in Nat /\ UNCHANGED window /\ OnLatest(latest')
        /\ \/ UNCHANGED step
           \/ at' = 0 /\ keys' = {}
    <3>1. CASE WindowEnds(page.keys)
      <4> DEFINE data == SelectUsageKeys(page.keys)
                 day == IF data = {} THEN NoDay ELSE Reports[Max(data)].day
      <4>1. data \in SUBSET page.keys /\ data \in SUBSET Nat /\ IsFiniteSet(data)
        BY <2>2, SelectIs
      <4>2. day \in Nat
        BY <2>2, <4>1, GreatestOf, KeysAre DEF NoDay
      <4>3. \/ window' = window + 1 /\ window < Len(Lookbacks) /\ UNCHANGED <<latest, step, answer>>
            \/ latest' = day /\ UNCHANGED window /\ OnLatest(day)
        BY <3>1 DEF WindowEnds
      <4> QED
        BY <2>1, <4>2, <4>3
    <3> QED
      BY <2>1, <3>1
  <2>5. ReportTypeOK'
    BY <1>1, <2>1, <2>2, <2>4
       DEF ReportTypeOK, Budget, loading, OnLatest, Answer, NoDay
  <2>6. WithinBudget'
    <3>0. stats'.pages = stats.pages + 1 /\ stats'.bytes = stats.bytes
      BY <2>1, <2>2
    <3>1. stats'.pages <= MaxPages /\ stats'.bytes <= MaxBytes
      BY <2>3, <3>0, Bounds DEF WithinBudget
    <3>2. Cardinality(keys') <= MaxCandidates
      <4>1. keys' = page.keys \/ keys' = {}
        BY <2>1
      <4>2. Cardinality({}) = 0 /\ 0 <= MaxCandidates
        BY FS_EmptySet, Bounds
      <4>3. Cardinality(page.keys) <= MaxCandidates
        BY <2>2
      <4> QED
        BY <4>1, <4>2, <4>3
    <3> QED
      BY <1>1, <3>1, <3>2 DEF WithinBudget, loading
  <2>7. Serial'
    BY <1>1 DEF Serial, loading
  <2>8. Stages'
    BY <1>1, <2>1, <2>4 DEF Stages, Missing, loading, OnLatest, Answer
  <2> QED
    BY <2>5, <2>6, <2>7, <2>8
<1>3. CASE ~RoomForPage
  <2>1. stats' = NoRoom /\ OnLatest(NoDay) /\ UNCHANGED <<window, latest, at, keys>>
    BY <1>3 DEF ProbePage
  <2>2. step' = "done" /\ answer' \in {"horizon", "nothing"}
    BY <2>1 DEF OnLatest, Answer
  <2>3. ReportTypeOK'
    BY <1>1, <2>1, <2>2, NoRoomIs DEF ReportTypeOK, Budget, loading
  <2> QED
    BY <1>1, <2>1, <2>2, <2>3, NoRoomIs DEF WithinBudget, Serial, Stages, Missing, loading
<1> QED
  BY <1>2, <1>3

LEMMA NearPageBudget == ASSUME BudgetInv, NearPage PROVE BudgetInv'
<1> USE DEF BudgetInv
<1>1. /\ step = "near" /\ ~Missing /\ answer = "none" /\ fetching = {} /\ load = "then"
      /\ at = 0 /\ keys = {} /\ rows["then"] = {} /\ call.tool = "growth"
      /\ UNCHANGED <<call, bucket, outOfTime, window, latest, at, keys>> /\ UNCHANGED loading
  BY DEF NearPage, Stages
<1> DEFINE found == Since(call.target)
           day == IF found = {} THEN NoDay ELSE Reports[Min(found)].day
<1>2. day \in Nat
  BY <1>1, ScopesAre, LeastOf, KeysAre DEF NoDay
<1>3. \/ /\ stats.pages < MaxPages /\ stats' = [stats EXCEPT !.pages = @ + 1]
         /\ from' = day
         /\ Answer("short") \/ (step' = "list" /\ answer' = answer)
      \/ stats' = NoRoom /\ from' = from /\ Answer("short")
  BY DEF NearPage, RoomForPage
<1>4. ReportTypeOK'
  BY <1>1, <1>2, <1>3, NoRoomIs DEF ReportTypeOK, Budget, loading, Answer
<1>5. WithinBudget'
  BY <1>1, <1>3, NoRoomIs, Bounds DEF WithinBudget, loading, ReportTypeOK
<1> QED
  BY <1>1, <1>3, <1>4, <1>5 DEF Serial, Stages, Missing, loading, Answer

\* The downloads begin with the first files of those selected.
LEMMA BeginIs ==
    ASSUME ReportTypeOK, NEW S \in SUBSET DOMAIN Reports, NEW s \in Budget,
           BeginDownloads(S, s)
    PROVE  /\ queue' \in SUBSET SelectUsageKeys(S) /\ queue' \in SUBSET DOMAIN Reports
           /\ capped' \in BOOLEAN /\ stopDownloads' \in BOOLEAN
           /\ stats' \in Budget /\ stats'.pages = s.pages /\ stats'.bytes = s.bytes
           /\ stats'.stop = s.stop
           /\ step' = "download" /\ keys' = {} /\ at' = 0
           /\ ~capped' => queue' = SelectUsageKeys(S)
           /\ stats'.selected = 0 => SelectUsageKeys(S) = {}
           /\ s.stop = "none" => ~stopDownloads'
<1> DEFINE selected == SelectUsageKeys(S)
           bounded == FirstKeys(selected, MaxSelected)
<1>1. selected \in SUBSET S /\ selected \in SUBSET Nat /\ IsFiniteSet(selected)
  BY SelectIs
<1> HIDE DEF selected
<1>2. /\ bounded \in SUBSET selected /\ IsFiniteSet(bounded) /\ Cardinality(bounded) \in Nat
      /\ selected # {} => bounded # {}
  BY <1>1, Bounds, FirstFew, FS_CardinalityType
<1> HIDE DEF bounded
<1>3. /\ queue' = bounded /\ capped' = (bounded # selected)
      /\ stats' = [s EXCEPT !.selected = Cardinality(bounded)]
      /\ stopDownloads' = (s.stop = "time_budget")
      /\ step' = "download" /\ keys' = {} /\ at' = 0
  BY DEF BeginDownloads, selected, bounded
<1>4. /\ stats' \in Budget /\ stats'.pages = s.pages /\ stats'.bytes = s.bytes
      /\ stats'.stop = s.stop /\ stats'.selected = Cardinality(bounded)
  BY <1>2, <1>3 DEF Budget
<1>5. stats'.selected = 0 => selected = {}
  BY <1>2, <1>4, FS_EmptySet
<1> QED
  BY <1>1, <1>2, <1>3, <1>4, <1>5 DEF selected

LEMMA ListPageBudget == ASSUME BudgetInv, ListPage PROVE BudgetInv'
<1> USE DEF BudgetInv
<1>1. /\ step = "list" /\ ~Missing /\ answer = "none" /\ fetching = {}
      /\ UNCHANGED <<call, bucket, outOfTime, load, fetching, rows, answer>> /\ UNCHANGED probing
  BY DEF ListPage, Stages
<1>2. ASSUME RoomForPage, NEW page \in Pages(Scope),
             \/ /\ at' = page.at /\ keys' = page.keys /\ stats' = page.stats
                /\ UNCHANGED <<step, queue, capped, stopDownloads>>
             \/ BeginDownloads(page.keys, page.stats)
      PROVE  BudgetInv'
  <2>1. /\ page.keys \in SUBSET DOMAIN Reports /\ Cardinality(page.keys) <= MaxCandidates
        /\ page.stats \in Budget /\ page.at \in Nat
        /\ page.stats.pages = stats.pages + 1 /\ page.stats.bytes = stats.bytes
    BY <1>1, ScopesAre, PageIs DEF ReportTypeOK, WithinBudget, Budget
  <2>2. stats.pages < MaxPages /\ stats.pages \in Nat
    BY <1>2 DEF RoomForPage, ReportTypeOK
  <2>3. CASE /\ at' = page.at /\ keys' = page.keys /\ stats' = page.stats
             /\ UNCHANGED <<step, queue, capped, stopDownloads>>
    <3>1. ReportTypeOK'
      BY <1>1, <2>1, <2>3 DEF ReportTypeOK, Budget, probing
    <3>2. WithinBudget'
      BY <1>1, <2>1, <2>2, <2>3, Bounds DEF WithinBudget
    <3> QED
      BY <1>1, <2>3, <3>1, <3>2 DEF Serial, Stages, Missing
  <2>4. CASE BeginDownloads(page.keys, page.stats)
    <3>1. /\ queue' \in SUBSET DOMAIN Reports /\ capped' \in BOOLEAN /\ stopDownloads' \in BOOLEAN
          /\ stats' \in Budget /\ stats'.pages = stats.pages + 1 /\ stats'.bytes = stats.bytes
          /\ step' = "download" /\ keys' = {} /\ at' = 0
      BY <2>1, <2>4, BeginIs
    <3>2. ReportTypeOK'
      BY <1>1, <3>1 DEF ReportTypeOK, Budget, probing
    <3>3. WithinBudget'
      BY <1>1, <2>2, <3>1, Bounds, FS_EmptySet DEF WithinBudget
    <3> QED
      BY <1>1, <3>1, <3>2, <3>3 DEF Serial, Stages, Missing
  <2> QED
    BY <1>2, <2>3, <2>4
<1>3. ASSUME BeginDownloads(keys, NoRoom) PROVE BudgetInv'
  <2>1. /\ queue' \in SUBSET DOMAIN Reports /\ capped' \in BOOLEAN /\ stopDownloads' \in BOOLEAN
        /\ stats' \in Budget /\ stats'.pages = stats.pages /\ stats'.bytes = stats.bytes
        /\ step' = "download" /\ keys' = {} /\ at' = 0
    BY <1>3, BeginIs, NoRoomIs DEF ReportTypeOK
  <2>2. ReportTypeOK'
    BY <1>1, <2>1 DEF ReportTypeOK, Budget, probing
  <2>3. WithinBudget'
    BY <1>1, <2>1, Bounds, FS_EmptySet DEF WithinBudget
  <2> QED
    BY <1>1, <2>1, <2>2, <2>3 DEF Serial, Stages, Missing
<1> QED
  BY <1>2, <1>3 DEF ListPage

\* No download starts beside another.
LEMMA OneAtATime == ASSUME Serial, StartDownload PROVE fetching = {}
<1> SUFFICES ASSUME NEW f \in fetching PROVE FALSE
  OBVIOUS
<1>1. fetching = {f}
  BY DEF Serial
<1>2. Cardinality(fetching) = 1
  BY <1>1, FS_Singleton
<1> QED
  BY <1>2 DEF StartDownload, Concurrency

LEMMA StartDownloadBudget == ASSUME BudgetInv, StartDownload PROVE BudgetInv'
<1> USE DEF BudgetInv
<1> DEFINE key == Min(queue)
           remaining == MaxBytes - stats.bytes
<1>1. /\ step = "download" /\ queue # {} /\ fetching = {} /\ at = 0 /\ keys = {}
      /\ UNCHANGED <<call, bucket, outOfTime, step, load, at, keys, capped, rows, answer>>
      /\ UNCHANGED probing
  BY OneAtATime DEF StartDownload, Stages
<1>2. key \in DOMAIN Reports /\ remaining \in Nat
  <2>1. queue \in SUBSET Nat /\ queue \subseteq DOMAIN Reports
    BY KeysAre DEF ReportTypeOK
  <2>2. key \in queue
    BY <1>1, <2>1, LeastOf
  <2>3. stats.bytes \in Nat /\ stats.bytes <= MaxBytes
    BY DEF ReportTypeOK, WithinBudget
  <2>4. remaining \in Nat
    BY <2>3, Bounds
  <2> QED
    BY <2>1, <2>2, <2>4
<1>3. queue' \in SUBSET queue /\ stopDownloads' \in BOOLEAN /\
      \/ fetching' = {} /\ \E reason \in StopReasons \ {"none"} : stats' = Stop(stats, reason)
      \/ fetching' = {[key |-> key, grant |-> remaining]} /\ stats' = stats
  BY <1>1 DEF StartDownload, ReportTypeOK, StopReasons
<1> HIDE DEF key, remaining
<1>4. stats' \in Budget /\ stats'.pages = stats.pages /\ stats'.bytes = stats.bytes
  BY <1>3, StopIs DEF ReportTypeOK, Budget
<1>5. ReportTypeOK'
  BY <1>1, <1>2, <1>3, <1>4 DEF ReportTypeOK, Budget, probing
<1>6. WithinBudget'
  BY <1>1, <1>4 DEF WithinBudget
<1>7. Serial'
  BY <1>3, <1>4 DEF Serial, remaining
<1> QED
  BY <1>1, <1>5, <1>6, <1>7 DEF Stages, Missing

\* The rows that a download adds.
RowsRead(f) ==
    {f.key} \X (1..Min({Reports[f.key].rows, MaxRows - Cardinality(rows[load])}))

\* The body is read up to the grant, and rows are kept up to the room for them.
LEMMA FinishDownloadIs ==
    ASSUME ReportTypeOK, WithinBudget, Serial, NEW f \in fetching
    PROVE  /\ f.key \in DOMAIN Reports /\ f.grant \in Nat /\ fetching \ {f} = {}
           /\ Min({Reports[f.key].size, f.grant}) \in Nat
           /\ stats.bytes + Min({Reports[f.key].size, f.grant}) <= MaxBytes
           /\ MaxRows - Cardinality(rows[load]) \in Nat
           /\ RowsRead(f) \in SUBSET ((DOMAIN Reports) \X Nat)
           /\ IsFiniteSet(rows[load] \cup RowsRead(f))
           /\ Cardinality(rows[load] \cup RowsRead(f)) <= MaxRows
<1> DEFINE room == MaxRows - Cardinality(rows[load])
           m == Min({Reports[f.key].rows, room})
           b == Min({Reports[f.key].size, f.grant})
           S == RowsRead(f)
<1>1. f.key \in DOMAIN Reports /\ f.grant \in Nat /\ fetching \ {f} = {}
  BY DEF ReportTypeOK, Serial
<1>2. IsFiniteSet(rows[load]) /\ Cardinality(rows[load]) \in Nat /\ room \in Nat
  BY FS_CardinalityType, Bounds DEF WithinBudget, ReportTypeOK
<1>3. b \in Nat /\ b <= f.grant
  BY <1>1, SmallerOf, KeysAre
<1>4. stats.bytes + b <= MaxBytes
  <2>1. f.grant = MaxBytes - stats.bytes /\ stats.bytes \in Nat
    BY DEF Serial, ReportTypeOK
  <2> HIDE DEF b
  <2> QED
    BY <1>3, <2>1, Bounds
<1>5. m \in Nat /\ m <= room
  BY <1>1, <1>2, SmallerOf, KeysAre
<1>6. S = {f.key} \X (1..m)
  BY DEF RowsRead
<1> HIDE DEF m, S
<1>7. IsFiniteSet(1..m) /\ Cardinality(1..m) = m
  BY <1>5, FS_Interval
<1>8. IsFiniteSet(S) /\ Cardinality(S) = m
  <2>1. IsFiniteSet({f.key}) /\ Cardinality({f.key}) = 1
    BY FS_Singleton
  <2>2. IsFiniteSet(S) /\ Cardinality(S) = Cardinality({f.key}) * Cardinality(1..m)
    BY <1>6, <1>7, <2>1, FS_Product
  <2>3. Cardinality(S) = 1 * m
    BY <1>7, <2>1, <2>2
  <2> QED
    BY <1>5, <2>2, <2>3
<1>9. S \in SUBSET ((DOMAIN Reports) \X Nat)
  BY <1>1, <1>6
<1>10. /\ IsFiniteSet(rows[load] \cup S) /\ Cardinality(rows[load] \cap S) \in Nat
       /\ Cardinality(rows[load] \cup S) =
             Cardinality(rows[load]) + Cardinality(S) - Cardinality(rows[load] \cap S)
  BY <1>2, <1>8, FS_Union, FS_Subset, FS_CardinalityType
<1>11. Cardinality(rows[load] \cup S) <= MaxRows
  BY <1>2, <1>5, <1>8, <1>10, Bounds
<1> QED
  BY <1>1, <1>2, <1>3, <1>4, <1>9, <1>10, <1>11 DEF S

LEMMA FinishDownloadBudget == ASSUME BudgetInv, FinishDownload PROVE BudgetInv'
<1> USE DEF BudgetInv
<1>1. /\ step = "download" /\ at = 0 /\ keys = {} /\ ~Missing
      /\ UNCHANGED <<call, bucket, outOfTime, step, load, at, keys, queue, capped, answer>>
      /\ UNCHANGED probing
  BY DEF FinishDownload, Stages
<1>2. PICK f \in fetching :
        LET file == Reports[f.key]
            read == [stats EXCEPT !.bytes = @ + Min({file.size, f.grant})]
            room == MaxRows - Cardinality(rows[load])
        IN  /\ fetching' = fetching \ {f}
            /\ IF file.size > f.grant \/ read.bytes > MaxBytes
               THEN /\ stats' = Stop(read, "max_downloaded_bytes")
                    /\ stopDownloads' = TRUE /\ UNCHANGED rows
               ELSE /\ rows' = [rows EXCEPT ![load] =
                                   @ \cup {f.key} \X (1..Min({file.rows, room}))]
                    /\ IF file.rows > room
                       THEN stats' = Stop(read, "max_rows") /\ stopDownloads' = TRUE
                       ELSE stats' = read /\ UNCHANGED stopDownloads
  BY DEF FinishDownload
<1> DEFINE b == Min({Reports[f.key].size, f.grant})
           S == RowsRead(f)
           read == [stats EXCEPT !.bytes = @ + b]
<1>3. /\ fetching' = {} /\ stopDownloads' \in BOOLEAN
      /\ UNCHANGED rows \/ rows' = [rows EXCEPT ![load] = @ \cup S]
      /\ stats' = read \/ \E reason \in StopReasons \ {"none"} : stats' = Stop(read, reason)
  <2>1. fetching \ {f} = {}
    BY FinishDownloadIs
  <2> QED
    BY <1>2, <2>1 DEF StopReasons, ReportTypeOK, RowsRead
<1>4. /\ b \in Nat /\ stats.bytes + b <= MaxBytes /\ S \in SUBSET ((DOMAIN Reports) \X Nat)
      /\ IsFiniteSet(rows[load] \cup S) /\ Cardinality(rows[load] \cup S) <= MaxRows
  BY FinishDownloadIs
<1> HIDE DEF b, S
<1>5. /\ read \in Budget /\ read.pages = stats.pages /\ read.bytes = stats.bytes + b
  BY <1>4 DEF ReportTypeOK, Budget
<1> HIDE DEF read
<1>6. stats' \in Budget /\ stats'.pages = stats.pages /\ stats'.bytes = stats.bytes + b
  BY <1>3, <1>5, StopIs
<1>7. ReportTypeOK'
  BY <1>1, <1>3, <1>4, <1>6 DEF ReportTypeOK, Budget, probing
<1>8. WithinBudget'
  <2>1. \A l \in Loads : IsFiniteSet(rows'[l]) /\ Cardinality(rows'[l]) <= MaxRows
    BY <1>3, <1>4 DEF WithinBudget, ReportTypeOK
  <2> QED
    BY <1>1, <1>4, <1>6, <2>1 DEF WithinBudget
<1>9. Stages'
  BY <1>1, <1>3 DEF Stages, Missing, ReportTypeOK, Loads
<1> QED
  BY <1>3, <1>7, <1>8, <1>9 DEF Serial

LEMMA EndLoadBudget == ASSUME BudgetInv, EndLoad PROVE BudgetInv'
<1> USE DEF BudgetInv
<1>1. /\ step = "download" /\ at = 0 /\ keys = {} /\ ~Missing /\ fetching = {} /\ answer = "none"
      /\ UNCHANGED <<call, bucket, outOfTime, at, keys>>
      /\ UNCHANGED <<queue, capped, stopDownloads, fetching, rows>>
      /\ UNCHANGED probing
  BY DEF EndLoad, LoadOver, Stages
<1>2. stats' \in Budget /\ stats'.pages = stats.pages /\ stats'.bytes = stats.bytes
  BY StopIs DEF EndLoad, ReportTypeOK, Budget, StopReasons
<1>3. \/ /\ load = "then" /\ load' = "now" /\ step' = "list" /\ answer' = answer
      \/ /\ load' = load
         /\ \/ load = "period" /\ step' = "probe" /\ answer' = answer
            \/ step' = "done" /\ answer' \in {"nothing", "no_rows", "ranking"}
  BY DEF EndLoad, AfterLoad, Answer
<1>4. ReportTypeOK'
  BY <1>1, <1>2, <1>3 DEF ReportTypeOK, Budget, probing, Loads
<1>5. WithinBudget'
  BY <1>1, <1>2 DEF WithinBudget
<1>6. Stages'
  BY <1>1, <1>3 DEF Stages, Missing
<1> QED
  BY <1>1, <1>4, <1>5, <1>6 DEF Serial

\* Every step keeps to the budget.
LEMMA BudgetStep == ASSUME BudgetInv, [ReportNext]_reportVars PROVE BudgetInv'
<1> USE DEF BudgetInv
<1>1. CASE TimeIsUp
  BY <1>1 DEF TimeIsUp, probing, loading, ReportTypeOK, WithinBudget, Serial, Stages, Missing
<1>2. CASE NotEnabled \/ RequestFails
  BY <1>2 DEF NotEnabled, RequestFails, Answer, probing, loading, ReportTypeOK, WithinBudget,
              Serial, Stages, Missing
<1>3. CASE NotAsked
  BY <1>3, NoRoomIs
     DEF NotAsked, Answer, probing, loading, ReportTypeOK, Budget, WithinBudget, Serial, Stages,
         Missing
<1>4. CASE UNCHANGED reportVars
  BY <1>4 DEF reportVars, ReportTypeOK, WithinBudget, Serial, Stages, Missing
<1> QED
  BY <1>1, <1>2, <1>3, <1>4, ProbePageBudget, NearPageBudget, ListPageBudget,
     StartDownloadBudget, FinishDownloadBudget, EndLoadBudget
     DEF ReportNext, Done

\* What a call uses of its budget, and what its steps leave, for every bucket.
THEOREM BudgetInvariance == ReportSpec => []BudgetInv
<1>1. BudgetInv /\ [ReportNext]_reportVars => BudgetInv'
  BY BudgetStep
<1> QED
  BY <1>1, BudgetInit, PTL DEF ReportSpec

\* The variables of a report keep their types.
THEOREM ReportTypeCorrect == ReportSpec => []ReportTypeOK
<1>1. BudgetInv => ReportTypeOK
  BY DEF BudgetInv
<1> QED
  BY <1>1, BudgetInvariance, PTL

\* A load reads no more files than it selected.
FewFiles == step = "download" => Cardinality(FilesOfLoad) <= MaxSelected

LEMMA FewFilesStep ==
    ASSUME BudgetInv, FewFiles, [ReportNext]_reportVars
    PROVE  FewFiles'
<1> SUFFICES ASSUME step' = "download" PROVE Cardinality(FilesOfLoad') <= MaxSelected
  BY DEF FewFiles
<1> USE DEF BudgetInv
<1>1. ASSUME step = "download", FilesOfLoad' \subseteq FilesOfLoad
      PROVE  Cardinality(FilesOfLoad') <= MaxSelected
  <2>1. FilesOfLoad \in SUBSET DOMAIN Reports
    BY DEF FilesOfLoad, ReportTypeOK
  <2>2. IsFiniteSet(FilesOfLoad) /\ Cardinality(FilesOfLoad) \in Nat
    BY <2>1, KeysAre
  <2>3. Cardinality(FilesOfLoad') \in Nat /\ Cardinality(FilesOfLoad') <= Cardinality(FilesOfLoad)
    BY <1>1, <2>2, FS_Subset, FS_CardinalityType
  <2> QED
    BY <1>1, <2>2, <2>3, Bounds DEF FewFiles
<1>2. CASE ListPage
  <2>1. /\ step = "list" /\ ~Missing /\ fetching' = {} /\ rows'[load'] = {}
    BY <1>2 DEF ListPage, Stages
  <2>2. PICK S \in SUBSET DOMAIN Reports, s \in Budget : BeginDownloads(S, s)
    <3>1. CASE RoomForPage
      <4>1. PICK page \in Pages(Scope) :
              UNCHANGED step \/ BeginDownloads(page.keys, page.stats)
        BY <1>2, <3>1 DEF ListPage
      <4>2. page.keys \in SUBSET DOMAIN Reports /\ page.stats \in Budget
        BY <2>1, ScopesAre, PageIs DEF ReportTypeOK, WithinBudget, Budget
      <4> QED
        BY <2>1, <4>1, <4>2
    <3>2. CASE ~RoomForPage
      BY <1>2, <3>2, NoRoomIs DEF ListPage, ReportTypeOK
    <3> QED
      BY <3>1, <3>2
  <2>3. SelectUsageKeys(S) \in SUBSET Nat /\ IsFiniteSet(SelectUsageKeys(S))
    BY SelectIs
  <2>4. queue' = FirstKeys(SelectUsageKeys(S), MaxSelected)
    BY <2>2 DEF BeginDownloads
  <2>5. FilesOfLoad' = queue'
    BY <2>1 DEF FilesOfLoad
  <2> QED
    BY <2>3, <2>4, <2>5, FirstFew, Bounds
<1>3. CASE StartDownload
  <2>1. queue \in SUBSET Nat /\ queue # {} /\ step = "download"
    BY <1>3, KeysAre DEF StartDownload, ReportTypeOK
  <2>2. Min(queue) \in queue
    BY <2>1, LeastOf
  <2>3. /\ UNCHANGED <<rows, load>> /\ queue' \subseteq queue
        /\ \A f \in fetching' : f \in fetching \/ f.key = Min(queue)
    BY <1>3 DEF StartDownload
  <2> QED
    BY <1>1, <2>1, <2>2, <2>3 DEF FilesOfLoad
<1>4. CASE FinishDownload
  <2>1. PICK f \in fetching :
          /\ fetching' = fetching \ {f} /\ UNCHANGED <<queue, load>> /\ step = "download"
          /\ UNCHANGED rows \/ rows' = [rows EXCEPT ![load] = @ \cup RowsRead(f)]
    BY <1>4 DEF FinishDownload, RowsRead
  <2>2. \A r \in rows'[load] : r \in rows[load] \/ r[1] = f.key
    BY <2>1 DEF RowsRead, ReportTypeOK
  <2> QED
    BY <1>1, <2>1, <2>2 DEF FilesOfLoad
<1>5. CASE EndLoad
  BY <1>5 DEF EndLoad, AfterLoad, Answer, LoadOver, Stages
<1>6. CASE ProbePage \/ NearPage \/ NotEnabled \/ NotAsked \/ RequestFails
  BY <1>6 DEF ProbePage, NearPage, NotEnabled, NotAsked, RequestFails, OnLatest, WindowEnds,
              Answer, Stages
<1>7. CASE TimeIsUp \/ UNCHANGED reportVars
  BY <1>1, <1>7 DEF TimeIsUp, loading, reportVars, FilesOfLoad
<1> QED
  BY <1>2, <1>3, <1>4, <1>5, <1>6, <1>7 DEF ReportNext, Done

\* The pages and bytes of a call, the candidates of each listing, and the files
\* and rows of each load stay within the bounds (REPORT_SCAN_LIMITS).
THEOREM BudgetIsKept == ReportSpec => []BudgetsHold
<1>1. ReportInit => FewFiles
  BY DEF ReportInit, FewFiles
<1>2. BudgetInv /\ FewFiles => BudgetsHold
  BY DEF BudgetInv, WithinBudget, FewFiles, BudgetsHold
<1> QED
  BY <1>1, <1>2, FewFilesStep, BudgetInvariance, PTL DEF ReportSpec

-----------------------------------------------------------------------------
\* NothingStartsLate, for one step.
StartsNothingLate ==
    outOfTime => stats'.pages = stats.pages /\ fetching' \subseteq fetching

LEMMA StepStartsNothingLate ==
    ASSUME BudgetInv, [ReportNext]_reportVars PROVE StartsNothingLate
<1> SUFFICES ASSUME outOfTime PROVE stats'.pages = stats.pages /\ fetching' \subseteq fetching
  BY DEF StartsNothingLate
<1> USE DEF BudgetInv
<1>0. ~RoomForPage /\ NoRoom.pages = stats.pages
  BY NoRoomIs DEF RoomForPage
<1>1. CASE TimeIsUp \/ NotEnabled \/ NotAsked \/ RequestFails \/ UNCHANGED reportVars
  BY <1>0, <1>1 DEF TimeIsUp, NotEnabled, NotAsked, RequestFails, loading, reportVars
<1>2. CASE ProbePage \/ NearPage
  BY <1>0, <1>2 DEF ProbePage, NearPage, loading
<1>3. CASE ListPage
  <2>1. BeginDownloads(keys, NoRoom) /\ UNCHANGED fetching
    BY <1>0, <1>3 DEF ListPage
  <2> QED
    BY <1>0, <2>1, BeginIs, NoRoomIs DEF ReportTypeOK
<1>4. CASE StartDownload
  <2>1. stats' = Stop(stats, "time_budget") /\ UNCHANGED fetching
    BY <1>4 DEF StartDownload
  <2> QED
    BY <2>1, StopIs DEF ReportTypeOK, Budget, StopReasons
<1>5. CASE FinishDownload
  <2>1. PICK f \in fetching :
          LET read == [stats EXCEPT !.bytes = @ + Min({Reports[f.key].size, f.grant})]
          IN  /\ fetching' = fetching \ {f}
              /\ stats' = read \/ \E r \in StopReasons \ {"none"} : stats' = Stop(read, r)
    BY <1>5 DEF FinishDownload, StopReasons
  <2> DEFINE b == Min({Reports[f.key].size, f.grant})
             read == [stats EXCEPT !.bytes = @ + b]
  <2>2. b \in Nat
    BY FinishDownloadIs
  <2> HIDE DEF b
  <2>3. read \in Budget /\ read.pages = stats.pages
    BY <2>2 DEF ReportTypeOK, Budget
  <2>4. stats' = read \/ \E r \in StopReasons \ {"none"} : stats' = Stop(read, r)
    BY <2>1 DEF b
  <2> HIDE DEF read
  <2> QED
    BY <2>1, <2>3, <2>4, StopIs
<1>6. CASE EndLoad
  BY <1>6, StopIs DEF EndLoad, ReportTypeOK, Budget, StopReasons
<1> QED
  BY <1>1, <1>2, <1>3, <1>4, <1>5, <1>6 DEF ReportNext, Done

\* No page is asked for and no download started once the time is up.
THEOREM StartsNothing == ReportSpec => NothingStartsLate
<1>1. BudgetInv /\ [ReportNext]_reportVars => [StartsNothingLate]_reportVars
  BY StepStartsNothingLate
<1>2. ReportSpec => [][StartsNothingLate]_reportVars
  BY <1>1, BudgetInvariance, PTL DEF ReportSpec
<1> QED
  BY <1>2 DEF NothingStartsLate, StartsNothingLate

-----------------------------------------------------------------------------
\* A call that met a bound says so: nothing is left to show.
LEMMA StoppedIsComplete == ASSUME ~Unstopped' PROVE CompleteInv'
BY DEF Unstopped, CompleteInv, Scanned, Loaded, LatestIs, ThenLoaded, NothingInPeriod,
       CompleteOrFlagged

LEMMA UnansweredIsComplete == ASSUME answer' = "none" PROVE CompleteOrFlagged'
BY DEF CompleteOrFlagged

\* Usage files are reports, so a scope that has some wants just those.
LEMMA CsvIs ==
    ASSUME NEW S \in SUBSET DOMAIN Reports
    PROVE  /\ Csv(S) \in SUBSET S /\ UsageFiles(Csv(S)) = UsageFiles(S)
           /\ UsageFiles(S) # {} => SelectUsageKeys(Csv(S)) = UsageFiles(S)
BY DEF Csv, IsCsv, UsageFiles, SelectUsageKeys

\* A listing that has just begun has seen no key.
LEMMA NothingListed ==
    ASSUME NEW S \in SUBSET DOMAIN Reports, at = 0 PROVE Listed(S) = {}
<1> SUFFICES ASSUME NEW k \in S PROVE ~(k <= 0)
  BY DEF Listed
<1> QED
  BY KeysAre

\* The last key of a listing since some day has the latest day of all.
LEMMA LatestOf ==
    ASSUME bucket \in SUBSET DOMAIN Reports, NEW since \in Int, NEW data,
           data = SelectUsageKeys(Csv(Since(since))), data # {}
    PROVE  /\ Max(data) \in DOMAIN Reports
           /\ UsageFiles(Since(Reports[Max(data)].day + 1)) = {}
<1> DEFINE S == Since(since)
           m == Max(data)
<1>1. S \in SUBSET bucket /\ S \in SUBSET DOMAIN Reports
  BY DEF Since
<1>2. Csv(S) \in SUBSET S
  BY <1>1, CsvIs
<1>3. data \in SUBSET Csv(S) /\ data \in SUBSET Nat /\ IsFiniteSet(data)
  BY <1>1, <1>2, SelectIs
<1>4. m \in data /\ \A x \in data : x <= m
  BY <1>3, GreatestOf
<1>5. m \in DOMAIN Reports /\ Reports[m].day >= since
  BY <1>1, <1>2, <1>3, <1>4 DEF Since
<1> HIDE DEF m
<1>6. ASSUME NEW k \in UsageFiles(Since(Reports[m].day + 1)) PROVE FALSE
  <2>1. /\ k \in bucket /\ k \in DOMAIN Reports /\ Reports[k].kind = "usage"
        /\ Reports[k].day >= Reports[m].day + 1
    BY <1>6 DEF UsageFiles, Since
  <2>2. Reports[k].day \in Nat /\ Reports[m].day \in Nat /\ k \in Nat /\ m \in Nat
    BY <1>5, <2>1, KeysAre
  <2>3. Reports[k].day >= since
    BY <1>5, <2>1, <2>2
  <2>4. k \in UsageFiles(S)
    BY <2>1, <2>3 DEF Since, UsageFiles
  <2>5. k \in data
    BY <1>1, <2>4, CsvIs
  <2>6. k < m \/ k = m
    BY <1>4, <2>2, <2>5
  <2> QED
    BY <1>5, <2>1, <2>2, <2>6, FilesInOrder DEF FilesInOrder
<1> QED
  BY <1>5, <1>6 DEF m

LEMMA ProbePageComplete ==
    ASSUME BudgetInv, BudgetInv', CompleteInv, ProbePage PROVE CompleteInv'
<1> SUFFICES ASSUME Unstopped' PROVE CompleteInv'
  BY StoppedIsComplete
<1> DEFINE since == Today - Lookbacks[window]
           S == Since(since)
<1>1. /\ step = "probe" /\ ~Missing /\ answer = "none" /\ (call.tool = "growth" => load = "then")
      /\ (call.tool = "egress" => load = "period") /\ call.tool \in {"growth", "egress"}
      /\ bucket \in SUBSET DOMAIN Reports /\ S \in SUBSET DOMAIN Reports
      /\ UNCHANGED <<call, bucket, outOfTime, from>> /\ UNCHANGED loading
  BY ScopesAre DEF ProbePage, Stages, BudgetInv, ReportTypeOK
<1>2. since \in Int /\ window \in 1..Len(Lookbacks)
  BY DaysAreNumbers DEF DaysAreNumbers, BudgetInv, ReportTypeOK
<1>3. RoomForPage
  BY NoRoomIs DEF ProbePage, Unstopped, BudgetInv
<1>4. PICK page \in Pages(S) :
        /\ stats' = page.stats
        /\ IF page.more /\ page.stats.stop = "none"
           THEN /\ at' = page.at /\ keys' = page.keys
                /\ UNCHANGED <<window, latest, step, answer>>
           ELSE /\ at' = 0 /\ keys' = {}
                /\ page.stats.stop = "none" => WindowEnds(page.keys)
  BY <1>3 DEF ProbePage
<1>5. page.stats.stop = "none"
  BY <1>4 DEF Unstopped
<1>6. /\ stats.stop = "none" /\ page.more \in BOOLEAN
      /\ keys = Listed(S) =>
            /\ page.keys = {k \in S : k <= page.at /\ IsCsv(k)}
            /\ ~page.more => page.keys = Csv(S)
  BY <1>1, <1>5, PageIs DEF BudgetInv, ReportTypeOK, WithinBudget, Budget
<1>7. Unstopped
  BY <1>1, <1>6 DEF Unstopped
<1>8. keys = Listed(S)
  BY <1>1, <1>7 DEF CompleteInv, Scanned
<1>9. NothingInPeriod
  BY DEF CompleteInv
<1> HIDE DEF S, since
<1>10. CASE page.more
  <2>1. /\ at' = page.at /\ keys' = {k \in S : k <= page.at /\ IsCsv(k)}
        /\ UNCHANGED <<window, latest, step, answer>>
    BY <1>4, <1>5, <1>6, <1>8, <1>10
  <2>2. keys' = Listed(S)'
    BY <1>1, <2>1 DEF Listed, S, since, Since, IsCsv
  <2>3. Scanned'
    BY <1>1, <2>1, <2>2 DEF Scanned, S, since
  <2>4. NothingInPeriod'
    BY <1>1, <1>7, <1>9, <2>1 DEF NothingInPeriod, UsageFiles, Since
  <2> QED
    BY <1>1, <2>1, <2>3, <2>4, UnansweredIsComplete
       DEF CompleteInv, Loaded, LatestIs, ThenLoaded, CompleteOrFlagged
<1>11. CASE ~page.more
  <2> DEFINE data == SelectUsageKeys(page.keys)
             day == IF data = {} THEN NoDay ELSE Reports[Max(data)].day
  <2>1. at' = 0 /\ keys' = {} /\ WindowEnds(page.keys) /\ page.keys = Csv(S)
    BY <1>4, <1>5, <1>6, <1>8, <1>11
  <2>2. data = {} => UsageFiles(S) = {}
    BY <1>1, <2>1, CsvIs
  <2>3. data # {} => /\ Max(data) \in DOMAIN Reports /\ day # NoDay
                     /\ UsageFiles(Since(day + 1)) = {}
    <3> SUFFICES ASSUME data # {}
                 PROVE  /\ Max(data) \in DOMAIN Reports /\ day # NoDay
                        /\ UsageFiles(Since(day + 1)) = {}
      OBVIOUS
    <3>1. data = SelectUsageKeys(Csv(Since(since)))
      BY <2>1 DEF S
    <3>2. day = Reports[Max(data)].day
      OBVIOUS
    <3> HIDE DEF data, day
    <3>3. /\ Max(data) \in DOMAIN Reports
          /\ UsageFiles(Since(Reports[Max(data)].day + 1)) = {}
      BY <1>1, <1>2, <3>1, LatestOf
    <3> QED
      BY <3>2, <3>3, KeysAre DEF NoDay
  <2>4. \/ data = {} /\ window < Len(Lookbacks) /\ UNCHANGED <<latest, step, answer>>
        \/ ~(data = {} /\ window < Len(Lookbacks)) /\ latest' = day /\ OnLatest(day)
           /\ UNCHANGED window
    BY <2>1 DEF WindowEnds
  <2>5. day = NoDay => data = {}
    BY <2>3
  <2> HIDE DEF data, day
  <2>6. CASE UNCHANGED <<latest, step, answer>>
    <3>1. Scanned'
      <4>1. \A k \in bucket' : ~(k <= 0)
        BY <1>1, KeysAre
      <4>2. keys' = Listed(Since(Today - Lookbacks[window]))'
        BY <2>1, <4>1 DEF Listed, Since, IsCsv
      <4> QED
        BY <1>1, <2>6, <4>2 DEF Scanned
    <3>2. NothingInPeriod'
      BY <1>1, <1>7, <1>9, <2>6 DEF NothingInPeriod, UsageFiles, Since
    <3> QED
      BY <1>1, <2>6, <3>1, <3>2, UnansweredIsComplete
         DEF CompleteInv, Loaded, LatestIs, ThenLoaded, CompleteOrFlagged
  <2>7. CASE ~(data = {} /\ window < Len(Lookbacks)) /\ latest' = day /\ OnLatest(day)
             /\ UNCHANGED window
    <3>1. CASE day # NoDay /\ call.tool = "growth"
      <4>1. step' = "near" /\ answer' = "none"
        BY <1>1, <2>7, <3>1 DEF OnLatest
      <4>2. LatestIs'
        BY <1>1, <2>3, <2>7, <3>1 DEF LatestIs, UsageFiles, Since, day
      <4> QED
        BY <4>1, <4>2 DEF CompleteInv, Scanned, Loaded, ThenLoaded, NothingInPeriod,
                          CompleteOrFlagged
    <3>2. CASE day # NoDay /\ call.tool = "egress"
      <4>1. step' = "done" /\ answer' = "period"
        BY <2>7, <3>2 DEF OnLatest, Answer
      <4>2. UsageFiles(Since(call.target))' = {}
        BY <1>1, <1>7, <1>9, <3>2 DEF NothingInPeriod, UsageFiles, Since
      <4> QED
        BY <1>1, <4>1, <4>2
           DEF CompleteInv, Scanned, Loaded, LatestIs, ThenLoaded, NothingInPeriod,
               CompleteOrFlagged
    <3>3. CASE day = NoDay
      <4>1. step' = "done" /\ answer' = "horizon"
        BY <1>4, <1>5, <2>7, <3>3 DEF OnLatest, Answer
      <4>2. window = Len(Lookbacks) /\ UsageFiles(S) = {}
        BY <1>2, <2>2, <2>5, <2>7, <3>3
      <4>3. UsageFiles(Since(Today - Lookbacks[Len(Lookbacks)]))' = {}
        BY <1>1, <4>2 DEF S, since, UsageFiles, Since
      <4> QED
        BY <4>1, <4>3
           DEF CompleteInv, Scanned, Loaded, LatestIs, ThenLoaded, NothingInPeriod,
               CompleteOrFlagged
    <3> QED
      BY <1>1, <3>1, <3>2, <3>3
  <2> QED
    BY <2>4, <2>6, <2>7
<1> QED
  BY <1>6, <1>10, <1>11

LEMMA NearPageComplete ==
    ASSUME BudgetInv, BudgetInv', CompleteInv, NearPage PROVE CompleteInv'
<1> SUFFICES ASSUME Unstopped' PROVE CompleteInv'
  BY StoppedIsComplete
<1> DEFINE found == Since(call.target)
           day == IF found = {} THEN NoDay ELSE Reports[Min(found)].day
<1>1. /\ step = "near" /\ ~Missing /\ answer = "none" /\ load = "then" /\ at = 0 /\ keys = {}
      /\ call.tool = "growth" /\ found \in SUBSET DOMAIN Reports
      /\ UNCHANGED <<call, bucket, outOfTime, window, latest, at, keys>> /\ UNCHANGED loading
  BY ScopesAre DEF NearPage, Stages, BudgetInv
<1>2. RoomForPage
  BY NoRoomIs DEF NearPage, Unstopped, BudgetInv
<1>3. /\ stats' = [stats EXCEPT !.pages = @ + 1] /\ from' = day
      /\ \/ (day = NoDay \/ day >= latest) /\ Answer("short")
         \/ step' = "list" /\ answer' = answer
  BY <1>2 DEF NearPage
<1>4. Unstopped
  BY <1>1, <1>3 DEF Unstopped, BudgetInv, ReportTypeOK
<1>5. LatestIs'
  BY <1>1, <1>4 DEF CompleteInv, LatestIs, UsageFiles, Since
<1>6. CASE step' = "list" /\ answer' = answer
  <2>1. Scope' \in SUBSET DOMAIN Reports
    BY <1>1 DEF Scope, OfDay, loading, BudgetInv, ReportTypeOK, Missing
  <2>2. Scanned'
    BY <1>1, <1>6, <2>1, KeysAre DEF Scanned, Listed, IsCsv
  <2> QED
    BY <1>1, <1>5, <1>6, <2>2
       DEF CompleteInv, Loaded, ThenLoaded, NothingInPeriod, CompleteOrFlagged, loading
<1>7. CASE (day = NoDay \/ day >= latest) /\ Answer("short")
  <2>1. ASSUME NEW k \in UsageFiles(Since(call.target)) PROVE Reports[k].day >= latest
    <3>1. k \in found /\ found # {} /\ found \in SUBSET Nat
      BY <1>1, <2>1, KeysAre DEF UsageFiles
    <3> DEFINE m == Min(found)
    <3>2. m \in found /\ m <= k
      BY <3>1, LeastOf
    <3>3. day = Reports[m].day
      BY <3>1
    <3> HIDE DEF m, found, day
    <3>4. m \in DOMAIN Reports /\ k \in DOMAIN Reports /\ m \in Nat /\ k \in Nat
          /\ Reports[m].day \in Nat /\ Reports[k].day \in Nat /\ Reports[m].day > 0
      BY <1>1, <3>1, <3>2, KeysAre
    <3>5. Reports[m].day <= Reports[k].day
      <4>1. m = k \/ m < k
        BY <3>2, <3>4
      <4> QED
        BY <3>4, <4>1, FilesInOrder DEF FilesInOrder
    <3>6. Reports[m].day >= latest /\ latest \in Nat
      BY <1>7, <3>3, <3>4 DEF NoDay, BudgetInv, ReportTypeOK
    <3> QED
      BY <3>4, <3>5, <3>6
  <2>2. step' = "done" /\ answer' = "short"
    BY <1>7 DEF Answer
  <2>3. \A k \in UsageFiles(Since(call.target))' : Reports[k].day >= latest'
    BY <1>1, <2>1 DEF UsageFiles, Since
  <2> QED
    BY <2>2, <2>3
       DEF CompleteInv, Scanned, Loaded, LatestIs, ThenLoaded, NothingInPeriod,
           CompleteOrFlagged
<1> QED
  BY <1>3, <1>6, <1>7

LEMMA RowsOfNothing == RowsOf({}) = {}
BY DEF RowsOf

LEMMA ListPageComplete ==
    ASSUME BudgetInv, BudgetInv', CompleteInv, ListPage PROVE CompleteInv'
<1> SUFFICES ASSUME Unstopped' PROVE CompleteInv'
  BY StoppedIsComplete
<1>1. /\ step = "list" /\ ~Missing /\ answer = "none" /\ fetching = {} /\ rows[load] = {}
      /\ Scope \in SUBSET DOMAIN Reports
      /\ UNCHANGED <<call, bucket, outOfTime, load, fetching, rows, answer>> /\ UNCHANGED probing
  BY ScopesAre DEF ListPage, Stages, BudgetInv
<1>2. Scope' = Scope
  BY <1>1 DEF Scope, Since, OfDay, probing
<1>3. RoomForPage
  <2> SUFFICES ASSUME BeginDownloads(keys, NoRoom) PROVE FALSE
    BY DEF ListPage
  <2> QED
    BY BeginIs, NoRoomIs DEF Unstopped, BudgetInv, ReportTypeOK
<1>4. PICK page \in Pages(Scope) :
        IF page.more /\ page.stats.stop = "none"
        THEN /\ at' = page.at /\ keys' = page.keys /\ stats' = page.stats
             /\ UNCHANGED <<step, queue, capped, stopDownloads>>
        ELSE BeginDownloads(page.keys, page.stats)
  BY <1>3 DEF ListPage
<1>5. /\ page.keys \in SUBSET DOMAIN Reports /\ page.stats \in Budget /\ page.more \in BOOLEAN
      /\ page.stats.stop = "none" => stats.stop = "none"
      /\ page.stats.stop = "none" /\ keys = Listed(Scope) =>
            /\ page.keys = {k \in Scope : k <= page.at /\ IsCsv(k)}
            /\ ~page.more => page.keys = Csv(Scope)
  BY <1>1, PageIs DEF BudgetInv, ReportTypeOK, WithinBudget, Budget
<1>6. page.stats.stop = "none"
  BY <1>4, <1>5, BeginIs DEF Unstopped, BudgetInv
<1>7. Unstopped
  BY <1>1, <1>5, <1>6 DEF Unstopped
<1>8. keys = Listed(Scope)
  BY <1>1, <1>7 DEF CompleteInv, Scanned
<1>9. /\ call.tool = "growth" => UsageFiles(Since(latest + 1)) = {}
      /\ load = "now" => Holds("then", OfDay(from))
  BY <1>1, <1>7 DEF CompleteInv, LatestIs, ThenLoaded
<1>10. /\ call'.tool = "growth" => UsageFiles(Since(latest + 1))' = {}
       /\ load' = "now" => Holds("then", OfDay(from))'
  BY <1>1, <1>9 DEF UsageFiles, Since, Holds, OfDay, RowsOf, probing
<1>11. CASE page.more
  <2>1. /\ at' = page.at /\ keys' = {k \in Scope : k <= page.at /\ IsCsv(k)}
        /\ UNCHANGED step
    BY <1>4, <1>5, <1>6, <1>8, <1>11
  <2>2. Scanned'
    BY <1>1, <1>2, <2>1 DEF Scanned, Listed, IsCsv
  <2> QED
    BY <1>1, <1>10, <2>1, <2>2
       DEF CompleteInv, Loaded, LatestIs, ThenLoaded, NothingInPeriod, CompleteOrFlagged
<1>12. CASE ~page.more
  <2>1. BeginDownloads(Csv(Scope), page.stats) /\ Csv(Scope) \in SUBSET DOMAIN Reports
    BY <1>4, <1>5, <1>6, <1>8, <1>12
  <2>2. /\ step' = "download" /\ ~stopDownloads'
        /\ ~capped' => queue' = Wanted
        /\ stats'.selected = 0 => Wanted = {}
    BY <1>5, <1>6, <2>1, BeginIs DEF Wanted, BudgetInv
  <2>3. Wanted' = Wanted
    BY <1>2 DEF Wanted, Csv, IsCsv, SelectUsageKeys
  <2>4. Loaded'
    <3>1. fetching' = {} /\ Pending' = queue' /\ rows'[load'] = {}
      BY <1>1 DEF Pending
    <3> QED
      BY <2>2, <2>3, <3>1, RowsOfNothing DEF Loaded, RowsOf
  <2> QED
    BY <1>1, <1>10, <2>2, <2>4
       DEF CompleteInv, Scanned, LatestIs, ThenLoaded, NothingInPeriod, CompleteOrFlagged
<1> QED
  BY <1>5, <1>11, <1>12

LEMMA StartDownloadComplete ==
    ASSUME BudgetInv, BudgetInv', CompleteInv, StartDownload PROVE CompleteInv'
<1> SUFFICES ASSUME Unstopped' PROVE CompleteInv'
  BY StoppedIsComplete
<1> DEFINE key == Min(queue)
           remaining == MaxBytes - stats.bytes
<1>1. /\ step = "download" /\ queue # {} /\ fetching = {} /\ answer = "none"
      /\ UNCHANGED <<call, bucket, outOfTime, step, load, at, keys, capped, rows, answer>>
      /\ UNCHANGED probing
  BY OneAtATime DEF StartDownload, Stages, BudgetInv
<1>2. key \in queue
  BY <1>1, LeastOf, KeysAre DEF BudgetInv, ReportTypeOK
<1>3. \A r \in StopReasons \ {"none"} : stats' # Stop(stats, r)
  BY StopIs DEF Unstopped, BudgetInv, ReportTypeOK, Budget
<1>4. /\ queue' = queue \ {key} /\ fetching' = {[key |-> key, grant |-> remaining]}
      /\ UNCHANGED <<stats, stopDownloads>>
  BY <1>1, <1>3 DEF StartDownload, StopReasons
<1> HIDE DEF key, remaining
<1>5. Pending' = Pending /\ (\A f \in fetching' : f.key \notin queue')
  BY <1>1, <1>2, <1>4 DEF Pending
<1>6. Unstopped /\ Wanted' = Wanted
  BY <1>1, <1>4
     DEF Unstopped, Missing, Wanted, Csv, IsCsv, SelectUsageKeys, Scope, Since, OfDay, probing
<1>7. Loaded'
  BY <1>1, <1>4, <1>5, <1>6 DEF CompleteInv, Loaded, RowsOf
<1> QED
  BY <1>1, <1>6, <1>7
     DEF CompleteInv, Scanned, LatestIs, ThenLoaded, NothingInPeriod, CompleteOrFlagged,
         UsageFiles, Since, OfDay, Holds, RowsOf, probing

\* The rows of one file more.
LEMMA RowsOfMore ==
    ASSUME NEW S, NEW k, k \notin S
    PROVE  RowsOf(S \cup {k}) = RowsOf(S) \cup {k} \X (1..Reports[k].rows)
BY DEF RowsOf

LEMMA FinishDownloadComplete ==
    ASSUME BudgetInv, BudgetInv', CompleteInv, FinishDownload PROVE CompleteInv'
<1> SUFFICES ASSUME Unstopped' PROVE CompleteInv'
  BY StoppedIsComplete
<1>1. /\ step = "download" /\ answer = "none"
      /\ UNCHANGED <<call, bucket, outOfTime, step, load, at, keys, queue, capped, answer>>
      /\ UNCHANGED probing
  BY DEF FinishDownload, Stages, BudgetInv
<1>2. PICK f \in fetching :
        LET file == Reports[f.key]
            read == [stats EXCEPT !.bytes = @ + Min({file.size, f.grant})]
            room == MaxRows - Cardinality(rows[load])
        IN  /\ fetching' = fetching \ {f}
            /\ IF file.size > f.grant \/ read.bytes > MaxBytes
               THEN /\ stats' = Stop(read, "max_downloaded_bytes")
                    /\ stopDownloads' = TRUE /\ UNCHANGED rows
               ELSE /\ rows' = [rows EXCEPT ![load] =
                                   @ \cup {f.key} \X (1..Min({file.rows, room}))]
                    /\ IF file.rows > room
                       THEN stats' = Stop(read, "max_rows") /\ stopDownloads' = TRUE
                       ELSE stats' = read /\ UNCHANGED stopDownloads
  BY DEF FinishDownload
<1> DEFINE b == Min({Reports[f.key].size, f.grant})
           read == [stats EXCEPT !.bytes = @ + b]
           room == MaxRows - Cardinality(rows[load])
           n == Reports[f.key].rows
<1>3. /\ f.key \in DOMAIN Reports /\ b \in Nat /\ room \in Nat /\ n \in Nat
      /\ fetching = {f}
  <2>1. f.key \in DOMAIN Reports /\ b \in Nat /\ room \in Nat /\ fetching \ {f} = {}
    BY FinishDownloadIs DEF BudgetInv
  <2> QED
    BY <2>1, KeysAre
<1>4. read \in Budget /\ read.stop = stats.stop
  <2>1. b \in Nat /\ stats \in Budget
    BY <1>3 DEF BudgetInv, ReportTypeOK, Budget
  <2> HIDE DEF b
  <2> QED
    BY <2>1 DEF Budget
<1>5. \A r \in StopReasons \ {"none"} : stats' # Stop(read, r)
  <2> HIDE DEF read
  <2> QED
    BY <1>4, StopIs DEF Unstopped
<1>6. /\ stats' = read /\ UNCHANGED stopDownloads /\ ~(n > room) /\ fetching' = {}
      /\ rows' = [rows EXCEPT ![load] = @ \cup {f.key} \X (1..Min({n, room}))]
  BY <1>2, <1>3, <1>5 DEF StopReasons
<1>7. Min({n, room}) = n
  <2> HIDE DEF n, room
  <2>1. Min({n, room}) \in {n, room} /\ Min({n, room}) <= n /\ n <= room
    BY <1>3, <1>6, SmallerOf
  <2> QED
    BY <1>3, <2>1
<1>8. /\ Unstopped /\ Wanted' = Wanted /\ Scope' = Scope /\ stats'.selected = stats.selected
      /\ stats'.stop = stats.stop
  <2> HIDE DEF b
  <2> QED
    BY <1>1, <1>4, <1>6
       DEF Unstopped, Missing, Wanted, Csv, IsCsv, SelectUsageKeys, Scope, Since, OfDay, probing,
           BudgetInv, ReportTypeOK
<1>9. /\ rows'[load] = rows[load] \cup {f.key} \X (1..n)
      /\ \A l \in Loads \ {load} : rows'[l] = rows[l]
  BY <1>6, <1>7 DEF BudgetInv, ReportTypeOK
<1>10. /\ Pending = queue \cup {f.key} /\ Pending' = queue
       /\ \A g \in fetching' : g.key \notin queue'
  BY <1>1, <1>3, <1>6 DEF Pending
<1>11. /\ ~stopDownloads /\ f.key \notin queue
       /\ ~capped => /\ Pending \subseteq Wanted /\ rows[load] = RowsOf(Wanted \ Pending)
                     /\ stats.selected = 0 => Wanted = {}
  BY <1>1, <1>3, <1>8 DEF CompleteInv, Loaded
<1> HIDE DEF b, read, room
<1>12. ~capped => rows'[load] = RowsOf(Wanted \ queue)
  <2> SUFFICES ASSUME ~capped PROVE rows'[load] = RowsOf(Wanted \ queue)
    OBVIOUS
  <2> DEFINE rest == Wanted \ Pending
  <2>1. Wanted \ queue = rest \cup {f.key} /\ f.key \notin rest
    BY <1>10, <1>11
  <2>2. rows[load] = RowsOf(rest)
    BY <1>11
  <2> HIDE DEF rest
  <2>3. RowsOf(Wanted \ queue) = RowsOf(rest) \cup {f.key} \X (1..n)
    BY <2>1, RowsOfMore
  <2> QED
    BY <1>9, <2>2, <2>3
<1>13. Loaded'
  <2>1. RowsOf(Wanted' \ Pending') = RowsOf(Wanted \ queue)
    BY <1>8, <1>10
  <2> QED
    BY <1>1, <1>6, <1>8, <1>10, <1>11, <1>12, <2>1 DEF Loaded
<1>14. LatestIs'
  BY <1>1, <1>8 DEF CompleteInv, LatestIs, UsageFiles, Since, probing
<1>15. ThenLoaded'
  BY <1>1, <1>8, <1>9 DEF CompleteInv, ThenLoaded, UsageFiles, OfDay, Holds, RowsOf, probing, Loads
<1> QED
  BY <1>1, <1>13, <1>14, <1>15, UnansweredIsComplete
     DEF CompleteInv, Scanned, NothingInPeriod

LEMMA EndLoadComplete ==
    ASSUME BudgetInv, BudgetInv', CompleteInv, EndLoad PROVE CompleteInv'
<1> SUFFICES ASSUME Unstopped' PROVE CompleteInv'
  BY StoppedIsComplete
<1>1. /\ step = "download" /\ at = 0 /\ keys = {} /\ ~Missing /\ fetching = {} /\ answer = "none"
      /\ queue = {} \/ stopDownloads
      /\ load = "period" <=> call.tool = "egress"
      /\ bucket \in SUBSET DOMAIN Reports /\ Scope \in SUBSET DOMAIN Reports
      /\ UNCHANGED <<call, bucket, outOfTime, at, keys, rows>> /\ UNCHANGED probing
  BY ScopesAre DEF EndLoad, LoadOver, Stages, BudgetInv
<1>2. ~capped /\ stats' = stats
  BY StopIs DEF EndLoad, Unstopped, BudgetInv, ReportTypeOK, Budget, StopReasons
<1>3. Unstopped
  BY <1>1, <1>2 DEF Unstopped
<1>4. /\ rows[load] = RowsOf(Wanted)
      /\ stats.selected = 0 => Wanted = {}
  <2>1. /\ ~stopDownloads /\ rows[load] = RowsOf(Wanted \ Pending)
        /\ stats.selected = 0 => Wanted = {}
    BY <1>1, <1>2, <1>3 DEF CompleteInv, Loaded
  <2>2. Wanted \ Pending = Wanted
    BY <1>1, <2>1 DEF Pending
  <2> QED
    BY <2>1, <2>2
<1>5. UsageFiles(Scope) # {} => Wanted = UsageFiles(Scope)
  BY <1>1, CsvIs DEF Wanted
<1>6. Holds(load, Scope)
  BY <1>4, <1>5 DEF Holds
<1>7. call.tool = "growth" => UsageFiles(Since(latest + 1)) = {}
  BY <1>1, <1>3 DEF CompleteInv, LatestIs
<1>8. /\ call'.tool = "growth" => UsageFiles(Since(latest + 1))' = {}
      /\ \A l \in Loads : Holds(l, OfDay(from)) => Holds(l, OfDay(from))'
      /\ \A l \in Loads : Holds(l, OfDay(latest)) => Holds(l, OfDay(latest))'
      /\ \A l \in Loads : Holds(l, Since(call.target)) => Holds(l, Since(call.target))'
  BY <1>1, <1>7 DEF UsageFiles, Since, Holds, OfDay, RowsOf, probing
<1>9. CASE load = "then"
  <2>1. load' = "now" /\ step' = "list" /\ answer' = "none"
    BY <1>1, <1>9 DEF EndLoad, AfterLoad
  <2>2. Scanned'
    <3>1. \A k \in bucket' : ~(k <= 0)
      BY <1>1, KeysAre
    <3> QED
      BY <1>1, <2>1, <3>1 DEF Scanned, Listed, Scope, OfDay
  <2>3. ThenLoaded'
    BY <1>6, <1>8, <1>9 DEF Scope, ThenLoaded, Loads
  <2> QED
    BY <1>8, <2>1, <2>2, <2>3
       DEF CompleteInv, Loaded, LatestIs, NothingInPeriod, CompleteOrFlagged
<1>10. CASE load = "period" /\ stats.selected = 0
  <2>1. load' = "period" /\ step' = "probe" /\ answer' = "none"
    BY <1>1, <1>3, <1>10 DEF EndLoad, AfterLoad, Unstopped
  <2>2. Scanned'
    <3>1. \A k \in bucket' : ~(k <= 0)
      BY <1>1, KeysAre
    <3> QED
      BY <1>1, <2>1, <3>1 DEF Scanned, Listed, Since
  <2>3. UsageFiles(Since(call.target)) = {}
    <3>1. UsageFiles(Scope) = {}
      BY <1>4, <1>5, <1>10
    <3> QED
      BY <1>10, <3>1 DEF Scope
  <2>4. NothingInPeriod'
    BY <1>1, <2>3 DEF NothingInPeriod, UsageFiles, Since
  <2> QED
    BY <2>1, <2>2, <2>4
       DEF CompleteInv, Loaded, LatestIs, ThenLoaded, CompleteOrFlagged
<1>11. CASE load = "period" /\ stats.selected # 0
  <2>1. step' = "done" /\ answer' \in {"no_rows", "ranking"}
    BY <1>11 DEF EndLoad, AfterLoad, Answer
  <2>2. Holds("period", Since(call.target))' /\ call'.tool = "egress"
    BY <1>1, <1>6, <1>8, <1>11 DEF Scope, Loads
  <2> QED
    BY <2>1, <2>2
       DEF CompleteInv, Scanned, Loaded, LatestIs, ThenLoaded, NothingInPeriod,
           CompleteOrFlagged
<1>12. CASE load = "now"
  <2>1. step' = "done" /\ answer' = "ranking" /\ call'.tool # "egress"
    BY <1>1, <1>12 DEF EndLoad, AfterLoad, Answer
  <2>2. Holds("now", OfDay(latest))'
    BY <1>6, <1>8, <1>12 DEF Scope, Loads
  <2>3. Holds("then", OfDay(from))'
    BY <1>1, <1>3, <1>8, <1>12 DEF CompleteInv, ThenLoaded, Loads
  <2> QED
    BY <1>8, <2>1, <2>2, <2>3
       DEF CompleteInv, Scanned, Loaded, LatestIs, ThenLoaded, NothingInPeriod,
           CompleteOrFlagged
<1> QED
  BY <1>9, <1>10, <1>11, <1>12 DEF BudgetInv, ReportTypeOK, Loads

\* Every step keeps what was read complete, or meets a bound.
LEMMA CompleteStep ==
    ASSUME BudgetInv, CompleteInv, [ReportNext]_reportVars PROVE CompleteInv'
<1>0. BudgetInv'
  BY BudgetStep
<1>1. CASE TimeIsUp \/ UNCHANGED reportVars
  <2>1. UNCHANGED <<call, bucket, stats, step, at, keys, answer>> /\ UNCHANGED probing
        /\ UNCHANGED loading
    BY <1>1 DEF TimeIsUp, reportVars, probing, loading
  <2>2. /\ Unstopped' = Unstopped /\ Scope' = Scope
        /\ \A day : Since(day)' = Since(day) /\ OfDay(day)' = OfDay(day)
    BY <2>1 DEF Unstopped, Missing, Scope, Since, OfDay, probing, loading
  <2>3. Wanted' = Wanted /\ Pending' = Pending
    BY <2>1, <2>2 DEF Wanted, Pending, Csv, IsCsv, SelectUsageKeys, loading
  <2>4. Scanned'
    BY <2>1, <2>2 DEF CompleteInv, Scanned, Listed, IsCsv, Since, probing
  <2>5. Loaded'
    BY <2>1, <2>2, <2>3 DEF CompleteInv, Loaded, RowsOf, loading
  <2>6. LatestIs' /\ NothingInPeriod'
    BY <2>1, <2>2 DEF CompleteInv, LatestIs, NothingInPeriod, UsageFiles, Since, probing
  <2>7. ThenLoaded'
    BY <2>1, <2>2 DEF CompleteInv, ThenLoaded, Holds, RowsOf, UsageFiles, OfDay, probing, loading
  <2>8. CompleteOrFlagged'
    BY <2>1 DEF CompleteInv, CompleteOrFlagged, Missing, Holds, RowsOf, UsageFiles, Since, OfDay,
                probing, loading
  <2> QED
    BY <2>4, <2>5, <2>6, <2>7, <2>8 DEF CompleteInv
<1>2. CASE NotEnabled \/ NotAsked
  <2>1. ~Unstopped'
    BY <1>2 DEF NotEnabled, NotAsked, Missing, Unstopped
  <2> QED
    BY <2>1, StoppedIsComplete
<1>3. CASE RequestFails
  BY <1>3
     DEF RequestFails, Answer, CompleteInv, Scanned, Loaded, LatestIs, ThenLoaded,
         NothingInPeriod, CompleteOrFlagged
<1> QED
  BY <1>0, <1>1, <1>2, <1>3, ProbePageComplete, NearPageComplete, ListPageComplete,
     StartDownloadComplete, FinishDownloadComplete, EndLoadComplete DEF ReportNext, Done

LEMMA CompleteInit == ReportInit => CompleteInv
<1> SUFFICES ASSUME ReportInit, Unstopped PROVE CompleteInv
  BY DEF CompleteInv, Scanned, Loaded, LatestIs, ThenLoaded, NothingInPeriod,
         CompleteOrFlagged, Unstopped
<1>1. bucket \in SUBSET DOMAIN Reports
  BY DEF ReportInit, Unstopped, Missing
<1>2. \A k \in bucket : ~(k <= 0)
  BY <1>1, KeysAre
<1>3. Scanned
  BY <1>2 DEF ReportInit, Scanned, Listed, Scope, Since
<1> QED
  BY <1>3 DEF ReportInit, CompleteInv, Loaded, LatestIs, ThenLoaded, NothingInPeriod,
              CompleteOrFlagged

\* What a call has read so far is complete, or a bound was met.
THEOREM CompleteInvariance == ReportSpec => [](BudgetInv /\ CompleteInv)
<1>1. BudgetInv /\ CompleteInv /\ [ReportNext]_reportVars => CompleteInv'
  BY CompleteStep
<1> QED
  BY <1>1, BudgetInvariance, CompleteInit, PTL DEF ReportSpec

\* An answer without a stop_reason rests on all there is: every row of every usage
\* file in its scope, and nothing else.
THEOREM SaysWhatItSkipped == ReportSpec => []CompleteOrFlagged
<1>1. CompleteInv => CompleteOrFlagged
  BY DEF CompleteInv
<1> QED
  BY <1>1, CompleteInvariance, PTL
====
