--------------------------- MODULE TokenStoreProofs ---------------------------
(***************************************************************************)
(* No edit of the watched tokens file is missed and the store follows what *)
(* was read, for any tokens, bindings and number of saves.                 *)
(*                                                                         *)
(* The types are an invariant of their own: maps and places, flags, and    *)
(* the events, which the saves that caused them bound.                     *)
(***************************************************************************)
EXTENDS TokenStore, TLAPS

Counters == events \in Nat /\ saves \in Nat

\* What reload holds is what is on the disk unless the disk has changed since.
FreshIsDisk ==
    wpc \in {"firstCommit", "commit"} /\ ~unread => fresh = disk

IInv == Counters /\ NoEditMissed /\ FreshIsDisk /\ InSync

\* A change of the disk is counted, or marks the store blind.
LEMMA ChangedCounts ==
    ASSUME Counters, Changed
    PROVE  events' \in Nat /\ unread' /\ (~blind' => events' > 0)
  <1>1. CASE watched
    BY <1>1 DEF Changed, Counters
  <1>2. CASE ~watched
    BY <1>2 DEF Changed, Counters
  <1> QED
    BY <1>1, <1>2

USE DEF diskVars, storeVars, loopVars, wakeVars, histVars

LEMMA InitIInv == Init => IInv
  BY DEF Init, IInv, Counters, NoEditMissed, FreshIsDisk, InSync

\* One step per action of the goroutine and of the world.
LEMMA IInvStep == IInv /\ [Next]_vars => IInv'
  <1> SUFFICES ASSUME IInv, [Next]_vars  PROVE IInv'
    OBVIOUS
  <1> USE DEF IInv, Counters, NoEditMissed, FreshIsDisk, InSync
  <1>1. ASSUME NEW m \in Maps, SaveBegins(m)  PROVE IInv'
    <2>1. events' \in Nat /\ unread' /\ (~blind' => events' > 0)
      BY <1>1, ChangedCounts DEF SaveBegins
    <2> QED
      BY <1>1, <2>1 DEF SaveBegins
  <1>2. CASE SaveEnds
    <2>1. events' \in Nat /\ unread' /\ (~blind' => events' > 0)
      BY <1>2, ChangedCounts DEF SaveEnds
    <2> QED
      BY <1>2, <2>1 DEF SaveEnds
  <1>3. ASSUME NEW m \in Maps, Replace(m)  PROVE IInv'
    BY <1>3 DEF Replace
  <1>4. CASE Sighup
    BY <1>4 DEF Sighup
  <1>5. CASE Arm
    BY <1>5 DEF Arm
  <1>6. CASE Read
    BY <1>6 DEF Read
  <1>7. CASE Commit
    BY <1>7 DEF Commit, Failed, Taken
  <1>8. CASE OnHup \/ OnDebounce
    BY <1>8 DEF OnHup, OnDebounce
  <1>9. CASE OnEvent
    BY <1>9 DEF OnEvent, Trigger
  <1>10. CASE UNCHANGED vars
    BY <1>10 DEF vars
  <1> QED
    BY <1>1, <1>2, <1>3, <1>4, <1>5, <1>6, <1>7, <1>8, <1>9, <1>10
    DEF Next, Watch, World

\* The inductive invariant holds from startup on.
THEOREM Invariance == Spec => []IInv
  BY InitIInv, IInvStep, PTL DEF Spec

\* Whatever the interleaving of events, debounce, SIGHUP and slow reads, an edit
\* of the watched file is always about to be read (watch's select loop).
THEOREM EditsKept == Spec => []NoEditMissed
  <1>1. IInv => NoEditMissed
    BY DEF IInv
  <1> QED
    BY Invariance, <1>1, PTL

\* Between reloads the file map is what the file held when it was last read,
\* and a failed reading is reported and changes no token (reload).
THEOREM StoreFollowsFile == Spec => []InSync
  <1>1. IInv => InSync
    BY DEF IInv
  <1> QED
    BY Invariance, <1>1, PTL

-------------------------------------------------------------------------------
(***************************************************************************)
(* Types.                                                                  *)
(***************************************************************************)

Places ==
    /\ disk \in Maps \cup {Bad} /\ saving \in Maps \cup {Bad} /\ fresh \in Maps \cup {Bad}
    /\ env \in Maps /\ inline \in Maps /\ file \in Maps
    /\ wpc \in {"firstRead", "firstCommit", "arm", "select", "read", "commit"}

Flags ==
    /\ lastErr \in BOOLEAN /\ watched \in BOOLEAN /\ pending \in BOOLEAN
    /\ hup \in BOOLEAN /\ unread \in BOOLEAN /\ blind \in BOOLEAN

\* A save makes two events at most, and its second only when it has ended.
Budget ==
    /\ saves \in 0 .. MaxSaves /\ events \in Nat
    /\ saving = Bad => events <= 2 * saves
    /\ saving # Bad => events < 2 * saves

LEMMA TypeParts == Places /\ Flags /\ Budget => TypeOK
  <1> SUFFICES ASSUME Places, Flags, Budget  PROVE TypeOK
    OBVIOUS
  <1>1. events \in 0 .. 2 * MaxSaves
    BY MaxSavesAssumption DEF Budget
  <1> QED
    BY <1>1 DEF TypeOK, Places, Flags, Budget

LEMMA InitTypes == Init => Places /\ Flags /\ Budget
  <1> SUFFICES ASSUME Init  PROVE Places /\ Flags /\ Budget
    OBVIOUS
  <1>1. Merge(env, disk) \in Maps /\ Empty \in Maps
    BY DEF Init, Merge, Empty, Maps
  <1>2. Places
    BY <1>1 DEF Init, Places
  <1>3. Flags
    BY DEF Init, Flags
  <1>4. Budget
    BY MaxSavesAssumption DEF Init, Budget
  <1> QED
    BY <1>2, <1>3, <1>4

LEMMA PlacesStep == Places /\ [Next]_vars => Places'
  <1> SUFFICES ASSUME Places, [Next]_vars  PROVE Places'
    OBVIOUS
  <1> USE DEF Places
  <1>1. ASSUME NEW m \in Maps, SaveBegins(m) \/ Replace(m)  PROVE Places'
    BY <1>1 DEF SaveBegins, Replace
  <1>2. CASE SaveEnds \/ Sighup
    BY <1>2 DEF SaveEnds, Sighup
  <1>3. CASE Commit
    BY <1>3 DEF Commit, Taken
  <1>4. CASE Arm \/ Read
    BY <1>4 DEF Arm, Read
  <1>5. CASE OnHup \/ OnDebounce \/ OnEvent
    BY <1>5 DEF OnHup, OnDebounce, OnEvent
  <1>6. CASE UNCHANGED vars
    BY <1>6 DEF vars
  <1> QED
    BY <1>1, <1>2, <1>3, <1>4, <1>5, <1>6 DEF Next, Watch, World

LEMMA FlagsStep == Flags /\ [Next]_vars => Flags'
  <1> SUFFICES ASSUME Flags, [Next]_vars  PROVE Flags'
    OBVIOUS
  <1> USE DEF Flags
  <1>1. ASSUME NEW m \in Maps, SaveBegins(m) \/ Replace(m)  PROVE Flags'
    BY <1>1 DEF SaveBegins, Replace, Changed
  <1>2. CASE SaveEnds \/ Sighup
    BY <1>2 DEF SaveEnds, Sighup, Changed
  <1>3. CASE Commit
    BY <1>3 DEF Commit, Failed
  <1>4. CASE Arm \/ Read
    BY <1>4 DEF Arm, Read
  <1>5. CASE OnHup \/ OnDebounce \/ OnEvent
    BY <1>5 DEF OnHup, OnDebounce, OnEvent, Trigger
  <1>6. CASE UNCHANGED vars
    BY <1>6 DEF vars
  <1> QED
    BY <1>1, <1>2, <1>3, <1>4, <1>5, <1>6 DEF Next, Watch, World

LEMMA BudgetStep == Budget /\ [Next]_vars => Budget'
  <1> SUFFICES ASSUME Budget, [Next]_vars  PROVE Budget'
    OBVIOUS
  <1> USE MaxSavesAssumption DEF Budget
  <1>1. ASSUME NEW m \in Maps, SaveBegins(m)  PROVE Budget'
    <2>1. m # Bad
      BY BadAssumption
    <2> QED
      BY <1>1, <2>1 DEF SaveBegins, Changed
  <1>2. ASSUME NEW m \in Maps, Replace(m)  PROVE Budget'
    BY <1>2 DEF Replace
  <1>3. CASE SaveEnds
    BY <1>3 DEF SaveEnds, Changed
  <1>4. CASE Sighup
    BY <1>4 DEF Sighup
  <1>5. CASE Arm \/ Read \/ Commit
    BY <1>5 DEF Arm, Read, Commit
  <1>6. CASE OnHup \/ OnDebounce \/ OnEvent
    BY <1>6 DEF OnHup, OnDebounce, OnEvent
  <1>7. CASE UNCHANGED vars
    BY <1>7 DEF vars
  <1> QED
    BY <1>1, <1>2, <1>3, <1>4, <1>5, <1>6, <1>7 DEF Next, Watch, World

\* The maps stay maps of tokens, and no more events wait than the saves have made.
THEOREM TypeCorrect == Spec => []TypeOK
  BY InitTypes, PlacesStep, FlagsStep, BudgetStep, TypeParts, PTL DEF Spec
===============================================================================
