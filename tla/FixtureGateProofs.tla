--------------------------- MODULE FixtureGateProofs ---------------------------
(* What the fixture policy guarantees for any number of checkers, any       *)
(* files and any inventories: nothing gets past it without captures, and    *)
(* it refuses nothing that was compliant throughout.                        *)
EXTENDS FixtureGate, TLAPS

(* What a checker in the loop has established of its items before this one *)
Checked(p) ==
    \A i \in 1 .. Len(Items(p)) : i < item[p] =>
        /\ Items(p)[i].success \in captured
        /\ Items(p)[i].error # NoPath => Items(p)[i].error \in captured

LoopInv(p) ==
    pc[p] \in InLoop =>
        /\ Items(p) # <<>> /\ Checked(p)
        /\ mode[p] = "Live" => lock = {p}
        /\ pc[p] # "Loop" => item[p] =< Len(Items(p))
        /\ pc[p] = "ReadError" => Here(p).success \in captured

(* A checker comes to the loop as a fresh call. *)
EntryInv(p) ==
    /\ pc[p] \in {"Idle", "Override", "Lock"} => mode[p] = "Live"
    /\ pc[p] \notin InLoop => item[p] = 1

FilesInv ==
    \A x \in Paths : /\ Compliant(x) => x \in captured /\ x \in present
                     /\ writing[x] # {} => x \in present

(* The inductive invariant: a registered inventory is pinned by the lock    *)
(* while a live check goes through it, and captured only grows.             *)
GateInv ==
    /\ GateTypeOK /\ FilesInv
    /\ \A p \in Checkers : LoopInv(p) /\ EntryInv(p)
    /\ GateSound /\ RefusedForCause

LEMMA UndoneIsNat == \A layers, n \in Nat : Undone(layers, n) \in Nat
  BY DEF Undone

LEMMA FileTypes == \A r \in Recordings : OnDisk(r) \in Fixture
  <1> SUFFICES ASSUME NEW r \in Recordings PROVE OnDisk(r) \in Fixture
    OBVIOUS
  <1>1. r \in [provenance : SUBSET Fields, text : Text]
    BY GateAssumption
  <1>2. Undone(r.text.quotes, Rounds) \in Nat
    BY <1>1, UndoneIsNat, Zenon DEF Text, Rounds
  <1>3. Normalized(r.text) \in Text
    BY <1>1, <1>2 DEF Normalized, Text
  <1>4. Encoded(r.text) \in Text
    BY <1>3 DEF Encoded, Text, Cores
  <1> QED
    BY <1>1, <1>4 DEF OnDisk, Fixture

LEMMA Inventoried == \A inv \in Inventories \cup {<<>>} : inv \in Inventory
  <1>1. <<>> \in Inventory
    BY DEF Inventory
  <1>2. Inventories \subseteq Inventory
    BY GateAssumption, Zenon DEF Inventory
  <1> QED
    BY <1>1, <1>2

LEMMA EntryOf ==
    ASSUME NEW inv \in Inventory, NEW i \in 1 .. Len(inv)
    PROVE  inv[i] \in [success : Paths, error : Paths \cup {NoPath}]
  <1> DEFINE Entry == [success : Paths, error : Paths \cup {NoPath}]
  <1>1. inv \in Seq(Entry)
    BY DEF Inventory
  <1> HIDE DEF Entry
  <1>2. inv[i] \in Entry
    BY <1>1
  <1> QED
    BY <1>2 DEF Entry

LEMMA TypeInit == Init => GateTypeOK
  <1> SUFFICES ASSUME Init PROVE GateTypeOK
    OBVIOUS
  <1>1. <<>> \in Inventory
    BY Inventoried
  <1> QED
    <2>1. registry \in Inventory /\ list \in [Checkers -> Inventory] /\ admitted \in [Checkers -> Inventory]
      BY <1>1 DEF Init
    <2>2. item \in [Checkers -> Nat \ {0}] /\ pc \in [Checkers -> Labels]
          /\ mode \in [Checkers -> {"Live", "Validate"}]
      BY DEF Init, Labels
    <2>3. disk \in [Paths -> SUBSET Fixture] /\ writing \in [Paths -> SUBSET Fixture]
      BY DEF Init
    <2> QED
      BY <2>1, <2>2, <2>3, Zenon DEF Init, GateTypeOK

LEMMA TypeFiles ==
    ASSUME GateTypeOK, Track, NEW x \in Paths,
           \/ \E r \in Recordings : WriteBegins(x, r)
           \/ WriteEnds(x) \/ WriteDies(x) \/ RemoveFile(x)
    PROVE  GateTypeOK'
  <1>0. clean' \in [Checkers -> BOOLEAN]
    BY DEF Track
  <1>1. ASSUME NEW r \in Recordings, WriteBegins(x, r)
        PROVE  GateTypeOK'
    <2>1. OnDisk(r) \in Fixture
      BY FileTypes
    <2> QED
      BY <1>0, <1>1, <2>1 DEF GateTypeOK, WriteBegins, registryVars, callVars
  <1>2. CASE WriteEnds(x)
    BY <1>0, <1>2 DEF GateTypeOK, WriteEnds, registryVars, callVars
  <1>3. CASE WriteDies(x)
    BY <1>0, <1>3 DEF GateTypeOK, WriteDies, registryVars, callVars
  <1>4. CASE RemoveFile(x)
    BY <1>0, <1>4 DEF GateTypeOK, RemoveFile, registryVars, callVars
  <1> QED
    BY <1>1, <1>2, <1>3, <1>4

LEMMA TypeRegistry ==
    ASSUME GateTypeOK, Track,
           RegisterPanics \/ \E inv \in Inventories \cup {<<>>} : Register(inv)
    PROVE  GateTypeOK'
  <1>0. clean' \in [Checkers -> BOOLEAN]
    BY DEF Track
  <1>1. CASE RegisterPanics
    BY <1>0, <1>1 DEF GateTypeOK, RegisterPanics, fileVars, callVars
  <1>2. ASSUME NEW inv \in Inventories \cup {<<>>}, Register(inv) PROVE GateTypeOK'
    <2>1. inv \in Inventory
      BY Inventoried
    <2> QED
      BY <1>0, <1>2, <2>1 DEF GateTypeOK, Register, fileVars, callVars
  <1> QED
    BY <1>1, <1>2

LEMMA TypeCheck ==
    ASSUME GateTypeOK, Track, NEW p \in Checkers,
           \/ LiveBegins(p) \/ CheckStep(p)
           \/ \E inv \in Inventories \cup {<<>>} : ValidateBegins(p, inv)
    PROVE  GateTypeOK'
  <1>0. clean' \in [Checkers -> BOOLEAN]
    BY DEF Track
  <1> USE DEF Frame, fileVars, registryVars, Goto
  <1>1. ASSUME NEW inv \in Inventories \cup {<<>>}, ValidateBegins(p, inv) PROVE GateTypeOK'
    <2>1. inv \in Inventory
      BY Inventoried
    <2> QED
      BY <1>0, <1>1, <2>1 DEF GateTypeOK, ValidateBegins, Labels
  <1>2. CASE LiveBegins(p)
    BY <1>0, <1>2, Zenon DEF GateTypeOK, LiveBegins, Flag, Labels
  <1>3. CASE LiveOverride(p)
    BY <1>0, <1>3, Zenon DEF GateTypeOK, LiveOverride, Flag, Labels
  <1>4. CASE Lock(p)
    BY <1>0, <1>4 DEF GateTypeOK, Lock, Labels
  <1>L. ASSUME NEW label \in Labels, Leave(p, label)
        PROVE  /\ pc' \in [Checkers -> Labels] /\ item' \in [Checkers -> Nat \ {0}]
               /\ lock' \subseteq Checkers /\ \A q, r \in lock' : q = r
    <2>1. 1 \in Nat \ {0}
      OBVIOUS
    <2>2. item' \in [Checkers -> Nat \ {0}]
      BY <1>L, <2>1 DEF Leave, GateTypeOK
    <2> QED
      BY <1>L, <2>2 DEF Leave, GateTypeOK
  <1>5. CASE CheckExists(p)
    <2>1. Items(p) \in Inventory
      BY DEF GateTypeOK, Items
    <2>2. admitted' \in [Checkers -> Inventory]
      BY <1>5, <2>1 DEF CheckExists, GateTypeOK
    <2>3. \/ \E label \in Labels : Leave(p, label)
          \/ pc' = [pc EXCEPT ![p] = "ReadSuccess"] /\ UNCHANGED <<lock, item>>
      BY <1>5 DEF CheckExists, Labels
    <2>4. UNCHANGED <<fileVars, registryVars, mode, list, bypass>>
      BY <1>5 DEF CheckExists
    <2> QED
      BY <1>0, <1>L, <2>2, <2>3, <2>4 DEF GateTypeOK, Labels
  <1>6. CASE CheckSuccess(p)
    <2>1. \/ Leave(p, "Blocked")
          \/ pc' = [pc EXCEPT ![p] = "ReadError"] /\ UNCHANGED <<lock, item>>
      BY <1>6 DEF CheckSuccess
    <2>2. UNCHANGED <<fileVars, registryVars, mode, list, bypass, admitted>>
      BY <1>6 DEF CheckSuccess
    <2> QED
      BY <1>0, <1>L, <2>1, <2>2, Zenon DEF GateTypeOK, Labels
  <1>7. CASE CheckError(p)
    <2>1. \/ Leave(p, "Blocked")
          \/ /\ pc' = [pc EXCEPT ![p] = "Loop"] /\ UNCHANGED lock
             /\ item' = [item EXCEPT ![p] = item[p] + 1]
      BY <1>7 DEF CheckError
    <2>2. UNCHANGED <<fileVars, registryVars, mode, list, bypass, admitted>>
      BY <1>7 DEF CheckError
    <2>3. [item EXCEPT ![p] = item[p] + 1] \in [Checkers -> Nat \ {0}]
      BY DEF GateTypeOK
    <2> QED
      BY <1>0, <1>L, <2>1, <2>2, <2>3, Zenon DEF GateTypeOK, Labels
  <1>8. CASE Connect(p)
    BY <1>0, <1>8 DEF GateTypeOK, Connect, Labels
  <1> QED
    BY <1>1, <1>2, <1>3, <1>4, <1>5, <1>6, <1>7, <1>8 DEF CheckStep

LEMMA TypeStep == ASSUME GateTypeOK, Next PROVE GateTypeOK'
  BY TypeFiles, TypeRegistry, TypeCheck DEF Next, Step

-----------------------------------------------------------------------------
(* Files: what is compliant on the disk has been captured, for good. *)
LEMMA FilesStep == ASSUME GateInv, Next PROVE FilesInv' /\ captured \subseteq captured'
  <1> USE DEF GateInv, FilesInv, Compliant
  <1>1. ASSUME NEW x \in Paths, NEW r \in Recordings, WriteBegins(x, r)
        PROVE  FilesInv' /\ captured \subseteq captured'
    BY <1>1 DEF WriteBegins, GateTypeOK
  <1>2. ASSUME NEW x \in Paths, WriteEnds(x) PROVE FilesInv' /\ captured \subseteq captured'
    BY <1>2 DEF WriteEnds, GateTypeOK
  <1>3. ASSUME NEW x \in Paths, WriteDies(x) \/ RemoveFile(x)
        PROVE  FilesInv' /\ captured \subseteq captured'
    BY <1>3 DEF WriteDies, RemoveFile, GateTypeOK
  <1>4. CASE UNCHANGED fileVars
    BY <1>4 DEF fileVars
  <1>5. ASSUME RegisterPanics \/ \E inv \in Inventories \cup {<<>>} : Register(inv)
        PROVE  UNCHANGED fileVars
    BY <1>5 DEF RegisterPanics, Register
  <1>6. ASSUME NEW p \in Checkers,
               \/ LiveBegins(p) \/ CheckStep(p)
               \/ \E inv \in Inventories \cup {<<>>} : ValidateBegins(p, inv)
        PROVE  UNCHANGED fileVars
    BY <1>6 DEF LiveBegins, CheckStep, ValidateBegins, LiveOverride, Flag, Lock, CheckExists,
                CheckSuccess, CheckError, Connect, Frame
  <1> QED
    BY <1>1, <1>2, <1>3, <1>4, <1>5, <1>6 DEF Next, Step

(* A step that no checker takes, and that changes the registry only while *)
(* nobody holds it, disturbs no check.                                    *)
LEMMA SteadyStep ==
    ASSUME GateInv, Track, UNCHANGED callVars, captured \subseteq captured',
           registry' = registry \/ lock = {}, GateTypeOK', FilesInv'
    PROVE  GateInv'
  <1> USE DEF GateInv, callVars
  <1>1. ASSUME NEW p \in Checkers PROVE LoopInv(p)' /\ EntryInv(p)'
    <2>1. ASSUME pc[p] \in InLoop PROVE Items(p)' = Items(p)
      BY <2>1 DEF LoopInv, Items
    <2> QED
      BY <2>1 DEF LoopInv, EntryInv, Checked, Here
  <1>2. GateSound'
    BY DEF GateSound, RequiredPaths
  <1>3. RefusedForCause'
    BY Zenon DEF RefusedForCause, Track
  <1> QED
    BY <1>1, <1>2, <1>3

(* A step of checker p leaves the others where they are. *)
LEMMA OthersStep ==
    ASSUME GateInv, Frame, NEW p \in Checkers, NEW q \in Checkers, q # p,
           pc'[q] = pc[q], mode'[q] = mode[q], list'[q] = list[q], item'[q] = item[q],
           lock = {q} => lock' = {q}
    PROVE  LoopInv(q)' /\ EntryInv(q)'
  <1>1. Items(q)' = Items(q)
    BY DEF Items, Frame, registryVars
  <1> QED
    BY <1>1 DEF GateInv, LoopInv, EntryInv, Checked, Here, Frame, fileVars

Passed == {"Connect", "Returned", "Valid"}

(* What is left to show of a step of checker p *)
Undisturbed(p) ==
    /\ Frame /\ bypass \subseteq bypass' /\ bypass' \subseteq bypass \cup {p}
    /\ \A q \in Checkers \ {p} :
          /\ pc'[q] = pc[q] /\ mode'[q] = mode[q] /\ list'[q] = list[q]
          /\ item'[q] = item[q] /\ admitted'[q] = admitted[q]
          /\ lock = {q} => lock' = {q}

LEMMA OwnStep ==
    ASSUME GateInv, Track, GateTypeOK', FilesInv', NEW p \in Checkers, Undisturbed(p),
           LoopInv(p)', EntryInv(p)', pc'[p] = "Blocked" => ~GoodFor(p)',
           pc'[p] \in Passed /\ p \notin bypass' =>
               admitted'[p] # <<>> /\ RequiredPaths(admitted'[p]) \subseteq captured
    PROVE  GateInv'
  <1>1. ASSUME NEW q \in Checkers
        PROVE  LoopInv(q)' /\ EntryInv(q)'
    <2>1. CASE q = p
      BY <2>1
    <2>2. CASE q # p
      BY <2>2, OthersStep DEF Undisturbed
    <2> QED
      BY <2>1, <2>2
  <1>2. captured' = captured
    BY DEF Undisturbed, Frame, fileVars
  <1>3. GateSound'
    <2> SUFFICES ASSUME NEW q \in Checkers, q \notin bypass', pc'[q] \in Passed
                 PROVE  admitted'[q] # <<>> /\ RequiredPaths(admitted'[q]) \subseteq captured
      BY <1>2 DEF GateSound, Passed, RequiredPaths
    <2>1. CASE q = p
      BY <2>1
    <2>2. CASE q # p
      BY <2>2 DEF GateInv, GateSound, Undisturbed, Passed
    <2> QED
      BY <2>1, <2>2
  <1>4. RefusedForCause'
    <2> SUFFICES ASSUME NEW q \in Checkers, pc'[q] = "Blocked", clean'[q] PROVE FALSE
      BY DEF RefusedForCause
    <2>1. GoodFor(q)' /\ (pc[q] = "Idle" \/ clean[q])
      BY Zenon DEF Track
    <2>2. q # p
      BY <2>1
    <2>3. pc[q] = "Blocked"
      BY <2>2 DEF Undisturbed
    <2> QED
      BY <2>1, <2>3 DEF GateInv, RefusedForCause
  <1> QED
    BY <1>1, <1>3, <1>4 DEF GateInv

(* The steps before the loop: the calls begin, ask the environment, lock. *)
LEMMA EntryStep ==
    ASSUME GateInv, Track, GateTypeOK', FilesInv', NEW p \in Checkers,
           \/ LiveBegins(p) \/ LiveOverride(p) \/ Lock(p) \/ Connect(p)
           \/ \E inv \in Inventories \cup {<<>>} : ValidateBegins(p, inv)
    PROVE  GateInv'
  <1> USE DEF Goto, InLoop, Passed
  <1>t. /\ pc \in [Checkers -> Labels] /\ mode \in [Checkers -> {"Live", "Validate"}]
        /\ list \in [Checkers -> Inventory] /\ item \in [Checkers -> Nat \ {0}]
        /\ lock \subseteq Checkers
    BY DEF GateInv, GateTypeOK
  <1>1. ASSUME NEW inv \in Inventories \cup {<<>>}, ValidateBegins(p, inv) PROVE GateInv'
    <2>1. Undisturbed(p)
      BY <1>t, <1>1 DEF ValidateBegins, Undisturbed
    <2>2. Items(p)' = inv
      BY <1>t, <1>1 DEF ValidateBegins, Items
    <2>3. pc'[p] = (IF inv = <<>> THEN "Blocked" ELSE "Loop") /\ mode'[p] = "Validate"
      BY <1>t, <1>1 DEF ValidateBegins
    <2>4. item'[p] = 1
      BY <1>1 DEF ValidateBegins, GateInv, EntryInv
    <2>5. LoopInv(p)'
      BY <2>2, <2>3, <2>4 DEF LoopInv, Checked
    <2>6. pc'[p] = "Blocked" => ~GoodFor(p)'
      BY <2>2, <2>3 DEF GoodFor, Good
    <2>7. EntryInv(p)'
      BY <2>3, <2>4 DEF EntryInv
    <2> QED
      BY <2>1, <2>3, <2>5, <2>6, <2>7, OwnStep
  <1>2. CASE Lock(p)
    <2>1. Undisturbed(p)
      BY <1>t, <1>2 DEF Lock, Undisturbed
    <2>2. pc'[p] = IF poisoned THEN "Panicked" ELSE IF registry = <<>> THEN "Blocked" ELSE "Loop"
      BY <1>t, <1>2 DEF Lock
    <2>3. registry' = registry /\ mode'[p] = mode[p] /\ list' = list
      BY <1>2 DEF Lock, Frame, registryVars
    <2>4. mode[p] = "Live" /\ item'[p] = 1
      BY <1>2 DEF Lock, GateInv, EntryInv
    <2>5. Items(p)' = registry
      BY <2>3, <2>4 DEF Items
    <2>6. LoopInv(p)'
      BY <1>2, <2>2, <2>4, <2>5 DEF LoopInv, Checked, Lock
    <2>7. pc'[p] = "Blocked" => ~GoodFor(p)'
      BY <2>2, <2>5 DEF GoodFor, Good
    <2>8. EntryInv(p)'
      BY <2>3, <2>4 DEF EntryInv
    <2> QED
      BY <2>1, <2>2, <2>6, <2>7, <2>8, OwnStep
  <1>3. CASE LiveBegins(p) \/ LiveOverride(p)
    <2>1. Undisturbed(p)
      BY <1>t, <1>3 DEF LiveBegins, LiveOverride, Flag, Undisturbed
    <2>2. pc'[p] \in {"Override", "Lock"} \/ (pc'[p] = "Connect" /\ p \in bypass')
      BY <1>t, <1>3 DEF LiveBegins, LiveOverride, Flag
    <2>3. LoopInv(p)'
      BY <2>2 DEF LoopInv
    <2>4. EntryInv(p)'
      BY <1>3 DEF GateInv, EntryInv, LiveBegins, LiveOverride, Flag
    <2> QED
      BY <2>1, <2>2, <2>3, <2>4, OwnStep
  <1>4. CASE Connect(p)
    <2>1. Undisturbed(p)
      BY <1>t, <1>4 DEF Connect, Undisturbed
    <2>2. pc'[p] = "Returned" /\ pc[p] = "Connect" /\ bypass' = bypass /\ admitted' = admitted
      BY <1>t, <1>4 DEF Connect
    <2>3. LoopInv(p)'
      BY <2>2 DEF LoopInv
    <2>4. EntryInv(p)'
      BY <1>4, <2>2 DEF GateInv, EntryInv, Connect
    <2> QED
      BY <2>1, <2>2, <2>3, <2>4, OwnStep DEF GateInv, GateSound
  <1> QED
    BY <1>1, <1>2, <1>3, <1>4

(* The steps of the loop: what was read is remembered in captured, and a   *)
(* refusal names a file that is not compliant now.                         *)
LEMMA LoopStep ==
    ASSUME GateInv, Track, GateTypeOK', FilesInv', NEW p \in Checkers,
           CheckExists(p) \/ CheckSuccess(p) \/ CheckError(p)
    PROVE  GateInv'
  <1> USE DEF Goto, InLoop, Passed
  <1>t. /\ pc \in [Checkers -> Labels] /\ mode \in [Checkers -> {"Live", "Validate"}]
        /\ item \in [Checkers -> Nat \ {0}] /\ admitted \in [Checkers -> Inventory]
        /\ lock \subseteq Checkers /\ captured \subseteq Paths /\ Items(p) \in Inventory
        /\ present \subseteq Paths /\ disk \in [Paths -> SUBSET Fixture]
    BY DEF GateInv, GateTypeOK, Items
  <1>f. UNCHANGED <<mode, list, bypass, fileVars, registryVars>>
    BY DEF CheckExists, CheckSuccess, CheckError, Frame
  <1>u. Undisturbed(p)
    BY <1>t, <1>f DEF CheckExists, CheckSuccess, CheckError, Frame, Undisturbed, Leave
  <1>i. Items(p)' = Items(p) /\ captured' = captured /\ disk' = disk
    BY <1>f DEF Items, registryVars, fileVars
  <1>l. LoopInv(p) /\ pc[p] \in InLoop
    BY DEF GateInv, CheckExists, CheckSuccess, CheckError
  <1>n. Len(Items(p)) \in Nat /\ item[p] \in Nat /\ item[p] > 0
    BY <1>t DEF Inventory
  <1>h. ASSUME item[p] =< Len(Items(p))
        PROVE  /\ item[p] \in 1 .. Len(Items(p)) /\ Here(p).success \in Paths
               /\ Here(p).error # NoPath => Here(p).error \in Paths
    <2>1. item[p] \in 1 .. Len(Items(p))
      BY <1>n, <1>h
    <2>2. Here(p) \in [success : Paths, error : Paths \cup {NoPath}]
      BY <1>t, <2>1, EntryOf DEF Here
    <2> QED
      BY <2>1, <2>2
  <1>e. ASSUME Leave(p, "Blocked"), NEW x \in Paths, ~Compliant(x), item[p] =< Len(Items(p)),
               x = Here(p).success \/ x = Here(p).error
        PROVE  GateInv'
    <2>1. pc'[p] = "Blocked" /\ item'[p] = 1
      BY <1>t, <1>e DEF Leave
    <2>2. x # NoPath
      BY GateAssumption
    <2>3. ~GoodFor(p)'
      BY <1>e, <1>h, <1>i, <2>2 DEF GoodFor, Good, Compliant, Here
    <2>4. LoopInv(p)' /\ EntryInv(p)'
      BY <2>1 DEF LoopInv, EntryInv
    <2> QED
      BY <1>u, <2>1, <2>3, <2>4, OwnStep
  <1>1. CASE CheckExists(p)
    <2>1. CASE item[p] > Len(Items(p))
      <3>1. /\ pc'[p] \in {"Connect", "Valid"} /\ item'[p] = 1 /\ admitted'[p] = Items(p)
            /\ pc'[p] = "Valid" => mode[p] # "Live"
        BY <1>t, <1>1, <2>1 DEF CheckExists, Leave
      <3>2. \A k \in 1 .. Len(Items(p)) : k < item[p]
        BY <1>n, <2>1
      <3>3. RequiredPaths(Items(p)) \subseteq captured /\ Items(p) # <<>>
        BY <1>l, <3>2 DEF LoopInv, Checked, RequiredPaths
      <3>4. LoopInv(p)' /\ EntryInv(p)'
        BY <3>1 DEF LoopInv, EntryInv
      <3> QED
        BY <1>u, <3>1, <3>3, <3>4, OwnStep
    <2>2. CASE item[p] =< Len(Items(p)) /\ {Here(p).success, Here(p).error} \ {NoPath} \subseteq present
      <3>0. ~(item[p] > Len(Items(p)))
        BY <1>n, <2>2
      <3>1. pc'[p] = "ReadSuccess" /\ item' = item /\ lock' = lock
        BY <1>t, <1>1, <2>2, <3>0 DEF CheckExists
      <3>2. LoopInv(p)' /\ EntryInv(p)'
        BY <1>f, <1>i, <1>l, <2>2, <3>1 DEF LoopInv, EntryInv, Checked
      <3> QED
        BY <1>u, <3>1, <3>2, OwnStep
    <2>3. CASE item[p] =< Len(Items(p)) /\ ~({Here(p).success, Here(p).error} \ {NoPath} \subseteq present)
      <3>0. ~(item[p] > Len(Items(p)))
        BY <1>n, <2>3
      <3>1. Leave(p, "Blocked")
        BY <1>1, <2>3, <3>0, Zenon DEF CheckExists
      <3>2. PICK x \in Paths : x \notin present /\ (x = Here(p).success \/ x = Here(p).error)
        BY <1>h, <2>3
      <3>3. ~Compliant(x)
        BY <3>2 DEF GateInv, FilesInv
      <3> QED
        BY <1>e, <2>3, <3>1, <3>2, <3>3
    <2> QED
      BY <1>n, <2>1, <2>2, <2>3
  <1>2. CASE CheckSuccess(p)
    <2>1. item[p] =< Len(Items(p))
      BY <1>2, <1>l DEF LoopInv, CheckSuccess
    <2>2. CASE Compliant(Here(p).success)
      <3>1. pc'[p] = "ReadError" /\ item' = item /\ lock' = lock
        BY <1>t, <1>2, <2>2 DEF CheckSuccess
      <3>2. Here(p).success \in captured /\ Here(p)' = Here(p)
        BY <1>h, <1>i, <2>1, <2>2, <3>1 DEF GateInv, FilesInv, Here
      <3>3. LoopInv(p)' /\ EntryInv(p)'
        BY <1>f, <1>i, <1>l, <2>1, <3>1, <3>2 DEF LoopInv, EntryInv, Checked
      <3> QED
        BY <1>u, <3>1, <3>3, OwnStep
    <2>3. CASE ~Compliant(Here(p).success)
      <3>1. Leave(p, "Blocked")
        BY <1>2, <2>3 DEF CheckSuccess
      <3> QED
        BY <1>e, <1>h, <2>1, <2>3, <3>1
    <2> QED
      BY <1>2, <2>2, <2>3
  <1>3. CASE CheckError(p)
    <2>1. item[p] =< Len(Items(p)) /\ Here(p).success \in captured
      BY <1>3, <1>l DEF LoopInv, CheckError
    <2>2. CASE Here(p).error # NoPath => Compliant(Here(p).error)
      <3>1. pc'[p] = "Loop" /\ item'[p] = item[p] + 1 /\ lock' = lock
        BY <1>t, <1>3, <2>2 DEF CheckError
      <3>2. Here(p).error # NoPath => Here(p).error \in captured
        BY <1>h, <2>1, <2>2 DEF GateInv, FilesInv
      <3>3. ASSUME NEW k \in 1 .. Len(Items(p)), k < item[p] + 1
            PROVE  /\ Items(p)[k].success \in captured
                   /\ Items(p)[k].error # NoPath => Items(p)[k].error \in captured
        <4>1. CASE k = item[p]
          BY <2>1, <3>2, <4>1 DEF Here
        <4>2. CASE k < item[p]
          BY <1>l, <4>2 DEF LoopInv, Checked
        <4> QED
          BY <1>t, <3>3, <4>1, <4>2 DEF Inventory
      <3>4. LoopInv(p)' /\ EntryInv(p)'
        BY <1>f, <1>i, <1>l, <3>1, <3>3 DEF LoopInv, EntryInv, Checked
      <3> QED
        BY <1>u, <3>1, <3>4, OwnStep
    <2>3. CASE Here(p).error # NoPath /\ ~Compliant(Here(p).error)
      <3>1. Leave(p, "Blocked")
        BY <1>3, <2>3 DEF CheckError
      <3> QED
        BY <1>e, <1>h, <2>1, <2>3, <3>1
    <2> QED
      BY <2>2, <2>3
  <1> QED
    BY <1>1, <1>2, <1>3

-----------------------------------------------------------------------------
LEMMA InvInit == Init => GateInv
  <1> SUFFICES ASSUME Init PROVE GateInv
    OBVIOUS
  <1>1. FilesInv /\ GateSound /\ RefusedForCause
    BY DEF Init, FilesInv, Compliant, GateSound, RefusedForCause
  <1>2. \A p \in Checkers : LoopInv(p) /\ EntryInv(p)
    BY Zenon DEF Init, LoopInv, EntryInv, InLoop
  <1> QED
    BY <1>1, <1>2, TypeInit DEF GateInv

LEMMA InvStep == GateInv /\ [Next]_vars => GateInv'
  <1> SUFFICES ASSUME GateInv, [Next]_vars PROVE GateInv'
    OBVIOUS
  <1>1. CASE Next
    <2>1. GateTypeOK' /\ FilesInv' /\ captured \subseteq captured' /\ Track
      BY <1>1, TypeStep, FilesStep DEF GateInv, Next
    <2>2. ASSUME NEW x \in Paths,
                 \/ \E r \in Recordings : WriteBegins(x, r)
                 \/ WriteEnds(x) \/ WriteDies(x) \/ RemoveFile(x)
          PROVE  GateInv'
      <3>1. UNCHANGED callVars /\ registry' = registry
        BY <2>2 DEF WriteBegins, WriteEnds, WriteDies, RemoveFile, registryVars
      <3> QED
        BY <2>1, <3>1, SteadyStep
    <2>3. ASSUME RegisterPanics \/ \E inv \in Inventories \cup {<<>>} : Register(inv)
          PROVE  GateInv'
      <3>1. UNCHANGED callVars /\ lock = {}
        BY <2>3 DEF RegisterPanics, Register
      <3> QED
        BY <2>1, <3>1, SteadyStep
    <2> QED
      BY <1>1, <2>1, <2>2, <2>3, EntryStep, LoopStep DEF Next, Step, CheckStep
  <1>2. CASE UNCHANGED vars
    <2>1. UNCHANGED <<fileVars, registryVars, callVars, clean>>
      BY <1>2 DEF vars
    <2> USE <2>1 DEF fileVars, registryVars, callVars
    <2>2. GateTypeOK'
      BY DEF GateInv, GateTypeOK
    <2>3. FilesInv'
      BY DEF GateInv, FilesInv, Compliant
    <2>4. ASSUME NEW p \in Checkers PROVE LoopInv(p)' /\ EntryInv(p)'
      <3>1. Items(p)' = Items(p) /\ Here(p)' = Here(p)
        BY DEF Items, Here
      <3>2. LoopInv(p) /\ EntryInv(p)
        BY DEF GateInv
      <3> QED
        BY <3>1, <3>2 DEF LoopInv, EntryInv, Checked
    <2>5. GateSound' /\ RefusedForCause'
      BY DEF GateInv, GateSound, RequiredPaths, RefusedForCause
    <2> QED
      BY <2>2, <2>3, <2>4, <2>5 DEF GateInv
  <1> QED
    BY <1>1, <1>2

(* Every variable of the gate has its type, and the registry's mutex is     *)
(* held by one check at a time, also when a registration panics with it.    *)
THEOREM GateTypeCorrect == Spec => []GateTypeOK
  <1>1. GateInv => GateTypeOK
    BY DEF GateInv
  <1> QED
    BY <1>1, InvInit, InvStep, PTL DEF Spec

(* ensure_live_ws_allowed and validate_required_ws_contracts, for any       *)
(* number of concurrent calls, recorders and registrations: nothing passes  *)
(* without the environment's leave unless every file of one registered,     *)
(* non-empty inventory has been a complete live capture.                    *)
THEOREM NothingPassesUncaptured == Spec => []GateSound
  <1>1. GateInv => GateSound
    BY DEF GateInv
  <1> QED
    BY <1>1, InvInit, InvStep, PTL DEF Spec

(* Neither call refuses an inventory that stays compliant while it runs.   *)
THEOREM RefusalsJustified == Spec => []RefusedForCause
  <1>1. GateInv => RefusedForCause
    BY DEF GateInv
  <1> QED
    BY <1>1, InvInit, InvStep, PTL DEF Spec

-----------------------------------------------------------------------------
ReadsBack(f) ==
    LET t == f.recorded IN
      Decoded(f.text) =
        [core |-> IF t.core = "loose" /\ t.quotes =< Rounds THEN "compact" ELSE t.core,
         left |-> Undone(t.quotes + t.inner, 2 * Rounds)]

(* What a recorder is about to put on the disk reads back too. *)
TextInv ==
    /\ writing \in [Paths -> SUBSET Fixture] /\ disk \in [Paths -> SUBSET Fixture]
    /\ \A x \in Paths : \A f \in disk[x] \cup writing[x] : ReadsBack(f)

(* Four layers come off when the text is recorded and four when it is read: *)
(* what is accepted has more than four quotes, or no layer but quotes.      *)
LEMMA EightLayers ==
    ASSUME NEW r \in Recordings, IsJson(Normalized(r.text))
    PROVE  ReadsBack(OnDisk(r))
  <1> DEFINE t == r.text
  <1>1. t \in Text /\ t.quotes \in Nat /\ t.inner \in Nat
    BY GateAssumption DEF Text
  <1>2. /\ Normalized(t).core = t.core /\ Normalized(t).inner = t.inner
        /\ Normalized(t).quotes = IF t.quotes > 4 THEN t.quotes - 4 ELSE 0
    BY <1>1 DEF Normalized, Undone, Rounds, Text
  <1>3. t.quotes > 4 \/ t.inner = 0
    BY <1>1, <1>2 DEF IsJson
  <1>4. /\ Encoded(t).quotes = Normalized(t).quotes /\ Encoded(t).inner = t.inner
        /\ Encoded(t).core = IF t.core = "loose" /\ t.quotes =< 4 THEN "compact" ELSE t.core
    <2>1. Normalized(t) \in Text
      BY <1>1, <1>2 DEF Normalized, Text, Undone, Rounds
    <2> QED
      BY <1>1, <1>2, <2>1 DEF Encoded, Text
  <1>5. Undone(Encoded(t).quotes + Encoded(t).inner, 4) = Undone(t.quotes + t.inner, 8)
    BY <1>1, <1>2, <1>3, <1>4 DEF Undone
  <1>6. OnDisk(r).text = Encoded(t) /\ OnDisk(r).recorded = t
    BY DEF OnDisk
  <1> QED
    BY <1>4, <1>5, <1>6 DEF ReadsBack, Decoded, Rounds

(* WsFixture::read returns a text that WsFixture::write accepted without    *)
(* its eight outermost layers, whatever it is and however many it has.      *)
THEOREM RecordedTextReadsBack == Spec => []RoundTrip
  <1>1. Init => TextInv
    <2> SUFFICES ASSUME Init PROVE TextInv
      OBVIOUS
    <2>1. writing = [x \in Paths |-> {}] /\ disk = [x \in Paths |-> {}]
      BY DEF Init
    <2> QED
      BY <2>1 DEF TextInv
  <1>2. TextInv /\ [Next]_vars => TextInv'
    <2> SUFFICES ASSUME TextInv, [Next]_vars PROVE TextInv'
      OBVIOUS
    <2>1. ASSUME NEW x \in Paths, NEW r \in Recordings, WriteBegins(x, r)
          PROVE  TextInv'
      <3> DEFINE f == OnDisk(r)
      <3>1. ReadsBack(f)
        BY <2>1, EightLayers DEF WriteBegins
      <3>2. f \in Fixture
        BY FileTypes
      <3>3. disk' = [disk EXCEPT ![x] = {}] /\ writing' = [writing EXCEPT ![x] = {f}]
        BY <2>1 DEF WriteBegins
      <3> HIDE DEF f
      <3> QED
        BY <3>1, <3>2, <3>3 DEF TextInv
    <2>2. ASSUME NEW x \in Paths, WriteEnds(x) PROVE TextInv'
      BY <2>2 DEF WriteEnds, TextInv
    <2>3. ASSUME NEW x \in Paths, WriteDies(x) \/ RemoveFile(x) PROVE TextInv'
      BY <2>3 DEF WriteDies, RemoveFile, TextInv
    <2>4. CASE UNCHANGED fileVars
      BY <2>4 DEF fileVars, TextInv
    <2>5. ASSUME RegisterPanics \/ \E inv \in Inventories \cup {<<>>} : Register(inv)
          PROVE  UNCHANGED fileVars
      BY <2>5 DEF RegisterPanics, Register
    <2>6. ASSUME NEW p \in Checkers,
                 \/ LiveBegins(p) \/ CheckStep(p)
                 \/ \E inv \in Inventories \cup {<<>>} : ValidateBegins(p, inv)
          PROVE  UNCHANGED fileVars
      BY <2>6 DEF LiveBegins, CheckStep, ValidateBegins, LiveOverride, Flag, Lock, CheckExists,
                  CheckSuccess, CheckError, Connect, Frame
    <2>7. CASE UNCHANGED vars
      BY <2>4, <2>7 DEF vars
    <2> QED
      BY <2>1, <2>2, <2>3, <2>4, <2>5, <2>6, <2>7 DEF Next, Step
  <1>3. TextInv => RoundTrip
    BY Zenon DEF TextInv, RoundTrip, ReadsBack
  <1> QED
    BY <1>1, <1>2, <1>3, PTL DEF Spec

-----------------------------------------------------------------------------
(* Progress of a check through its inventory. *)

(* How a checker may move while it is in the loop, and what it goes through. *)
Turn(p) ==
    \/ pc'[p] = pc[p] /\ item'[p] = item[p] /\ (p \in lock' => p \in lock)
    \/ /\ pc[p] = "Loop" /\ item[p] =< Len(Items(p))
       /\ pc'[p] = "ReadSuccess" /\ item'[p] = item[p]
    \/ pc[p] = "ReadSuccess" /\ pc'[p] = "ReadError" /\ item'[p] = item[p]
    \/ pc[p] = "ReadError" /\ pc'[p] = "Loop" /\ item'[p] = item[p] + 1
    \/ pc'[p] \notin InLoop /\ p \notin lock'

(* One who is not in the loop comes to it at the first item, and takes the *)
(* lock only then.                                                         *)
Entry(p) ==
    \/ pc'[p] \notin InLoop /\ (p \in lock' => p \in lock)
    \/ pc'[p] = "Loop" /\ item'[p] = 1

LEMMA InventoryLength ==
    ASSUME NEW inv \in Inventory
    PROVE  Len(inv) \in Nat
  BY DEF Inventory

LEMMA ThreePerItem ==
    ASSUME NEW n \in Nat, NEW i \in Nat
    PROVE  /\ i =< n + 1 => 3 * (n + 1 - i) \in Nat
           /\ 3 * (n + 1 - (i + 1)) + 3 = 3 * (n + 1 - i)
  OBVIOUS

LEMMA CheckerTypes ==
    ASSUME GateInv
    PROVE  /\ pc \in [Checkers -> Labels] /\ mode \in [Checkers -> {"Live", "Validate"}]
           /\ list \in [Checkers -> Inventory] /\ item \in [Checkers -> Nat \ {0}]
           /\ lock \subseteq Checkers /\ \A p, q \in lock : p = q
           /\ \A p \in Checkers : Len(Items(p)) \in Nat
  <1>1. /\ pc \in [Checkers -> Labels] /\ mode \in [Checkers -> {"Live", "Validate"}]
        /\ list \in [Checkers -> Inventory] /\ item \in [Checkers -> Nat \ {0}]
        /\ lock \subseteq Checkers /\ \A p, q \in lock : p = q
    BY DEF GateInv, GateTypeOK
  <1>2. \A p \in Checkers : Items(p) \in Inventory
    BY DEF GateInv, GateTypeOK, Items
  <1>3. \A p \in Checkers : Len(Items(p)) \in Nat
    BY <1>2, InventoryLength
  <1> QED
    BY <1>1, <1>3

(* A checker's own step. *)
LEMMA OwnTurn ==
    ASSUME GateInv, NEW p \in Checkers,
           \/ LiveBegins(p) \/ CheckStep(p)
           \/ \E inv \in Inventories \cup {<<>>} : ValidateBegins(p, inv)
    PROVE  /\ pc[p] \in InLoop => Turn(p) /\ Items(p)' = Items(p)
           /\ pc[p] \notin InLoop => Entry(p)
           /\ \A q \in Checkers \ {p} :
                 /\ pc'[q] = pc[q] /\ item'[q] = item[q] /\ (q \in lock' => q \in lock)
                 /\ Items(q)' = Items(q)
  <1> USE CheckerTypes DEF Goto, InLoop, Turn, Entry, Leave
  <1>f. UNCHANGED registry
    BY DEF LiveBegins, CheckStep, ValidateBegins, LiveOverride, Flag, Lock, CheckExists,
           CheckSuccess, CheckError, Connect, Frame, registryVars
  <1>g. \A q \in Checkers \ {p} : mode'[q] = mode[q] /\ list'[q] = list[q]
    BY DEF LiveBegins, CheckStep, ValidateBegins, LiveOverride, Flag, Lock, CheckExists,
           CheckSuccess, CheckError, Connect
  <1>h. \A q \in Checkers \ {p} : Items(q)' = Items(q)
    BY <1>f, <1>g DEF Items
  <1>1. CASE LiveBegins(p) \/ LiveOverride(p) \/ Connect(p)
    BY <1>1, <1>h DEF LiveBegins, LiveOverride, Flag, Connect
  <1>2. CASE \E inv \in Inventories \cup {<<>>} : ValidateBegins(p, inv)
    <2>1. item[p] = 1
      BY <1>2, Zenon DEF ValidateBegins, GateInv, EntryInv
    <2> QED
      BY <1>2, <1>h, <2>1 DEF ValidateBegins
  <1>3. CASE Lock(p)
    <2>1. item[p] = 1
      BY <1>3 DEF Lock, GateInv, EntryInv
    <2> QED
      BY <1>3, <1>h, <2>1 DEF Lock
  <1>4. CASE CheckExists(p) \/ CheckSuccess(p) \/ CheckError(p)
    <2>1. Items(p)' = Items(p)
      BY <1>4, <1>f DEF CheckExists, CheckSuccess, CheckError, Items
    <2>2. CASE CheckExists(p)
      <3>1. pc[p] = "Loop" /\ item[p] \in Nat /\ Len(Items(p)) \in Nat
        BY <2>2 DEF CheckExists
      <3>2. CASE item[p] > Len(Items(p))
        BY <1>h, <2>1, <2>2, <3>1, <3>2 DEF CheckExists
      <3>3. CASE item[p] =< Len(Items(p))
        <4>1. \/ pc' = [pc EXCEPT ![p] = "ReadSuccess"] /\ UNCHANGED <<lock, item>>
              \/ Leave(p, "Blocked")
          <5>1. ~(item[p] > Len(Items(p)))
            BY <3>1, <3>3
          <5> QED
            BY <2>2, <5>1, Zenon DEF CheckExists
        <4>2. CASE pc' = [pc EXCEPT ![p] = "ReadSuccess"] /\ UNCHANGED <<lock, item>>
          BY <1>h, <2>1, <3>1, <3>3, <4>2
        <4>3. CASE Leave(p, "Blocked")
          BY <1>h, <2>1, <3>1, <4>3
        <4> QED
          BY <4>1, <4>2, <4>3, Zenon
      <3>4. item[p] > Len(Items(p)) \/ item[p] =< Len(Items(p))
        BY <3>1
      <3> QED
        BY <3>2, <3>3, <3>4, Zenon
    <2>3. CASE CheckSuccess(p)
      BY <1>h, <2>1, <2>3 DEF CheckSuccess
    <2>4. CASE CheckError(p)
      BY <1>h, <2>1, <2>4 DEF CheckError
    <2> QED
      BY <1>4, <2>2, <2>3, <2>4, Zenon
  <1> QED
    BY <1>1, <1>2, <1>3, <1>4, Zenon DEF CheckStep

LEMMA AnyTurn ==
    ASSUME GateInv, [Next]_vars, NEW p \in Checkers
    PROVE  /\ pc[p] \in InLoop => Turn(p) /\ Items(p)' = Items(p)
           /\ pc[p] \notin InLoop => Entry(p)
  <1>1. ASSUME UNCHANGED <<pc, item, lock, mode, list>>, registry' = registry \/ lock = {}
        PROVE  /\ pc[p] \in InLoop => Turn(p) /\ Items(p)' = Items(p)
               /\ pc[p] \notin InLoop => Entry(p)
    <2>1. pc[p] \in InLoop => Items(p)' = Items(p)
      BY <1>1 DEF GateInv, LoopInv, Items
    <2> QED
      BY <1>1, <2>1 DEF Turn, Entry
  <1>2. ASSUME NEW x \in Paths,
               \/ \E r \in Recordings : WriteBegins(x, r)
               \/ WriteEnds(x) \/ WriteDies(x) \/ RemoveFile(x)
        PROVE  UNCHANGED <<pc, item, lock, mode, list>> /\ registry' = registry
    BY <1>2 DEF WriteBegins, WriteEnds, WriteDies, RemoveFile, registryVars, callVars
  <1>3. ASSUME RegisterPanics \/ \E inv \in Inventories \cup {<<>>} : Register(inv)
        PROVE  UNCHANGED <<pc, item, lock, mode, list>> /\ lock = {}
    BY <1>3 DEF RegisterPanics, Register, callVars
  <1>4. ASSUME NEW q \in Checkers,
               \/ LiveBegins(q) \/ CheckStep(q)
               \/ \E inv \in Inventories \cup {<<>>} : ValidateBegins(q, inv)
        PROVE  /\ pc[p] \in InLoop => Turn(p) /\ Items(p)' = Items(p)
               /\ pc[p] \notin InLoop => Entry(p)
    <2>1. CASE p = q
      BY <1>4, <2>1, OwnTurn
    <2>2. CASE p # q
      BY <1>4, <2>2, OwnTurn DEF Turn, Entry
    <2> QED
      BY <2>1, <2>2
  <1>5. CASE UNCHANGED vars
    BY <1>1, <1>5 DEF vars, callVars, registryVars
  <1> QED
    BY <1>1, <1>2, <1>3, <1>4, <1>5 DEF Next, Step

(* A checker stays within its inventory, and whoever has the lock is in the loop. *)
BusyInv ==
    /\ \A p \in Checkers : pc[p] \in InLoop => item[p] =< Len(Items(p)) + 1
    /\ LockIsBusy

LEMMA BusyInvariant == Spec => [](GateInv /\ BusyInv)
  <1>1. Init => BusyInv
    BY DEF Init, BusyInv, LockIsBusy, InLoop
  <1>2. GateInv /\ GateInv' /\ BusyInv /\ [Next]_vars => BusyInv'
    <2> SUFFICES ASSUME GateInv, GateInv', BusyInv, [Next]_vars PROVE BusyInv'
      OBVIOUS
    <2>1. ASSUME NEW p \in Checkers, pc'[p] \in InLoop
          PROVE  item'[p] =< Len(Items(p)') + 1
      <3>1. item[p] \in Nat /\ Len(Items(p)) \in Nat
        BY CheckerTypes
      <3>2. Len(Items(p)') \in Nat
        <4>1. Items(p)' \in Inventory
          BY DEF GateInv, GateTypeOK, Items
        <4> QED
          BY <4>1 DEF Inventory
      <3>3. CASE pc[p] \in InLoop
        <4>1. Turn(p) /\ Items(p)' = Items(p) /\ item[p] =< Len(Items(p)) + 1
          BY <3>3, AnyTurn DEF BusyInv
        <4>2. pc[p] = "ReadError" => item[p] =< Len(Items(p))
          BY <3>3, Zenon DEF GateInv, LoopInv
        <4> QED
          BY <2>1, <3>1, <4>1, <4>2 DEF Turn
      <3>4. CASE pc[p] \notin InLoop
        <4>1. item'[p] = 1
          BY <2>1, <3>4, AnyTurn DEF Entry
        <4> QED
          BY <3>2, <4>1
      <3> QED
        BY <3>3, <3>4
    <2>2. ASSUME NEW p \in lock' PROVE pc'[p] \in InLoop
      <3>1. p \in Checkers
        BY <2>2 DEF GateInv, GateTypeOK
      <3>2. CASE pc[p] \in InLoop
        BY <2>2, <3>1, <3>2, AnyTurn DEF Turn, InLoop
      <3>3. CASE pc[p] \notin InLoop
        <4>1. p \notin lock
          BY <3>3 DEF BusyInv, LockIsBusy
        <4> QED
          BY <2>2, <3>1, <3>3, <4>1, AnyTurn DEF Entry, InLoop
      <3> QED
        BY <3>2, <3>3
    <2> QED
      BY <2>1, <2>2 DEF BusyInv, LockIsBusy
  <1> QED
    BY <1>1, <1>2, InvInit, InvStep, PTL DEF Spec

(* ensure_live_ws_allowed holds the mutex of the registry only while it    *)
(* goes through the inventory.                                             *)
THEOREM LockHolderIsBusy == Spec => []LockIsBusy
  <1>1. GateInv /\ BusyInv => LockIsBusy
    BY DEF BusyInv
  <1> QED
    BY <1>1, BusyInvariant, PTL

(* The loop of ensure_live_ws_allowed and validate_required_ws_contracts   *)
(* has at most three steps for each requirement before it, whatever the    *)
(* other threads do; so nobody waits for the mutex behind an endless loop. *)
THEOREM ChecksOnlyAdvance == Spec => CheckOnlyAdvances
  <1>1. GateInv /\ BusyInv /\ BusyInv' /\ GateInv' /\ [Next]_vars
        => [\A p \in Checkers : pc[p] \in InLoop =>
              /\ StepsLeft(p)' \in Nat
              /\ IF pc'[p] = pc[p] THEN StepsLeft(p)' = StepsLeft(p)
                                   ELSE StepsLeft(p)' < StepsLeft(p)]_vars
    <2> SUFFICES ASSUME GateInv, BusyInv, GateInv', BusyInv', [Next]_vars,
                        NEW p \in Checkers, pc[p] \in InLoop
                 PROVE  /\ StepsLeft(p)' \in Nat
                        /\ IF pc'[p] = pc[p] THEN StepsLeft(p)' = StepsLeft(p)
                                             ELSE StepsLeft(p)' < StepsLeft(p)
      OBVIOUS
    <2>1. Turn(p) /\ Items(p)' = Items(p)
      BY AnyTurn
    <2>2. /\ item[p] \in Nat /\ item'[p] \in Nat /\ Len(Items(p)) \in Nat
          /\ item[p] =< Len(Items(p)) + 1
          /\ pc'[p] \in InLoop => item'[p] =< Len(Items(p)) + 1
      <3>1. item[p] \in Nat /\ Len(Items(p)) \in Nat /\ item[p] =< Len(Items(p)) + 1
        BY CheckerTypes DEF BusyInv
      <3>2. item'[p] \in Nat
        BY DEF GateInv, GateTypeOK
      <3>3. pc'[p] \in InLoop => item'[p] =< Len(Items(p)') + 1
        BY DEF BusyInv
      <3> QED
        BY <2>1, <3>1, <3>2, <3>3
    <2> DEFINE later == 3 * (Len(Items(p)) + 1 - item[p])
               after == 3 * (Len(Items(p)) + 1 - item'[p])
    <2>a. /\ pc[p] = "Loop" => StepsLeft(p) = later + 3
          /\ pc[p] = "ReadSuccess" => StepsLeft(p) = later + 2
          /\ pc[p] = "ReadError" => StepsLeft(p) = later + 1
      BY DEF StepsLeft
    <2>b. /\ pc'[p] = "Loop" => StepsLeft(p)' = after + 3
          /\ pc'[p] = "ReadSuccess" => StepsLeft(p)' = after + 2
          /\ pc'[p] = "ReadError" => StepsLeft(p)' = after + 1
      BY <2>1 DEF StepsLeft
    <2>c. /\ later \in Nat /\ (pc'[p] \in InLoop => after \in Nat)
          /\ item'[p] = item[p] => after = later
          /\ item'[p] = item[p] + 1 => after + 3 = later
      <3>1. later \in Nat /\ (pc'[p] \in InLoop => after \in Nat)
        BY <2>2, ThreePerItem, Zenon
      <3>2. item'[p] = item[p] => after = later
        OBVIOUS
      <3>3. item'[p] = item[p] + 1 => after + 3 = later
        BY <2>2, ThreePerItem
      <3> QED
        BY <3>1, <3>2, <3>3
    <2> HIDE DEF later, after
    <2>3. CASE pc'[p] = pc[p]
      <3>1. item'[p] = item[p]
        BY <2>1, <2>3 DEF Turn
      <3> QED
        BY <2>a, <2>b, <2>c, <2>3, <3>1 DEF InLoop
    <2>4. CASE pc'[p] # pc[p] /\ pc'[p] \in InLoop
      <3>1. \/ pc[p] = "Loop" /\ pc'[p] = "ReadSuccess" /\ item'[p] = item[p]
            \/ pc[p] = "ReadSuccess" /\ pc'[p] = "ReadError" /\ item'[p] = item[p]
            \/ pc[p] = "ReadError" /\ pc'[p] = "Loop" /\ item'[p] = item[p] + 1
        BY <2>1, <2>4 DEF Turn, InLoop
      <3>2. CASE pc[p] = "Loop" /\ pc'[p] = "ReadSuccess" /\ item'[p] = item[p]
        <4>1. StepsLeft(p) = later + 3 /\ StepsLeft(p)' = after + 2 /\ after = later
          BY <2>a, <2>b, <2>c, <3>2, Zenon
        <4> QED
          BY <2>c, <2>4, <4>1
      <3>3. CASE pc[p] = "ReadSuccess" /\ pc'[p] = "ReadError" /\ item'[p] = item[p]
        <4>1. StepsLeft(p) = later + 2 /\ StepsLeft(p)' = after + 1 /\ after = later
          BY <2>a, <2>b, <2>c, <3>3, Zenon
        <4> QED
          BY <2>c, <2>4, <4>1
      <3>4. CASE pc[p] = "ReadError" /\ pc'[p] = "Loop" /\ item'[p] = item[p] + 1
        <4>1. StepsLeft(p) = later + 1 /\ StepsLeft(p)' = after + 3 /\ after + 3 = later /\ after \in Nat
          BY <2>a, <2>b, <2>c, <2>4, <3>4, Zenon
        <4> QED
          BY <2>c, <2>4, <4>1
      <3> QED
        BY <3>1, <3>2, <3>3, <3>4
    <2>5. CASE pc'[p] \notin InLoop
      <3>1. StepsLeft(p)' = 0
        BY <2>5 DEF StepsLeft, InLoop
      <3> QED
        BY <2>a, <2>c, <2>5, <3>1 DEF InLoop
    <2> QED
      BY <2>3, <2>4, <2>5
  <1> QED
    BY <1>1, BusyInvariant, PTL DEF Spec, CheckOnlyAdvances
================================================================================
