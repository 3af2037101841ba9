------------------------------ MODULE FixtureGate ------------------------------
(***************************************************************************)
(* The fixture policy that TungsteniteTransport::connect asks before it    *)
(* opens a live websocket, the registry it reads, and the fixture files,   *)
(* which WsFixture::write replaces while checks are going on.              *)
(*                                                                         *)
(* A checker is one call: of connect ("Live"), or of                       *)
(* validate_required_ws_contracts with an inventory of its own             *)
(* ("Validate").  std::fs::write is not atomic: the file is truncated,     *)
(* then filled, and a process that dies in between leaves it unreadable.   *)
(*                                                                         *)
(* A text is seen through what undoing changes in it: a core under layers. *)
(* The outermost layers are quotes, each of which makes a JSON string; of  *)
(* the inner ones the first is the escapes of a JSON string without the    *)
(* quotes (a plain text with backslashes has them too), and what follows   *)
(* may be either.  A core is an object or array, "compact" as the          *)
(* serialiser writes it or "loose" in any other layout; another JSON value *)
(* ("scalar"); or "plain", which is no JSON and holds nothing to undo.     *)
(***************************************************************************)
EXTENDS Integers, Sequences

CONSTANTS
    Checkers, Paths,
    NoPath,          \* error_path is None
    Inventories,     \* lists of requirements: success path, error path or NoPath
    Recordings       \* fixtures that recorders write: provenance fields and text

Fields == {"source", "captured_at_ms", "capture_command", "exchange_env"}
Cores == {"compact", "loose", "scalar", "plain"}
Text == [core : Cores, quotes : Nat, inner : Nat]

ASSUME GateAssumption ==
    /\ NoPath \notin Paths
    /\ Inventories \subseteq Seq([success : Paths, error : Paths \cup {NoPath}])
    /\ Recordings \subseteq [provenance : SUBSET Fields, text : Text]

VARIABLES
    present,           \* paths at which there is a file
    disk,              \* what it holds, per path: {f}, or {} if it is no fixture
    writing,           \* fixture that a recorder is writing, {f} or {}, per path
    registry, poisoned,
    lock,              \* checker that holds the registry, {} or {p}
    pc, mode, list, item,                \* per checker
    captured,          \* history: paths that have held a complete live capture
    bypass,            \* history: checkers let through by the environment
    admitted,          \* history: the inventory a checker was admitted for
    clean              \* history: compliant so far, of a checker that is not through

fileVars == <<present, disk, writing, captured>>
registryVars == <<registry, poisoned>>
callVars == <<pc, mode, list, item, lock, bypass, admitted>>
vars == <<fileVars, registryVars, callVars, clean>>

-----------------------------------------------------------------------------
(* WsFixture *)

Rounds == 4

Undone(layers, n) == IF layers > n THEN layers - n ELSE 0

NormalizedOneLess(t) == [t EXCEPT !.quotes = Undone(t.quotes, Rounds - 1)]

(* decode_embedded_json_string: it stops at the first layer that is no quote *)
Normalized(t) == [t EXCEPT !.quotes = Undone(t.quotes, Rounds)]

IsJson(t) == t.quotes > 0 \/ (t.inner = 0 /\ t.core # "plain")

(* encode_embedded_json_value: an object or array is kept as a value, whose *)
(* layout is lost, and anything else as a string                            *)
Encoded(t) ==
    LET n == Normalized(t) IN
      IF n.quotes = 0 /\ n.core = "loose" THEN [n EXCEPT !.core = "compact"] ELSE n

(* decode_embedded_json_value: each round undoes a layer of either kind.    *)
(* What is left of it, and how many layers                                  *)
Decoded(t) == [core |-> t.core, left |-> Undone(t.quotes + t.inner, Rounds)]

(* ensure_live_capture_fixture: read, parse, look at the provenance *)
Compliant(p) == \E f \in disk[p] : f.provenance = Fields

(* The file's contents, with the text that they were made from. *)
OnDisk(r) == [provenance |-> r.provenance, text |-> Encoded(r.text), recorded |-> r.text]

(* write: the text is encoded before the file is touched. *)
WriteBegins(p, r) ==
    /\ writing[p] = {}
    /\ IsJson(Normalized(r.text))
    /\ writing' = [writing EXCEPT ![p] = {OnDisk(r)}]
    /\ present' = present \cup {p} /\ disk' = [disk EXCEPT ![p] = {}]
    /\ UNCHANGED <<captured, registryVars, callVars>>

WriteEnds(p) ==
    /\ writing[p] # {}
    /\ disk' = [disk EXCEPT ![p] = writing[p]]
    /\ captured' = IF Compliant(p)' THEN captured \cup {p} ELSE captured
    /\ writing' = [writing EXCEPT ![p] = {}]
    /\ UNCHANGED <<present, registryVars, callVars>>

(* The recorder dies in the middle. *)
WriteDies(p) ==
    /\ writing[p] # {}
    /\ writing' = [writing EXCEPT ![p] = {}]
    /\ UNCHANGED <<present, disk, captured, registryVars, callVars>>

RemoveFile(p) ==
    /\ writing[p] = {} /\ p \in present
    /\ present' = present \ {p} /\ disk' = [disk EXCEPT ![p] = {}]
    /\ UNCHANGED <<writing, captured, registryVars, callVars>>

-----------------------------------------------------------------------------
(* The registry, a process-wide mutex *)

RegisterUnlocked(inv) ==
    /\ ~poisoned
    /\ registry' = inv
    /\ UNCHANGED <<poisoned, fileVars, callVars>>

(* register_required_ws_contracts, and the clearing for tests *)
Register(inv) ==
    /\ lock = {} /\ ~poisoned
    /\ registry' = inv
    /\ UNCHANGED <<poisoned, fileVars, callVars>>

(* The caller's iterator runs with the mutex held; its panic poisons it. *)
RegisterPanics ==
    /\ lock = {} /\ ~poisoned
    /\ poisoned' = TRUE
    /\ UNCHANGED <<registry, fileVars, callVars>>

-----------------------------------------------------------------------------
(* The checks *)

(* A live check goes through the registry itself, under its lock. *)
Items(p) == IF mode[p] = "Live" THEN registry ELSE list[p]
Here(p) == Items(p)[item[p]]

Goto(p, label) == pc' = [pc EXCEPT ![p] = label]

Frame == UNCHANGED <<fileVars, registryVars>>

ValidateBegins(p, inv) ==
    /\ pc[p] = "Idle"
    /\ mode' = [mode EXCEPT ![p] = "Validate"] /\ list' = [list EXCEPT ![p] = inv]
    /\ Goto(p, IF inv = <<>> THEN "Blocked" ELSE "Loop")
    /\ Frame /\ UNCHANGED <<item, lock, bypass, admitted>>

(* env_truthy: the environment is read anew by every call, and may change. *)
Flag(p, label, otherwise) ==
    /\ pc[p] = label
    /\ \/ Goto(p, "Connect") /\ bypass' = bypass \cup {p}
       \/ Goto(p, otherwise) /\ UNCHANGED bypass
    /\ Frame /\ UNCHANGED <<mode, list, item, lock, admitted>>

LiveBegins(p) == Flag(p, "Idle", "Override")     \* SHARED_WS_FIXTURE_CAPTURE_MODE

LiveOverride(p) == Flag(p, "Override", "Lock")   \* SHARED_WS_ALLOW_LIVE_WITHOUT_FIXTURES

(* A poisoned mutex makes the call panic; an empty registry blocks it. *)
Lock(p) ==
    /\ pc[p] = "Lock" /\ lock = {}
    /\ Goto(p, IF poisoned THEN "Panicked" ELSE IF registry = <<>> THEN "Blocked" ELSE "Loop")
    /\ lock' = IF poisoned \/ registry = <<>> THEN {} ELSE {p}
    /\ Frame /\ UNCHANGED <<mode, list, item, bypass, admitted>>

(* Leaving the loop drops the guard and the locals. *)
LeaveHoldsLock(p, label) ==
    Goto(p, label) /\ UNCHANGED lock /\ item' = [item EXCEPT ![p] = 1]

Leave(p, label) ==
    Goto(p, label) /\ lock' = lock \ {p} /\ item' = [item EXCEPT ![p] = 1]

(* One turn of the loop: all items checked, or the next one's files exist. *)
(* The two calls of exists are one step, since each file is read again.    *)
CheckExists(p) ==
    /\ pc[p] = "Loop"
    /\ IF item[p] > Len(Items(p))
       THEN /\ Leave(p, IF mode[p] = "Live" THEN "Connect" ELSE "Valid")
            /\ admitted' = [admitted EXCEPT ![p] = Items(p)]
       ELSE /\ IF {Here(p).success, Here(p).error} \ {NoPath} \subseteq present
               THEN Goto(p, "ReadSuccess") /\ UNCHANGED <<lock, item>>
               ELSE Leave(p, "Blocked")
            /\ UNCHANGED admitted
    /\ Frame /\ UNCHANGED <<mode, list, bypass>>

CheckSuccess(p) ==
    /\ pc[p] = "ReadSuccess"
    /\ IF Compliant(Here(p).success)
       THEN Goto(p, "ReadError") /\ UNCHANGED <<lock, item>>
       ELSE Leave(p, "Blocked")
    /\ Frame /\ UNCHANGED <<mode, list, bypass, admitted>>

CheckErrorRequired(p) ==
    /\ pc[p] = "ReadError"
    /\ IF Here(p).error # NoPath /\ Compliant(Here(p).error)
       THEN /\ Goto(p, "Loop") /\ UNCHANGED lock
            /\ item' = [item EXCEPT ![p] = @ + 1]
       ELSE Leave(p, "Blocked")
    /\ Frame /\ UNCHANGED <<mode, list, bypass, admitted>>

CheckError(p) ==
    /\ pc[p] = "ReadError"
    /\ IF Here(p).error # NoPath => Compliant(Here(p).error)
       THEN /\ Goto(p, "Loop") /\ UNCHANGED lock
            /\ item' = [item EXCEPT ![p] = @ + 1]
       ELSE Leave(p, "Blocked")
    /\ Frame /\ UNCHANGED <<mode, list, bypass, admitted>>

(* The websocket is opened, or the attempt fails. *)
Connect(p) ==
    /\ pc[p] = "Connect"
    /\ Goto(p, "Returned")
    /\ Frame /\ UNCHANGED <<mode, list, item, lock, bypass, admitted>>

CheckStep(p) ==
    \/ LiveOverride(p) \/ Lock(p)
    \/ CheckExists(p) \/ CheckSuccess(p) \/ CheckError(p) \/ Connect(p)

-----------------------------------------------------------------------------
Good(inv) ==
    /\ inv # <<>>
    /\ \A i \in 1 .. Len(inv) :
          /\ Compliant(inv[i].success)
          /\ inv[i].error # NoPath => Compliant(inv[i].error)

GoodFor(p) == Good(Items(p))

Init ==
    /\ present = {} /\ disk = [p \in Paths |-> {}]
    /\ writing = [p \in Paths |-> {}] /\ captured = {}
    /\ registry = <<>> /\ poisoned = FALSE /\ lock = {}
    /\ pc = [p \in Checkers |-> "Idle"] /\ mode = [p \in Checkers |-> "Live"]
    /\ list = [p \in Checkers |-> <<>>] /\ item = [p \in Checkers |-> 1]
    /\ bypass = {} /\ admitted = [p \in Checkers |-> <<>>]
    /\ clean = [p \in Checkers |-> FALSE]

Step ==
    \/ \E p \in Paths :
          \/ \E r \in Recordings : WriteBegins(p, r)
          \/ WriteEnds(p) \/ WriteDies(p) \/ RemoveFile(p)
    \/ \E inv \in Inventories \cup {<<>>} : Register(inv)
    \/ RegisterPanics
    \/ \E p \in Checkers : LiveBegins(p) \/ CheckStep(p)
    \/ \E p \in Checkers, inv \in Inventories \cup {<<>>} : ValidateBegins(p, inv)

Track ==
    clean' = [p \in Checkers |-> /\ GoodFor(p)' /\ (pc[p] = "Idle" \/ clean[p])
                                /\ pc'[p] \notin {"Connect", "Returned", "Valid", "Panicked"}]

Next == Step /\ Track

Spec == Init /\ [][Next]_vars

(* A call that has begun goes on; the threads are preemptive. *)
FairSpec == Spec /\ \A p \in Checkers : WF_vars(CheckStep(p) /\ Track)

-----------------------------------------------------------------------------
Labels == {"Idle", "Override", "Lock", "Loop", "ReadSuccess", "ReadError", "Connect",
           "Returned", "Valid", "Blocked", "Panicked"}

Inventory == Seq([success : Paths, error : Paths \cup {NoPath}])

Fixture == [provenance : SUBSET Fields, text : Text, recorded : Text]

(* Every variable has its type, and at most one checker holds the lock. *)
GateTypeOK ==
    /\ present \subseteq Paths /\ disk \in [Paths -> SUBSET Fixture]
    /\ writing \in [Paths -> SUBSET Fixture]
    /\ registry \in Inventory /\ poisoned \in BOOLEAN
    /\ lock \subseteq Checkers /\ \A p, q \in lock : p = q
    /\ pc \in [Checkers -> Labels] /\ mode \in [Checkers -> {"Live", "Validate"}]
    /\ list \in [Checkers -> Inventory] /\ item \in [Checkers -> Nat \ {0}]
    /\ captured \subseteq Paths /\ bypass \subseteq Checkers
    /\ admitted \in [Checkers -> Inventory] /\ clean \in [Checkers -> BOOLEAN]

RequiredPaths(inv) ==
    {inv[i].success : i \in 1 .. Len(inv)} \cup ({inv[i].error : i \in 1 .. Len(inv)} \ {NoPath})

(* A live websocket is opened without the environment's leave, and an      *)
(* inventory is found valid, only for one registered inventory that is not *)
(* empty and each of whose files has been a complete live capture: no      *)
(* half-written file, no mixture of two inventories, no poisoned registry. *)
GateSound ==
    \A p \in Checkers \ bypass : pc[p] \in {"Connect", "Returned", "Valid"} =>
        admitted[p] # <<>> /\ RequiredPaths(admitted[p]) \subseteq captured

(* A check is not refused while its inventory is compliant throughout,     *)
(* whatever other files, registrations and checks do.                      *)
RefusedForCause == \A p \in Checkers : pc[p] = "Blocked" => ~clean[p]

(* What read makes of a text that write accepted: its core without eight   *)
(* layers, four undone by each.  So a JSON text that was quoted up to      *)
(* eight times reads back bare, an object or array that write could unwrap *)
(* in the serialiser's layout (ws_fixture_round_trips_nested_object_text); *)
(* one with more layers keeps the others; and of a plain text, which write *)
(* takes only inside of more than four quotes, read also undoes the        *)
(* escapes that were its own.                                              *)
RoundTrip ==
    \A p \in Paths : \A f \in disk[p] :
        LET t == f.recorded IN
          Decoded(f.text) =
            [core |-> IF t.core = "loose" /\ t.quotes =< Rounds THEN "compact" ELSE t.core,
             left |-> Undone(t.quotes + t.inner, 2 * Rounds)]

(* A check comes to an end: it never keeps the registry from the others. *)
CheckEnds ==
    \A p \in Checkers :
        pc[p] = "Lock" ~> pc[p] \in {"Returned", "Blocked", "Panicked"}

InLoop == {"Loop", "ReadSuccess", "ReadError"}

(* Steps that a checker in the loop still has before it, at most. *)
StepsLeft(p) ==
    LET later == 3 * (Len(Items(p)) + 1 - item[p]) IN
    CASE pc[p] = "Loop" -> later + 3
      [] pc[p] = "ReadSuccess" -> later + 2
      [] pc[p] = "ReadError" -> later + 1
      [] OTHER -> 0

(* A check that goes through an inventory comes closer to its end with     *)
(* every step it takes, and nothing that recorders, registrations and      *)
(* other checks do gives it more to go through.                            *)
CheckOnlyAdvances ==
    [][\A p \in Checkers : pc[p] \in InLoop =>
          /\ StepsLeft(p)' \in Nat
          /\ IF pc'[p] = pc[p] THEN StepsLeft(p)' = StepsLeft(p)
                               ELSE StepsLeft(p)' < StepsLeft(p)]_vars

(* The registry is locked only by a check on its way through it: returning, *)
(* refusing and panicking give it back.                                     *)
LockIsBusy == \A p \in lock : pc[p] \in InLoop
=============================================================================
