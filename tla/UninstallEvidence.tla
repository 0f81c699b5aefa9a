------------------------- MODULE UninstallEvidence -------------------------
(***************************************************************************)
(* Evidence for Win32 products: the uninstall registry is read once before *)
(* an installation and again after it (platform/uninstall.rs), and the two *)
(* snapshots are compared (observe/win32.rs).                              *)
(*                                                                         *)
(* A snapshot walks three registry views, each by the index of its         *)
(* subkeys, and opens and reads every subkey on its own; meanwhile other   *)
(* programs create records, fill them value by value and remove them.  A   *)
(* record is what its key holds: {} when there is no key, and otherwise    *)
(* "key", with "product" once it names the expected Product ID and         *)
(* "publisher" once it names the expected publisher.                       *)
(***************************************************************************)
EXTENDS Naturals, Sequences, FiniteSets

CONSTANTS
  KeysOf,      \* the subkeys each view may come to hold: naturals, in the order of their names
  MaxChanges   \* bound: changes of other programs and reads that fail

Sources == <<"CurrentUser", "LocalMachine64", "LocalMachine32">>
Scopes == {Sources[i] : i \in 1 .. Len(Sources)}
Facts == {"key", "product", "publisher"}

UninstallAssumption ==
  /\ KeysOf \in [Scopes -> SUBSET Nat]
  /\ \A s \in Scopes : IsFiniteSet(KeysOf[s])
  /\ MaxChanges \in Nat

Places == {<<s, k>> : s \in Scopes, k \in UNION {KeysOf[t] : t \in Scopes}}
Entries == [scope : Scopes, key : UNION {KeysOf[s] : s \in Scopes}, holds : SUBSET Facts]

VARIABLES
  path,      \* per view: the uninstall key exists
  record,    \* per view and subkey: what its key holds
  changes,   \* changes of other programs and failed reads so far
  expected,  \* the criteria: "none", "product" or "productAndPublisher"
  backend,   \* Win32BackendLifecycle
  phase,     \* which snapshot is there or being taken
  walk,      \* where the snapshot in hand stands
  baseline, followUp,  \* the entries of the two snapshots
  outcome,   \* the last evaluation
  before,    \* ghost: records there since the baseline began
  matched,   \* ghost: those of them that matched when it began
  standing,  \* ghost: matching records there since the follow-up began
  disturbed  \* ghost: the snapshots that lost a subkey of the view in hand

registry == <<path, record, changes>>
observer == <<phase, walk, baseline, followUp, outcome>>
ghosts == <<before, matched, standing, disturbed>>
vars == <<registry, expected, backend, observer, ghosts>>

NoWalk == [at |-> "idle", source |-> 0, index |-> 0, key |-> 0, holds |-> {}]

Taking == phase \in {"baseline", "followUp"}
Scope == Sources[walk.source]

Present(s) == {k \in KeysOf[s] : record[s][k] # {}}

(* matches: the Product ID, and the publisher when the criteria name one.  *)
Matches(holds) ==
  /\ "product" \in holds
  /\ expected = "productAndPublisher" => "publisher" \in holds

Standing(P(_)) == {p \in Places : p[2] \in KeysOf[p[1]] /\ P(record[p[1]][p[2]])}

(***************************************************************************)
(* Other programs.                                                         *)
(***************************************************************************)
CanChange == changes < MaxChanges /\ changes' = changes + 1

(* An installer creates its key, empty at first.                           *)
CreateRecord(s, k) ==
  /\ CanChange
  /\ record[s][k] = {}
  /\ record' = [record EXCEPT ![s][k] = {"key"}]
  /\ path' = [path EXCEPT ![s] = TRUE]
  /\ UNCHANGED <<expected, backend, observer, ghosts>>

(* It writes the values one at a time.                                     *)
WriteValue(s, k, value) ==
  /\ CanChange
  /\ record[s][k] # {} /\ value \notin record[s][k]
  /\ record' = [record EXCEPT ![s][k] = @ \cup {value}]
  /\ UNCHANGED <<path, expected, backend, observer, ghosts>>

(* An uninstaller removes a record; a subkey of the view in hand that goes *)
(* shifts the index of those after it.                                     *)
RemoveRecord(s, k) ==
  /\ CanChange
  /\ record[s][k] # {}
  /\ record' = [record EXCEPT ![s][k] = {}]
  /\ before' = before \ {<<s, k>>}
  /\ matched' = matched \ {<<s, k>>}
  /\ standing' = standing \ {<<s, k>>}
  /\ disturbed' = IF Taking /\ walk.at # "view" /\ s = Scope
                  THEN disturbed \cup {phase} ELSE disturbed
  /\ UNCHANGED <<path, expected, backend, observer>>

BackendFinishes ==
  /\ phase # "none" /\ backend = "running"
  /\ backend' = "finished"
  /\ UNCHANGED <<registry, expected, observer, ghosts>>

(***************************************************************************)
(* The criteria: only a product classified as Win32 has any, and a blank   *)
(* publisher is refused rather than ignored.                               *)
(***************************************************************************)
Construct(kind, publisher) ==
  /\ expected = "none"
  /\ kind = "Win32" /\ publisher # "blank"
  /\ expected' = IF publisher = "given" THEN "productAndPublisher" ELSE "product"
  /\ UNCHANGED <<registry, backend, observer, ghosts>>

(***************************************************************************)
(* The snapshot.                                                           *)
(***************************************************************************)
Begin(which) ==
  /\ phase' = which
  /\ walk' = [NoWalk EXCEPT !.at = "view", !.source = 1]
  /\ disturbed' = disturbed \ {which}
  /\ UNCHANGED <<registry, expected, backend>>

BeginBaseline ==
  /\ expected # "none" /\ phase = "none"
  /\ Begin("baseline")
  /\ before' = Standing(LAMBDA holds : holds # {})
  /\ matched' = Standing(Matches)
  /\ UNCHANGED <<baseline, followUp, outcome, standing>>

BeginFollowUp ==
  /\ phase = "between"
  /\ Begin("followUp")
  /\ followUp' = {} /\ outcome' = "none"
  /\ standing' = Standing(Matches)
  /\ UNCHANGED <<baseline, before, matched>>

(* mutated: the walk is left where it failed.                              *)
RefuseMidway ==
  /\ phase' = IF phase = "baseline" THEN "none" ELSE "between"
  /\ UNCHANGED <<walk, baseline, followUp>>

(* Err: nothing of the snapshot is kept, and it may be taken again.        *)
Refuse ==
  /\ phase' = IF phase = "baseline" THEN "none" ELSE "between"
  /\ baseline' = IF phase = "baseline" THEN {} ELSE baseline
  /\ followUp' = {}
  /\ walk' = NoWalk

(* The views are walked in order, and after the last the snapshot is there.*)
NextView ==
  IF walk.source < Len(Sources)
  THEN /\ walk' = [NoWalk EXCEPT !.at = "view", !.source = walk.source + 1]
       /\ UNCHANGED <<phase, baseline, followUp>>
  ELSE /\ walk' = NoWalk
       /\ phase' = IF phase = "baseline" THEN "between" ELSE "judge"
       /\ UNCHANGED <<baseline, followUp>>

(* mutated: an inaccessible view is passed over.                           *)
DeniedIsMissing == NextView

(* An inaccessible view fails the snapshot.                                *)
ViewDenied == Refuse

(* A view that has no uninstall key is passed over; one that is denied     *)
(* ends the snapshot.                                                      *)
OpenView ==
  /\ Taking /\ walk.at = "view"
  /\ \/ /\ ~path[Scope]
        /\ NextView
     \/ /\ path[Scope]
        /\ walk' = [walk EXCEPT !.at = "enum"]
        /\ UNCHANGED <<phase, baseline, followUp>>
     \/ ViewDenied
  /\ UNCHANGED <<registry, expected, backend, outcome, ghosts>>

(* The subkey at an index: the registry keeps them in the order of their   *)
(* names.                                                                  *)
KeyAt(s, index) ==
  CHOOSE k \in Present(s) : Cardinality({j \in Present(s) : j < k}) = index

EnumKey ==
  /\ Taking /\ walk.at = "enum"
  /\ \/ /\ walk.index >= Cardinality(Present(Scope))
        /\ NextView
     \/ /\ walk.index < Cardinality(Present(Scope))
        /\ walk' = [walk EXCEPT !.at = "open", !.key = KeyAt(Scope, walk.index)]
        /\ UNCHANGED <<phase, baseline, followUp>>
  /\ UNCHANGED <<registry, expected, backend, outcome, ghosts>>

(* A subkey that vanished since, or that is denied, ends the snapshot.     *)
OpenEntry ==
  /\ Taking /\ walk.at = "open"
  /\ \/ /\ record[Scope][walk.key] # {}
        /\ walk' = [walk EXCEPT !.at = "product"]
        /\ UNCHANGED <<phase, baseline, followUp>>
     \/ Refuse
  /\ UNCHANGED <<registry, expected, backend, outcome, ghosts>>

(* A value that cannot be read, or whose key is gone, counts as absent.    *)
Read(value, seen) ==
  \/ /\ seen = record[Scope][walk.key] \cap {value}
     /\ UNCHANGED <<changes, standing>>
  \/ /\ seen = {} /\ value \in record[Scope][walk.key]
     /\ CanChange
     /\ standing' = standing \ {<<Scope, walk.key>>}

ReadProduct ==
  /\ Taking /\ walk.at = "product"
  /\ \E seen \in SUBSET {"product"} :
       /\ Read("product", seen)
       /\ walk' = [walk EXCEPT !.at = "publisher", !.holds = {"key"} \cup seen]
  /\ UNCHANGED <<path, record, expected, backend, phase, baseline, followUp, outcome,
                 before, matched, disturbed>>

EntryRead(holds) == [scope |-> Scope, key |-> walk.key, holds |-> holds]

(* The entry joins the snapshot and the walk turns to the next index.      *)
ReadPublisher ==
  /\ Taking /\ walk.at = "publisher"
  /\ \E seen \in SUBSET {"publisher"} :
       /\ Read("publisher", seen)
       /\ LET entry == EntryRead(walk.holds \cup seen)
          IN  IF phase = "baseline"
              THEN baseline' = baseline \cup {entry} /\ UNCHANGED followUp
              ELSE followUp' = followUp \cup {entry} /\ UNCHANGED baseline
  /\ walk' = [walk EXCEPT !.at = "enum", !.index = walk.index + 1, !.key = 0, !.holds = {}]
  /\ UNCHANGED <<path, record, expected, backend, phase, outcome, before, matched, disturbed>>

(***************************************************************************)
(* The evaluation.                                                         *)
(***************************************************************************)
(* mutated: an entry whose values changed is another one.                  *)
SameValues(e, f) == e = f

SameIdentity(e, f) == e.scope = f.scope /\ e.key = f.key

Contains(snapshot) == \E e \in snapshot : Matches(e.holds)

NewMatching ==
  {e \in followUp : Matches(e.holds) /\ ~\E b \in baseline : SameIdentity(e, b)}

Observation ==
  CASE Contains(baseline) -> "AlreadyPresent"
    [] ~Contains(baseline) /\ NewMatching # {} -> "ProductBoundRegistryEvidence"
    [] OTHER -> IF backend = "running" THEN "Installing" ELSE "CompletionUncertain"

Evaluate ==
  /\ phase = "judge"
  /\ outcome' = Observation
  /\ phase' = "between"
  /\ UNCHANGED <<registry, expected, backend, walk, baseline, followUp, ghosts>>

(* A registry of other products and complete records of the expected one.  *)
Init ==
  /\ record \in [Scopes -> [UNION {KeysOf[s] : s \in Scopes} -> {{}, {"key"}, Facts}]]
  /\ \A s \in Scopes : \A k \in DOMAIN record[s] \ KeysOf[s] : record[s][k] = {}
  /\ path = [s \in Scopes |-> \E k \in KeysOf[s] : record[s][k] # {}]
  /\ changes = 0
  /\ expected = "none"
  /\ backend = "running"
  /\ phase = "none"
  /\ walk = NoWalk
  /\ baseline = {} /\ followUp = {}
  /\ outcome = "none"
  /\ before = {} /\ matched = {} /\ standing = {} /\ disturbed = {}

Next ==
  \/ \E s \in Scopes : \E k \in KeysOf[s] :
       \/ CreateRecord(s, k)
       \/ \E value \in {"product", "publisher"} : WriteValue(s, k, value)
       \/ RemoveRecord(s, k)
  \/ BackendFinishes
  \/ \E kind \in {"Packaged", "Unknown", "Win32"}, publisher \in {"none", "blank", "given"} :
       Construct(kind, publisher)
  \/ BeginBaseline \/ BeginFollowUp
  \/ OpenView \/ EnumKey \/ OpenEntry \/ ReadProduct \/ ReadPublisher
  \/ Evaluate

Spec == Init /\ [][Next]_vars

(***************************************************************************)
(* Properties.                                                             *)
(***************************************************************************)
TypeOK ==
  /\ path \in [Scopes -> BOOLEAN]
  /\ \A s \in Scopes : \A k \in KeysOf[s] : record[s][k] \in SUBSET Facts
  /\ changes \in 0 .. MaxChanges
  /\ expected \in {"none", "product", "productAndPublisher"}
  /\ backend \in {"running", "finished"}
  /\ phase \in {"none", "baseline", "between", "followUp", "judge"}
  /\ walk.at \in {"idle", "view", "enum", "open", "product", "publisher"}
  /\ Taking <=> walk.at # "idle"
  /\ baseline \subseteq Entries /\ followUp \subseteq Entries
  /\ outcome \in {"none", "Installing", "AlreadyPresent", "ProductBoundRegistryEvidence",
                  "CompletionUncertain"}
  /\ before \subseteq Places /\ matched \subseteq before /\ standing \subseteq Places
  /\ disturbed \subseteq {"baseline", "followUp"}

Claimed == outcome = "ProductBoundRegistryEvidence"

(* A record that was there before the installation is no evidence of it,   *)
(* even if it matched nothing then and was filled in since, unless the     *)
(* baseline lost a subkey of the view in hand (win32.rs:38: "Value changes *)
(* do not turn an existing uninstall record into a fresh installation").   *)
FreshUnlessDisturbed ==
  Claimed /\ "baseline" \notin disturbed =>
    \A e \in NewMatching : <<e.scope, e.key>> \notin before

(* A record that matched all through the follow-up is not passed over: the *)
(* evaluation says evidence or prior presence, unless the baseline had the *)
(* record, a value of it could not be read or the follow-up lost a subkey  *)
(* of the view in hand (uninstall.rs:37: an inaccessible view fails        *)
(* closed).                                                                *)
AbsenceIsReal ==
  outcome \in {"Installing", "CompletionUncertain"} /\ "followUp" \notin disturbed =>
    \A p \in standing : \E b \in baseline : p = <<b.scope, b.key>>

(* What the comment of evaluate_win32_registry_observation says            *)
(* (win32.rs:196): "an existing matching record is never passed off as a   *)
(* fresh completion".                                                      *)
NeverPassedOff ==
  Claimed => \E e \in NewMatching : <<e.scope, e.key>> \notin matched
=============================================================================
