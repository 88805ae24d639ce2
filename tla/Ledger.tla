--------------------------------- MODULE Ledger --------------------------------
(***************************************************************************)
(* The ledger as the roles see it and as `bd` keeps it                     *)
(* (crates/infra/src/bd.rs, crates/domain/src/meta.rs, kind.rs).  A call   *)
(* of the BeadStore port is one `bd` command, or for `create` several; a   *)
(* bead in bd is labels, a status, edges and one metadata object, from     *)
(* which a reader decodes a typed bead.  Roles call at the same time, a    *)
(* command may fail before or after it took effect, and a call that fails  *)
(* is not finished.  What bd does with a command is external.              *)
(*                                                                         *)
(* `meant` is what the callers asked for, as the types of the port say it; *)
(* it is not in the code.                                                  *)
(***************************************************************************)
EXTENDS Naturals, Sequences, FiniteSets

CONSTANTS
    Callers,        \* processes that use the ledger
    MaxBeads,       \* bound: beads
    MaxWrites,      \* bound: commands on beads there are
    MaxLedgerFaults \* bound: failed commands

ASSUME LedgerAssumption ==
    /\ MaxBeads \in Nat \ {0} /\ MaxWrites \in Nat /\ MaxLedgerFaults \in Nat

VARIABLES
    beads,       \* the ledger: a sequence, by id
    meant,       \* history: meant[i], bead i as its writers meant it
    creating,    \* creating[c]: what is left of the `create` of a caller
    writes,      \* writes left to happen
    ledgerFaults \* faults left to happen

ledgerVars == <<beads, meant, creating, writes, ledgerFaults>>

None == "none"
Canceled == "fac:canceled"
Kinds == {"epic", "task", "verify", "merge", "plan_request"}

\* The metadata key of each kind: META_KEY, VERIFY_META_KEY, MERGE_META_KEY, NEEDS_META_KEY.
KeyOf ==
    [epic |-> None, task |-> "fac", verify |-> "fac_verify", merge |-> "fac_merge",
     plan_request |-> "fac_needs"]
MetaKeys == {KeyOf[k] : k \in Kinds} \ {None}

-----------------------------------------------------------------------------
(* The wire: the raw shapes and their decoders.                            *)

\* What a field holds that an older release did not write.
Absent == "absent"
Default(field, value) == IF field = Absent THEN value ELSE field

Version == 1

\* RawFactoryMeta: of its fields those with a default.
RawTask(m) ==
    [version |-> Version, budget |-> m.budget, releases |-> m.releases, state |-> m.state]

\* TryFrom<RawFactoryMeta>.
TaskMeta(raw) ==
    [budget |-> Default(raw.budget, "three attempts"), releases |-> Default(raw.releases, "none"),
     state |-> raw.state]

\* RawVerifyMeta, its commands, whose order plays no part here, and its timeout.
RawVerify(m) == [version |-> Version, commands |-> m.commands, timeout |-> m.timeout]

\* TryFrom<RawVerifyMeta>: blank commands are dropped.
VerifyMeta(raw) ==
    [commands |-> raw.commands \ {"blank"},
     timeout |-> Default(raw.timeout, "20 minutes")]

\* RawMergeMeta; a plan request's needs are written as they are.
RawMerge(m) == [version |-> Version, head |-> m.head]
MergeMeta(raw) == [head |-> raw.head]

Raw(kind, m) ==
    CASE kind = "task" -> RawTask(m)
      [] kind = "verify" -> RawVerify(m)
      [] kind = "merge" -> RawMerge(m)
      [] OTHER -> m

\* bead_meta_json and wrap_json: one object with the key of the bead's kind.
Wrapped(kind, meta) ==
    [key \in {KeyOf[kind] : m \in meta} |-> Raw(kind, CHOOSE m \in meta : TRUE)]

\* A shape this release cannot read.
Undecodable(key, raw) ==
    CASE key = "fac_needs" -> FALSE
      [] key = "fac_verify" -> raw.version # Version \/ VerifyMeta(raw).commands = {}
      [] OTHER -> raw.version # Version

\* BeadKind::from_labels: the kind label, if there is exactly one.
KindOf(labels) ==
    IF Cardinality(labels \cap Kinds) = 1 THEN CHOOSE k \in Kinds : k \in labels ELSE None

\* What stands under a key, as its type.
Decoded(key, raw) ==
    CASE key = "fac" -> TaskMeta(raw)
      [] key = "fac_verify" -> VerifyMeta(raw)
      [] key = "fac_merge" -> MergeMeta(raw)
      [] OTHER -> raw

\* TryFrom<RawBead>: a bead decodes whole or not at all.
Read(b) ==
    IF \E key \in DOMAIN b.metadata : Undecodable(key, b.metadata[key]) THEN [kind |-> None]
    ELSE [field \in {"kind"} \cup MetaKeys |->
             IF field = "kind" THEN KindOf(b.labels)
             ELSE {Decoded(key, b.metadata[key]) : key \in {field} \cap DOMAIN b.metadata}]

\* NewBead, BeadMeta: the typed bead, an optional field as a set.
Typed(kind, meta) ==
    [field \in {"kind"} \cup MetaKeys |->
        IF field = "kind" THEN kind ELSE IF field = KeyOf[kind] THEN meta ELSE {}]

-----------------------------------------------------------------------------
(* The values callers write.                                               *)

NewTask == [budget |-> "its own", releases |-> "none", state |-> "open"]
Moved == [budget |-> "its own", releases |-> "one", state |-> "moved"]
Checks == [commands |-> {"cargo test"}, timeout |-> "its own"]
Branch == [head |-> "sha"]

\* Beads of an older release, which knew no budgets, blocked releases or timeouts and wrote what
\* it was given.
OldTask ==
    [labels |-> {"task"},
     metadata |-> [k \in {"fac"} |->
         [version |-> Version, budget |-> Absent, releases |-> Absent, state |-> "open"]],
     typed |-> Typed("task", {[budget |-> "three attempts", releases |-> "none",
                               state |-> "open"]})]
OldVerify ==
    [labels |-> {"verify"},
     metadata |-> [k \in {"fac_verify"} |->
         [version |-> Version, commands |-> {"blank", "cargo test"}, timeout |-> Absent]],
     typed |-> Typed("verify", {[commands |-> {"cargo test"}, timeout |-> "20 minutes"]})]
OldBeads == {OldTask, OldVerify}

Bead(labels, metadata, deferred) ==
    [labels |-> labels, metadata |-> metadata, needs |-> {}, holder |-> None,
     status |-> IF deferred THEN "deferred" ELSE "open"]

NoCreate == [at |-> "idle", bead |-> 0, edges |-> {}, deferred |-> FALSE]

LedgerInit ==
    /\ \E old \in OldBeads :
           /\ beads = <<Bead(old.labels, old.metadata, FALSE)>>
           /\ meant = <<[typed |-> old.typed, needs |-> {}]>>
    /\ creating = [c \in Callers |-> NoCreate]
    /\ writes = MaxWrites
    /\ ledgerFaults = MaxLedgerFaults

-----------------------------------------------------------------------------
(* The listings.                                                           *)

Ids == 1..Len(beads)
IsOpen(i) == beads[i].status # "closed"
Blocked(i) == \E n \in beads[i].needs : IsOpen(n)

\* ready, list_active, list_deferred and list_closed: bd filters by label, not by kind.
Labelled(kind) == {i \in Ids : kind \in beads[i].labels}
Ready(kind) == {i \in Labelled(kind) : beads[i].status = "open" /\ ~Blocked(i)}
ListActive(kind) == {i \in Labelled(kind) : beads[i].status \in {"open", "in_progress"}}
ListDeferred(kind) == {i \in Labelled(kind) : beads[i].status = "deferred"}
ListClosed(kind) == {i \in Labelled(kind) : beads[i].status = "closed"}

-----------------------------------------------------------------------------
(* create.                                                                 *)

\* The NewBeads of the roles: a child has its epic as parent, a task may need tasks, a plan
\* request that waits for other rigs is deferred.
NewBeads(kind) ==
    LET new(parent, meta, needs, deferred) ==
            [kind |-> kind, parent |-> parent, meta |-> meta, needs |-> needs,
             deferred |-> deferred]
        ofKind(k) == {i \in Ids : meant[i].typed.kind = k}
    IN  CASE kind = "epic"         -> {new({}, {}, {}, FALSE)}
          [] kind = "merge"        -> {new({}, {Branch}, {}, FALSE)}
          [] kind = "plan_request" -> {new({}, {{"rig/epic"}}, {}, TRUE)}
          [] kind = "verify"       -> {new({e}, {}, {}, FALSE) : e \in ofKind("epic")}
          [] kind = "task"         ->
                 {new({e}, {NewTask}, needs, FALSE) :
                      e \in ofKind("epic"), needs \in {{}} \cup {{t} : t \in ofKind("task")}}

\* Mutant of Labels: a child inherits.
LabelsInherited(new) ==
    {new.kind} \cup UNION {beads[e].labels : e \in new.parent}

\* Children are created with --no-inherit-labels.
Labels(new) == {new.kind}

\* A bead with needs or one that is to stay deferred is hidden from `bd ready`.
Create(c, new) ==
    /\ creating[c] = NoCreate
    /\ Len(beads) < MaxBeads
    /\ beads' = Append(beads, Bead(Labels(new),
                                   Wrapped(new.kind, new.meta),
                                   new.needs # {} \/ new.deferred))
    /\ meant' = Append(meant, [typed |-> Typed(new.kind, new.meta), needs |-> new.needs])
    /\ creating' = IF new.needs = {} THEN creating
                   ELSE [creating EXCEPT ![c] = [at |-> "edges", bead |-> Len(beads) + 1,
                                                 edges |-> new.needs, deferred |-> new.deferred]]
    /\ UNCHANGED <<writes, ledgerFaults>>

WithNeed(b, n) == [b EXCEPT !.needs = @ \cup {n}]
WithStatus(b, status) == [b EXCEPT !.status = status]

\* What a create has left to do once it has written the edge to n.
Left(made, n) ==
    LET edges == made.edges \ {n} IN
    IF edges # {} THEN [made EXCEPT !.edges = edges]
    ELSE IF made.deferred THEN NoCreate
    ELSE [made EXCEPT !.at = "undefer", !.edges = edges]

\* add_needs, one after the other.
Edge(c) ==
    /\ creating[c].at = "edges"
    /\ \E n \in creating[c].edges :
           LET i == creating[c].bead IN
           /\ beads' = [beads EXCEPT ![i] = WithNeed(beads[i], n)]
           /\ creating' = [creating EXCEPT ![c] = Left(creating[c], n)]
    /\ UNCHANGED <<meant, writes, ledgerFaults>>

Undefer(c) ==
    /\ creating[c].at = "undefer"
    /\ LET i == creating[c].bead IN
       beads' = [beads EXCEPT ![i] = WithStatus(beads[i], "open")]
    /\ creating' = [creating EXCEPT ![c] = NoCreate]
    /\ UNCHANGED <<meant, writes, ledgerFaults>>

\* A command of the call fails, before it took effect or after.
CreateBreaksOff(c) ==
    /\ creating[c] # NoCreate
    /\ ledgerFaults > 0
    /\ ledgerFaults' = ledgerFaults - 1
    /\ creating' = [creating EXCEPT ![c] = NoCreate]
    /\ LET i == creating[c].bead IN
       \/ beads' = beads
       \/ /\ creating[c].at = "edges"
          /\ \E n \in creating[c].edges :
                 beads' = [beads EXCEPT ![i] = WithNeed(beads[i], n)]
       \/ /\ creating[c].at = "undefer"
          /\ beads' = [beads EXCEPT ![i] = WithStatus(beads[i], "open")]
    /\ UNCHANGED <<meant, writes>>

-----------------------------------------------------------------------------
(* The calls that are one command each.  A refused one changes nothing.    *)

IsKind(i, kind) == meant[i].typed.kind = kind

\* Others write a bead once its creator is done with it.
Writes(i, b) ==
    /\ writes > 0 /\ writes' = writes - 1
    /\ \A c \in Callers : creating[c].bead # i
    /\ beads' = [beads EXCEPT ![i] = b]
    /\ UNCHANGED <<creating, ledgerFaults>>

\* --metadata replaces the object.
SetsMetadata(i, kind, m) ==
    /\ IsKind(i, kind)
    /\ Writes(i, [beads[i] EXCEPT !.metadata = Wrapped(kind, {m})])
    /\ meant' = [meant EXCEPT ![i] = [typed |-> Typed(kind, {m}), needs |-> meant[i].needs]]

SetMeta(i) == \E m \in {NewTask, Moved} : SetsMetadata(i, "task", m)
SetVerify(i) == SetsMetadata(i, "verify", Checks)
SetNeeds(i) == SetsMetadata(i, "plan_request", {})

\* materialize: the verify bead needs its task.
AddNeeds(i, n) ==
    /\ IsKind(i, "verify") /\ IsKind(n, "task")
    /\ Writes(i, WithNeed(beads[i], n))
    /\ meant' = [meant EXCEPT ![i] = WithNeed(meant[i], n)]

\* The request's needs are decided.
ReleaseRequest(i) ==
    /\ IsKind(i, "plan_request")
    /\ Writes(i, WithStatus(beads[i], "open"))
    /\ UNCHANGED meant

Label(i) ==
    /\ IsKind(i, "epic") \/ IsKind(i, "plan_request")
    /\ Writes(i, [beads[i] EXCEPT !.labels = @ \cup {Canceled}])
    /\ UNCHANGED meant

\* A bead someone has taken is refused: the race is lost, not the call.
TryClaim(c, i) ==
    /\ IsKind(i, "task") /\ i \in Ready("task") /\ beads[i].holder = None
    /\ Writes(i, [beads[i] EXCEPT !.holder = c, !.status = "in_progress"])
    /\ UNCHANGED meant

Unclaim(i) ==
    /\ beads[i].holder # None
    /\ Writes(i, [beads[i] EXCEPT !.holder = None, !.status = "open"])
    /\ UNCHANGED meant

\* parse_blocked: bd closes no bead that needs an open one.
Close(i) ==
    /\ IsOpen(i) /\ ~Blocked(i)
    /\ Writes(i, WithStatus(beads[i], "closed"))
    /\ UNCHANGED meant

-----------------------------------------------------------------------------
LedgerNext ==
    \/ \E c \in Callers :
           \/ \E kind \in Kinds : \E new \in NewBeads(kind) : Create(c, new)
           \/ Edge(c) \/ Undefer(c) \/ CreateBreaksOff(c)
           \/ \E i \in Ids : TryClaim(c, i)
    \/ \E i \in Ids :
           \/ SetMeta(i) \/ SetVerify(i) \/ SetNeeds(i)
           \/ \E n \in Ids : AddNeeds(i, n)
           \/ ReleaseRequest(i) \/ Label(i) \/ Unclaim(i) \/ Close(i)

LedgerSpec == LedgerInit /\ [][LedgerNext]_ledgerVars

-----------------------------------------------------------------------------
(* Properties.                                                             *)

\* The ledger is of this shape (RawBead, BeadStatus).
LedgerTypeOK ==
    /\ Len(meant) = Len(beads) /\ Len(beads) <= MaxBeads
    /\ \A i \in Ids :
           /\ beads[i].labels \subseteq Kinds \cup {Canceled}
           /\ DOMAIN beads[i].metadata \subseteq MetaKeys
           /\ beads[i].needs \subseteq Ids
           /\ beads[i].holder \in Callers \cup {None}
           /\ beads[i].status \in {"open", "in_progress", "deferred", "closed"}
    /\ \A c \in Callers : creating[c].bead \in Ids \cup {0} /\ creating[c].edges \subseteq Ids
    /\ writes \in 0..MaxWrites /\ ledgerFaults \in 0..MaxLedgerFaults

\* The ledger reads as it was meant: whoever wrote a bead last, in whatever release, its reader
\* gets what the writer gave and the kind its creator gave; a listing by kind holds beads of
\* that kind only; and no bead is ready, whichever command of its creation failed, while a bead
\* it was created to need is open (create, set_meta, TryFrom<RawBead>).  A creation left broken
\* off for a day, when `--defer +1d` lapses, is beyond this.
ReadsAsMeant ==
    \A i \in Ids :
        /\ Read(beads[i]) = meant[i].typed
        /\ \A k \in Kinds :
               i \in ListActive(k) \cup ListDeferred(k) \cup ListClosed(k)
                   => meant[i].typed.kind = k
        /\ i \in Ready("task") => \A n \in meant[i].needs : ~IsOpen(n)
=============================================================================
