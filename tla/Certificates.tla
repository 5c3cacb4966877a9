---------------------------- MODULE Certificates ----------------------------
(***************************************************************************)
(* Managed certificates: their rows in RocksDB, the renewal scheduler and  *)
(* its backend, the SNI cache that serves them, automatic registration,    *)
(* the admin operations on them and the retention task.                    *)
(*                                                                         *)
(* A certificate is identified by its one domain, so the domain index is   *)
(* the identity and is left out.  Generations are numbered in the order    *)
(* they are issued; 0 stands for none.  A renewal row keeps what decides   *)
(* whether a certificate is due: its retry gate (a local backoff or one    *)
(* the CA asked for) and whether the CA's renewal information (ARI) says   *)
(* that it is time.                                                        *)
(*                                                                         *)
(* Every database write of a task runs on a blocking thread: if the task   *)
(* is cancelled or times out while it waits for it, the write is detached  *)
(* and still lands.  RocksDB batches are atomic; a read followed by a      *)
(* batch is not.                                                           *)
(***************************************************************************)
EXTENDS Naturals, FiniteSets

CONSTANTS Certs, Stored, Routed, Providers, Registrars, MaxGen, MaxLate, Keep, Concurrency, PrepBudget, Ops, None

Gen == 0 .. MaxGen
Record == [enabled: BOOLEAN, provider: Providers, automatic: BOOLEAN]

\* A renewal row: its retry gate (next_attempt unset, in the past, or ahead by
\* a local backoff or by the CA's wish) and whether the ARI time has come.
Row == [gate: {"none", "passed", "backoff", "ca"}, ari: BOOLEAN]

\* The batches tasks write.
ActivateWrite(c, g) == [kind |-> "activate", cert |-> c, gen |-> g]
RowWrite(c, r) == [kind |-> "row", cert |-> c, row |-> r]
RecordWrite(c, r) == [kind |-> "record", cert |-> c, rec |-> r]
DeleteWrite(c, G) == [kind |-> "delete", cert |-> c, gens |-> G]
ClearWrite(rows) == [kind |-> "clear", rows |-> rows]

Write ==
    [kind: {"activate"}, cert: Certs, gen: Gen \ {0}]
        \cup [kind: {"row"}, cert: Certs, row: Row]
        \cup [kind: {"record"}, cert: Certs, rec: Record]
        \cup [kind: {"delete"}, cert: Certs, gens: SUBSET (Gen \ {0})]
        \cup [kind: {"clear"}, rows: [Certs -> Row \cup {None}]]

ASSUME CertificatesAssumption ==
    /\ MaxGen \in Nat             \* bound: generations issued
    /\ MaxLate \in Nat            \* bound: writes outliving their task at a time
    /\ Keep \in Nat \ {0}         \* generations the retention task keeps per certificate
    /\ Concurrency \in Nat \ {0}
    /\ PrepBudget \in Nat         \* hung CA calls that fit in the preparation deadline
    /\ Stored \subseteq Certs     \* records in the database when the process starts
    /\ Routed \subseteq Certs     \* exact hostnames of terminating routes
    /\ None \notin Certs \cup Registrars \cup Record \cup Row \cup Write \cup [Certs -> Gen]
    /\ Providers # {}
    /\ Ops \subseteq {"save", "delete", "publish", "renew", "register", "retention",
                      "ari", "fail", "timeout", "hang", "expire"}

VARIABLES
    rec,      \* managed certificate records
    gens,     \* generations stored
    active,   \* the active generation
    row,      \* renewal state rows
    gate,     \* holder of certificate_gate
    expiring, \* certificates whose active generation is in its renewal window
    issued,   \* generations issued so far
    cache,    \* the exact-SNI cache of the serving revision
    scan,     \* the scheduler: "idle", "prepare" or "renew"
    wake,     \* the permit of the scheduler's Notify
    prep,     \* the ARI refresh: certificates left, the one in progress, hung calls
    job,      \* the renewals of the scan
    detached, \* writes whose task is gone
    admin,    \* the admin requests whose write is in progress
    reload,   \* "none", "pending", or "ensure" between two revisions
    ensure,   \* ensure_automatic_certificates: domains left, the one found missing
    reg,      \* automatic registrations
    retention \* the retention task

storeVars == <<rec, gens, active, row, gate>>
schedVars == <<scan, wake, prep, job>>
adminVars == <<admin, reload, ensure>>
vars == <<storeVars, expiring, issued, cache, schedVars, detached, adminVars, reg, retention>>

FreshRow == [gate |-> "none", ari |-> FALSE]
NoJob == [stage |-> "none", provider |-> None, gen |-> 0, row |-> None, entries |-> None]
Registration == [stage: {"none", "check", "create"}, cert: Certs \cup {None}, current: BOOLEAN]
NoReg == [stage |-> "none", cert |-> None, current |-> FALSE]
NoPrep == [left |-> {}, cert |-> None, row |-> None, hung |-> 0]
NoRetention == [stage |-> "idle", left |-> {}, gens |-> [c \in Certs |-> {}], doomed |-> [c \in Certs |-> {}]]
NoEnsure == [left |-> {}, found |-> None]

\* save_certificate and delete_certificate hold config_write, so one of them
\* is in progress at a time; of publish updates and renewal requests the model
\* has one each.
Slots == {"config", "publish", "renew"}

Automatic(p) == [enabled |-> TRUE, provider |-> p, automatic |-> TRUE]

EnabledCerts == {c \in Certs : rec[c] # None /\ rec[c].enabled}

\* load_entries: what the cache serves, if it is loaded now.
Entries == [c \in Certs |-> IF c \in EnabledCerts THEN active[c] ELSE 0]

\* Mutant: a retry time that has passed still gates.
DueGated == {c \in EnabledCerts :
               /\ row[c] # None => row[c].gate = "none"
               /\ (row[c] # None /\ row[c].ari) \/ active[c] = 0 \/ c \in expiring}

\* due_managed_certificates: enabled, past its retry gate, and asked for by the
\* CA, missing or inside its renewal window.
Due == {c \in EnabledCerts :
          /\ row[c] # None => row[c].gate \in {"none", "passed"}
          /\ \/ row[c] # None /\ row[c].ari
             \/ active[c] = 0
             \/ c \in expiring}

Init ==
    /\ \E p \in Providers : rec = [c \in Certs |-> IF c \in Stored THEN Automatic(p) ELSE None]
    /\ gens = [c \in Certs |-> {}]
    /\ active = [c \in Certs |-> 0]
    /\ row = [c \in Certs |-> None]
    /\ gate = None
    /\ expiring = {}
    /\ issued = 0
    /\ cache = [c \in Certs |-> 0]
    /\ scan = "idle"
    /\ wake = FALSE
    /\ prep = NoPrep
    /\ job = [c \in Certs |-> NoJob]
    /\ detached = {}
    /\ admin = [s \in Slots |-> None]
    /\ reload = "ensure"
    /\ ensure = [NoEnsure EXCEPT !.left = Routed]
    /\ reg = [r \in Registrars |-> NoReg]
    /\ retention = NoRetention

-----------------------------------------------------------------------------
(* The scheduler: scans. *)

BeginPreparation ==
    /\ scan' = "prepare"
    /\ prep' = [NoPrep EXCEPT !.left = EnabledCerts]

\* The loop wakes on the fixed cadence or on a request.
ScanScheduled ==
    /\ scan = "idle" /\ reload # "ensure"
    /\ BeginPreparation
    /\ UNCHANGED <<storeVars, expiring, issued, cache, wake, job, detached, adminVars, reg, retention>>

ScanRequested ==
    /\ scan = "idle" /\ reload # "ensure"
    /\ wake
    /\ wake' = FALSE
    /\ BeginPreparation
    /\ UNCHANGED <<storeVars, expiring, issued, cache, job, detached, adminVars, reg, retention>>

PrepVarsUnchanged ==
    UNCHANGED <<rec, gens, active, gate, expiring, issued, cache, wake, detached, adminVars, reg, retention>>

\* refresh_ari skips a certificate checked recently or never issued, and gives
\* up on one whose account or renewal information cannot be had.
AriSkips(c) ==
    /\ scan = "prepare"
    /\ prep.hung <= PrepBudget
    /\ prep.cert = None
    /\ c \in prep.left
    /\ prep' = [prep EXCEPT !.left = @ \ {c}]
    /\ UNCHANGED <<scan, row, job>>
    /\ PrepVarsUnchanged

\* It reads the renewal row, asks the CA, and writes the row back with the
\* answer.
AriReads(c) ==
    /\ scan = "prepare"
    /\ prep.hung <= PrepBudget
    /\ prep.cert = None
    /\ c \in prep.left
    /\ active[c] # 0
    /\ "ari" \in Ops
    /\ prep' = [prep EXCEPT !.left = @ \ {c}, !.cert = c,
                            !.row = IF row[c] = None THEN FreshRow ELSE row[c]]
    /\ UNCHANGED <<scan, row, job>>
    /\ PrepVarsUnchanged

AriSaves ==
    /\ scan = "prepare"
    /\ prep.cert # None
    /\ \E suggested \in BOOLEAN :
        row' = [row EXCEPT ![prep.cert] = [prep.row EXCEPT !.ari = suggested]]
    /\ prep' = [prep EXCEPT !.cert = None, !.row = None]
    /\ UNCHANGED <<scan, job>>
    /\ PrepVarsUnchanged

\* The call to the CA fails, or hangs until its 30 s bound.
AriFails ==
    /\ scan = "prepare"
    /\ prep.cert # None
    /\ \E hangs \in IF "hang" \in Ops THEN {0, 1} ELSE {0} :
        prep' = [prep EXCEPT !.cert = None, !.row = None, !.hung = @ + hangs]
    /\ UNCHANGED <<scan, row, job>>
    /\ PrepVarsUnchanged

\* The preparation deadline passes: the scan ends without renewing anything.
PreparationTimesOut ==
    /\ scan = "prepare"
    /\ prep.hung > PrepBudget
    /\ scan' = "idle"
    /\ prep' = NoPrep
    /\ UNCHANGED <<row, job>>
    /\ PrepVarsUnchanged

ListDue ==
    /\ scan = "prepare"
    /\ prep.left = {} /\ prep.cert = None /\ prep.hung <= PrepBudget
    /\ scan' = "renew"
    /\ prep' = NoPrep
    /\ job' = [c \in Certs |-> IF c \in Due
                               THEN [NoJob EXCEPT !.stage = "queued", !.provider = rec[c].provider]
                               ELSE NoJob]
    /\ UNCHANGED row
    /\ PrepVarsUnchanged

\* Mutant: a request made during the scan is forgotten.
ScanEndsForgetting ==
    /\ scan = "renew"
    /\ \A c \in Certs : job[c].stage = "none"
    /\ scan' = "idle"
    /\ wake' = FALSE
    /\ UNCHANGED <<prep, job, storeVars, expiring, issued, cache, detached, adminVars, reg, retention>>

ScanEnds ==
    /\ scan = "renew"
    /\ \A c \in Certs : job[c].stage = "none"
    /\ scan' = "idle"
    /\ UNCHANGED <<prep, row, job>>
    /\ PrepVarsUnchanged

-----------------------------------------------------------------------------
(* The scheduler: renewals. *)

JobVarsUnchanged == UNCHANGED <<gate, scan, wake, prep, adminVars, reg, retention>>

Goto(c, stage) == job' = [job EXCEPT ![c].stage = stage]

\* What a batch does: activate_generation stores a generation, points to it
\* and cleans the renewal row; the others replace or delete rows.
Apply(w) ==
    \/ /\ w.kind = "activate"
       /\ gens' = [gens EXCEPT ![w.cert] = @ \cup {w.gen}]
       /\ active' = [active EXCEPT ![w.cert] = w.gen]
       /\ row' = [row EXCEPT ![w.cert] = FreshRow]
       /\ expiring' = expiring \ {w.cert}
       /\ UNCHANGED rec
    \/ /\ w.kind = "row"
       /\ row' = [row EXCEPT ![w.cert] = w.row]
       /\ UNCHANGED <<rec, gens, active, expiring>>
    \/ /\ w.kind = "record"
       /\ gate = None
       /\ rec' = [rec EXCEPT ![w.cert] = w.rec]
       /\ UNCHANGED <<gens, active, row, expiring>>
    \/ /\ w.kind = "delete"
       /\ rec' = [rec EXCEPT ![w.cert] = None]
       /\ active' = [active EXCEPT ![w.cert] = 0]
       /\ row' = [row EXCEPT ![w.cert] = None]
       /\ gens' = [gens EXCEPT ![w.cert] = @ \ w.gens]
       /\ expiring' = expiring \ {w.cert}
    \/ /\ w.kind = "clear"
       /\ row' = [c \in Certs |-> IF w.rows[c] = None THEN row[c] ELSE w.rows[c]]
       /\ UNCHANGED <<rec, gens, active, expiring>>

InFlight == {c \in Certs : job[c].stage \notin {"none", "queued"}}

JobStarts(c) ==
    /\ job[c].stage = "queued"
    /\ Cardinality(InFlight) < Concurrency
    /\ Goto(c, "start")
    /\ UNCHANGED <<rec, gens, active, row, expiring, issued, cache, detached>>
    /\ JobVarsUnchanged

\* renew_inner reads the record again: it must still be there, enabled and
\* with the provider of the candidate.
JobChecks(c) ==
    /\ job[c].stage = "start"
    /\ Goto(c, IF c \in EnabledCerts /\ rec[c].provider = job[c].provider THEN "order" ELSE "refused")
    /\ UNCHANGED <<rec, gens, active, row, expiring, issued, cache, detached>>
    /\ JobVarsUnchanged

\* DNS verification, account, order, challenges, validation: the CA issues a
\* generation, or something on the way fails.
JobIssues(c) ==
    /\ job[c].stage = "order"
    /\ issued < MaxGen
    /\ issued' = issued + 1
    /\ job' = [job EXCEPT ![c].stage = "activate", ![c].gen = issued + 1]
    /\ UNCHANGED <<rec, gens, active, row, expiring, cache, detached>>
    /\ JobVarsUnchanged

JobFails(c) ==
    /\ job[c].stage = "order"
    /\ "fail" \in Ops \/ issued = MaxGen
    /\ Goto(c, "fail")
    /\ UNCHANGED <<rec, gens, active, row, expiring, issued, cache, detached>>
    /\ JobVarsUnchanged

\* activate_and_reload: activate, load every entry from the store, replace
\* the cache.
JobActivates(c) ==
    /\ job[c].stage = "activate"
    /\ Apply(ActivateWrite(c, job[c].gen))
    /\ Goto(c, "load")
    /\ UNCHANGED <<issued, cache, detached>>
    /\ JobVarsUnchanged

JobLoads(c) ==
    /\ job[c].stage = "load"
    /\ job' = [job EXCEPT ![c].stage = "install", ![c].entries = Entries]
    /\ UNCHANGED <<rec, gens, active, row, expiring, issued, cache, detached>>
    /\ JobVarsUnchanged

JobInstalls(c) ==
    /\ job[c].stage = "install"
    /\ cache' = job[c].entries
    /\ job' = [job EXCEPT ![c] = NoJob]
    /\ UNCHANGED <<rec, gens, active, row, expiring, issued, detached>>
    /\ JobVarsUnchanged

\* record_failure reads the row; a failure of the order may carry a Retry-After
\* of the CA, a refusal or a timeout does not.
JobReadsRow(c) ==
    /\ job[c].stage \in {"refused", "fail", "timedout"}
    /\ \E g \in IF job[c].stage = "fail" THEN {"backoff", "ca"} ELSE {"backoff"} :
        job' = [job EXCEPT
                  ![c].stage = IF job[c].stage = "timedout" THEN "timedsave" ELSE "failsave",
                  ![c].row = [gate |-> g, ari |-> row[c] # None /\ row[c].ari]]
    /\ UNCHANGED <<rec, gens, active, row, expiring, issued, cache, detached>>
    /\ JobVarsUnchanged

JobSavesRow(c) ==
    /\ job[c].stage \in {"failsave", "timedsave"}
    /\ Apply(RowWrite(c, job[c].row))
    /\ job' = [job EXCEPT ![c] = NoJob]
    /\ UNCHANGED <<issued, cache, detached>>
    /\ JobVarsUnchanged

\* The write a renewal is waiting for.
WriteOf(c) ==
    CASE job[c].stage = "activate" -> {ActivateWrite(c, job[c].gen)}
      [] job[c].stage \in {"failsave", "timedsave"} -> {RowWrite(c, job[c].row)}
      [] OTHER -> {}

\* The five-minute deadline passes: the renewal is dropped where it stands.
JobTimesOut(c) ==
    /\ "timeout" \in Ops
    /\ job[c].stage \in {"start", "order", "activate", "load", "install", "refused", "fail", "failsave"}
    /\ detached' = detached \cup WriteOf(c)
    /\ Cardinality(detached') <= MaxLate
    /\ job' = [job EXCEPT ![c] = [NoJob EXCEPT !.stage = "timedout"]]
    /\ UNCHANGED <<rec, gens, active, row, expiring, issued, cache>>
    /\ JobVarsUnchanged

\* A detached write lands.
Lands(w) ==
    /\ w \in detached
    /\ detached' = detached \ {w}
    /\ Apply(w)
    /\ UNCHANGED <<issued, cache, job>>
    /\ JobVarsUnchanged

JobStep(c) ==
    \/ JobStarts(c) \/ JobChecks(c) \/ JobIssues(c) \/ JobFails(c) \/ JobActivates(c)
    \/ JobLoads(c) \/ JobInstalls(c) \/ JobReadsRow(c) \/ JobSavesRow(c) \/ JobTimesOut(c)

-----------------------------------------------------------------------------
(* The admin API, served while a revision runs.  A handler reads what it   *)
(* needs and waits for its write.                                          *)

Submit(s, w) ==
    /\ reload # "ensure"
    /\ admin[s] = None
    /\ admin' = [admin EXCEPT ![s] = w]
    /\ UNCHANGED <<storeVars, expiring, issued, cache, schedVars, detached, reload, ensure, reg, retention>>

SaveCertificate(c) ==
    /\ "save" \in Ops
    /\ \E r \in Record : ~r.automatic /\ Submit("config", RecordWrite(c, r))

\* delete_managed_certificate collects the generations it finds first.
DeleteCertificate(c) ==
    /\ "delete" \in Ops
    /\ rec[c] # None
    /\ Submit("config", DeleteWrite(c, gens[c]))

\* The publish policy, not part of the model, is changed in a copy of the
\* record as it was read.
UpdatePublish(c) ==
    /\ "publish" \in Ops
    /\ rec[c] # None
    /\ Submit("publish", RecordWrite(c, rec[c]))

\* Only a gate of the CA that is still ahead is left alone.
Cleared(r) == IF r # None /\ r.gate \in {"passed", "backoff"} THEN [r EXCEPT !.gate = "none"] ELSE None

RequestRenewal ==
    /\ "renew" \in Ops
    /\ Submit("renew", ClearWrite([c \in Certs |-> Cleared(row[c])]))

\* The write returns: saving and deleting ask for a reload, the renewal request
\* for a scan.
AdminWrites(s) ==
    /\ admin[s] # None
    /\ Apply(admin[s])
    /\ admin' = [admin EXCEPT ![s] = None]
    /\ reload' = IF s = "config" THEN "pending" ELSE reload
    /\ wake' = (wake \/ s = "renew")
    /\ UNCHANGED <<gate, issued, cache, scan, prep, job, detached, ensure, reg, retention>>

-----------------------------------------------------------------------------
(* Revisions of the runtime. *)

\* The write the ARI refresh may be waiting for.
AriWrites ==
    IF prep.cert = None THEN {{}}
    ELSE {{}} \cup {{RowWrite(prep.cert, [prep.row EXCEPT !.ari = b])} : b \in BOOLEAN}

\* The tasks of the revision are cancelled: the scheduler, its renewals and the
\* admin requests; what they are writing still lands.
RevisionEnds ==
    /\ reload = "pending"
    /\ reload' = "ensure"
    /\ ensure' = [NoEnsure EXCEPT !.left = Routed]
    /\ \E ariWrite \in AriWrites :
        detached' = detached \cup ariWrite \cup (UNION {WriteOf(c) : c \in Certs})
                        \cup {admin[s] : s \in {t \in Slots : admin[t] # None}}
    /\ Cardinality(detached') <= MaxLate
    /\ scan' = "idle"
    /\ prep' = NoPrep
    /\ wake' = FALSE
    /\ job' = [c \in Certs |-> NoJob]
    /\ admin' = [s \in Slots |-> None]
    /\ reg' = [r \in Registrars |-> [reg[r] EXCEPT !.current = FALSE]]
    /\ UNCHANGED <<storeVars, expiring, issued, cache, retention>>

EnsureVarsUnchanged ==
    UNCHANGED <<gens, active, row, gate, expiring, issued, schedVars, detached, admin, reg, retention>>

\* ensure_automatic_certificates looks a domain up, then saves a record for it:
\* the look-up is not under certificate_gate.
EnsureLooks(c) ==
    /\ reload = "ensure"
    /\ ensure.found = None
    /\ c \in ensure.left
    /\ ensure' = [left |-> ensure.left \ {c}, found |-> IF rec[c] = None THEN c ELSE None]
    /\ UNCHANGED <<rec, cache, reload>>
    /\ EnsureVarsUnchanged

EnsureCreates ==
    /\ ensure.found # None
    /\ gate = None
    /\ \E p \in Providers : rec' = [rec EXCEPT ![ensure.found] = Automatic(p)]
    /\ ensure' = [ensure EXCEPT !.found = None]
    /\ UNCHANGED <<cache, reload>>
    /\ EnsureVarsUnchanged

\* A new cache is loaded and the new scheduler starts with a scan.
RevisionStarts ==
    /\ reload = "ensure"
    /\ ensure = NoEnsure
    /\ reload' = "none"
    /\ cache' = Entries
    /\ BeginPreparation
    /\ UNCHANGED <<storeVars, expiring, issued, wake, job, detached, admin, ensure, reg, retention>>

-----------------------------------------------------------------------------
(* Automatic registration.  A handshake on a terminating route finds no    *)
(* certificate and registers the domain, on a task of its own that no      *)
(* reload cancels: the look-up, the operator's check, then the creation    *)
(* under certificate_gate.                                                 *)

RegVarsUnchanged ==
    UNCHANGED <<gens, active, row, expiring, issued, cache, scan, prep, job, detached,
                adminVars, retention>>

RegistrationBegins(r, c) ==
    /\ "register" \in Ops
    /\ reload # "ensure"
    /\ reg[r].stage = "none"
    /\ rec[c] = None
    /\ reg' = [reg EXCEPT ![r] = [stage |-> "check", cert |-> c, current |-> TRUE]]
    /\ UNCHANGED <<rec, gate, wake>>
    /\ RegVarsUnchanged

RegistrationRejected(r) ==
    /\ reg[r].stage = "check"
    /\ reg' = [reg EXCEPT ![r] = NoReg]
    /\ UNCHANGED <<rec, gate, wake>>
    /\ RegVarsUnchanged

\* Mutant: the record is looked up without the gate.
RegistrationLooksUngated(r) ==
    /\ reg[r].stage = "check"
    /\ reg' = [reg EXCEPT ![r] = IF rec[reg[r].cert] # None THEN NoReg ELSE [@ EXCEPT !.stage = "create"]]
    /\ UNCHANGED <<rec, gate, wake>>
    /\ RegVarsUnchanged

RegistrationLooks(r) ==
    /\ reg[r].stage = "check"
    /\ gate = None
    /\ IF rec[reg[r].cert] # None
       THEN reg' = [reg EXCEPT ![r] = NoReg] /\ UNCHANGED gate
       ELSE reg' = [reg EXCEPT ![r].stage = "create"] /\ gate' = r
    /\ UNCHANGED <<rec, wake>>
    /\ RegVarsUnchanged

\* The scan is asked of the scheduler the handshake knew.
RegistrationCreates(r) ==
    /\ reg[r].stage = "create"
    /\ \E p \in Providers : rec' = [rec EXCEPT ![reg[r].cert] = Automatic(p)]
    /\ gate' = None
    /\ wake' = (wake \/ reg[r].current)
    /\ reg' = [reg EXCEPT ![r] = NoReg]
    /\ RegVarsUnchanged

-----------------------------------------------------------------------------
(* The retention task lists the generations, reads the active pointer of   *)
(* each certificate that has some, and deletes the surplus in one batch.   *)

RetentionVarsUnchanged ==
    UNCHANGED <<rec, active, row, gate, expiring, issued, cache, schedVars, detached, adminVars, reg>>

RetentionLists ==
    /\ "retention" \in Ops
    /\ reload # "ensure"
    /\ retention.stage = "idle"
    /\ retention' = [NoRetention EXCEPT !.stage = "decide", !.gens = gens,
                                        !.left = {c \in Certs : gens[c] # {}}]
    /\ UNCHANGED gens
    /\ RetentionVarsUnchanged

\* Mutant: the active generation counts as any other.
SurplusAny(G, a) == {g \in G : Cardinality({h \in G : h > g}) >= Keep}

\* The surplus: all but the active generation and the newest others, Keep in
\* all.
Surplus(G, a) ==
    LET others == G \ {a}
        limit == IF a # 0 THEN Keep - 1 ELSE Keep
    IN {g \in others : Cardinality({h \in others : h > g}) >= limit}

RetentionDecides(c) ==
    /\ retention.stage = "decide"
    /\ c \in retention.left
    /\ retention' = [retention EXCEPT !.left = @ \ {c},
                                      !.doomed[c] = Surplus(retention.gens[c], active[c])]
    /\ UNCHANGED gens
    /\ RetentionVarsUnchanged

RetentionDeletes ==
    /\ retention.stage = "decide"
    /\ retention.left = {}
    /\ gens' = [c \in Certs |-> gens[c] \ retention.doomed[c]]
    /\ retention' = NoRetention
    /\ RetentionVarsUnchanged

-----------------------------------------------------------------------------
(* Time. *)

TimeVarsUnchanged ==
    UNCHANGED <<rec, gens, active, gate, issued, cache, schedVars, detached, adminVars, reg, retention>>

\* An active generation comes into its renewal window.
Expire(c) ==
    /\ "expire" \in Ops
    /\ active[c] # 0
    /\ expiring' = expiring \cup {c}
    /\ UNCHANGED row
    /\ TimeVarsUnchanged

\* A retry gate passes.  Gates are at least minutes long: none passes while a
\* copy of the row is about to be written.
GatePasses(c) ==
    /\ row[c] # None
    /\ row[c].gate \in {"backoff", "ca"}
    /\ prep.cert # c
    /\ job[c].row = None
    /\ \A w \in detached : w.kind = "row" => w.cert # c
    /\ \A w \in (detached \cup {admin["renew"]}) \ {None} : w.kind = "clear" => w.rows[c] = None
    /\ row' = [row EXCEPT ![c].gate = "passed"]
    /\ UNCHANGED expiring
    /\ TimeVarsUnchanged

-----------------------------------------------------------------------------
\* The steps of a scan under way.
ScanStep ==
    \/ PreparationTimesOut \/ ListDue \/ ScanEnds \/ AriSaves \/ AriFails
    \/ \E c \in Certs : AriSkips(c) \/ AriReads(c)

RuntimeStep == RevisionEnds \/ EnsureCreates \/ RevisionStarts \/ \E c \in Certs : EnsureLooks(c)

RegistrationStep(r) ==
    RegistrationRejected(r) \/ RegistrationLooks(r) \/ RegistrationCreates(r)

Next ==
    \/ ScanScheduled
    \/ ScanRequested
    \/ ScanStep
    \/ RuntimeStep
    \/ RequestRenewal
    \/ RetentionLists
    \/ RetentionDeletes
    \/ \E c \in Certs :
        \/ JobStep(c)
        \/ SaveCertificate(c) \/ DeleteCertificate(c) \/ UpdatePublish(c)
        \/ RetentionDecides(c)
        \/ Expire(c) \/ GatePasses(c)
    \/ \E r \in Registrars : RegistrationStep(r) \/ \E c \in Certs : RegistrationBegins(r, c)
    \/ \E s \in Slots : AdminWrites(s)
    \/ \E w \in detached : Lands(w)

Spec == Init /\ [][Next]_vars

\* The tasks run, deadlines pass, blocking writes land and time goes on; select!
\* in run_loop is fair between the timer and the permit.  Of the CA nothing is
\* assumed: a renewal may fail or time out instead of issuing.
Fairness ==
    /\ WF_vars(ScanStep) /\ SF_vars(ScanRequested)
    /\ WF_vars(RuntimeStep)
    /\ \A c \in Certs : WF_vars(JobStep(c)) /\ SF_vars(GatePasses(c))
    /\ \A r \in Registrars : WF_vars(RegistrationStep(r))
    /\ \A s \in Slots : WF_vars(AdminWrites(s))
    /\ WF_vars(\E w \in detached : Lands(w))

\* No fairness for the twelve-hour timer (ScanScheduled): what must happen does
\* so without waiting for it.
PromptSpec == Spec /\ Fairness

-----------------------------------------------------------------------------
(* Properties. *)

Stages == {"none", "queued", "start", "order", "activate", "load", "install",
           "refused", "fail", "failsave", "timedout", "timedsave"}

StoreTypes ==
    /\ rec \in [Certs -> Record \cup {None}]
    /\ gens \in [Certs -> SUBSET (Gen \ {0})]
    /\ active \in [Certs -> Gen]
    /\ row \in [Certs -> Row \cup {None}]
    /\ gate \in Registrars \cup {None}
    /\ expiring \subseteq Certs
    /\ issued \in Gen
    /\ cache \in [Certs -> Gen]

Job == [stage: Stages, provider: Providers \cup {None}, gen: Gen, row: Row \cup {None},
        entries: [Certs -> Gen] \cup {None}]

SchedulerTypes ==
    /\ scan \in {"idle", "prepare", "renew"}
    /\ wake \in BOOLEAN
    /\ prep \in [left: SUBSET Certs, cert: Certs \cup {None}, row: Row \cup {None}, hung: Nat]
    /\ prep.cert # None => prep.row # None
    /\ job \in [Certs -> Job]
    /\ \A c \in Certs :
        /\ job[c].stage = "activate" => job[c].gen # 0
        /\ job[c].stage = "install" => job[c].entries # None
        /\ job[c].stage \in {"failsave", "timedsave"} => job[c].row # None

WriteTypes ==
    /\ detached \subseteq Write
    /\ admin \in [Slots -> Write \cup {None}]

TaskTypes ==
    /\ reload \in {"none", "pending", "ensure"}
    /\ ensure \in [left: SUBSET Certs, found: Certs \cup {None}]
    /\ reg \in [Registrars -> Registration]
    /\ \A r \in Registrars : reg[r].stage # "none" => reg[r].cert # None
    /\ retention \in [stage: {"idle", "decide"}, left: SUBSET Certs,
                      gens: [Certs -> SUBSET (Gen \ {0})], doomed: [Certs -> SUBSET (Gen \ {0})]]

\* The rows, the tasks and the writes in flight keep their types: in particular
\* no task writes a row, a generation or a snapshot it has not got.
TypeOK == StoreTypes /\ SchedulerTypes /\ WriteTypes /\ TaskTypes

\* The active pointer of a certificate points to a stored generation, whatever
\* the retention task, a deletion, a renewal past its deadline and a write
\* landing late do: active_generation follows the pointer and the certificate
\* would count as missing otherwise.
ActiveHasGeneration == \A c \in Certs : active[c] # 0 => active[c] \in gens[c]

\* "a runtime auto-registration can never overwrite an administrator's explicit
\* configuration for the same domain" (create_automatic_certificate_if_absent):
\* once a registration has found no record, none appears before it has
\* created its own.
RegistrationNeverOverwrites ==
    \A r \in Registrars : reg[r].stage = "create" => rec[reg[r].cert] = None

\* The renewal loop never wedges: whatever the CA does, the scan under way ends
\* (SCAN_PREPARATION_DEADLINE, DEFAULT_RENEWAL_DEADLINE).
ScanAlwaysEnds == []<>(scan = "idle")

\* A requested scan takes place, also when it is asked for during a scan ("The
\* pending permit causes an immediate scan after the current one completes",
\* request_scan) and without waiting for the timer.
ScanRequestHonoured == wake ~> (scan = "prepare" /\ ~wake)

\* Once reloads cease, and as long as scans keep getting to their renewals, a
\* certificate that stays enabled and missing or inside its renewal window is
\* attempted again and again: no failure, timeout or retry gate, its own or another certificate's,
\* takes it out of the renewals ("one slow certificate cannot block the others",
\* README).
DueIsRetried ==
    \A c \in Certs :
        /\ <>[](c \in EnabledCerts /\ (active[c] = 0 \/ c \in expiring))
        /\ <>[](reload = "none") /\ []<>(scan = "renew")
        => []<>(job[c].stage = "start")

-----------------------------------------------------------------------------
(* The inductive invariants behind the safety properties. *)

\* The generations of a certificate on their way into the store.
Arriving(c) ==
    {g \in Gen : \/ job[c].stage = "activate" /\ job[c].gen = g
                 \/ ActivateWrite(c, g) \in detached}

\* A generation arrives once: until then neither the store nor the retention
\* task's list has it, so whatever becomes active is not in a list made before.
GenerationInv(c) ==
    /\ gens[c] \cup retention.gens[c] \cup Arriving(c) \subseteq 1 .. issued
    /\ Arriving(c) \cap (gens[c] \cup retention.gens[c]) = {}
    /\ job[c].stage = "activate" => ActivateWrite(c, job[c].gen) \notin detached
    /\ retention.doomed[c] \subseteq retention.gens[c] \ {active[c]}
    /\ active[c] # 0 => active[c] \in gens[c]

StoreInv ==
    /\ \A s \in Slots : admin[s] # None => admin[s].kind # "activate"
    /\ \A c \in Certs : GenerationInv(c)

\* A registration about to create its record holds certificate_gate.
GateInv ==
    \A r \in Registrars : reg[r].stage = "create" => gate = r /\ rec[reg[r].cert] = None
=============================================================================
