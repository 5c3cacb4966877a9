--------------------------- MODULE ConfigRuntime ---------------------------
(***************************************************************************)
(* The configuration life cycle of the proxy: the revisions in RocksDB,    *)
(* the admin requests that write them, the hot-apply path, the runtime     *)
(* loop that reloads a revision and the automatic rollback of a revision   *)
(* that does not start.                                                    *)
(*                                                                         *)
(* A configuration is abstracted to the two parts the code tells apart:    *)
(* its topology (everything that needs a reload: binds, protocols, stopped *)
(* listeners, global settings) and its rules (the listener-internal        *)
(* settings that can be swapped hot).  Unbindable topologies are those     *)
(* whose sockets cannot be claimed on this machine, Unusable rules those   *)
(* that validate() accepts and the backend registration refuses, Accounted *)
(* topologies those with accounting enabled.                               *)
(*                                                                         *)
(* An admin request is a task of the runtime revision that serves it.  Its *)
(* database write runs on a blocking thread, which cancelling the task     *)
(* does not stop: such a write is called detached.                         *)
(***************************************************************************)
EXTENDS Naturals, FiniteSets

CONSTANTS Topologies, Rules, Unbindable, Unusable, Accounted, Admins,
          InitialTopology, InitialRules, MaxRevision, Exports, Faults, None

Config == [topo: Topologies, rules: Rules]

Stored == [rev: Nat, cfg: Config]

ASSUME ConstantsAssumption ==
    /\ InitialTopology \in Topologies
    /\ InitialRules \in Rules
    /\ Unbindable \subseteq Topologies
    /\ Unusable \subseteq Rules
    /\ Accounted \subseteq Topologies
    /\ None \notin Admins
    /\ None \notin Stored
    /\ MaxRevision \in Nat            \* no write starts at or above this revision
    /\ Exports \subseteq Nat          \* revisions an export of the database exists of
    /\ Faults \subseteq {"ctrl-c", "kill"}

VARIABLES
    db,        \* the current configuration in RocksDB, with its revision
    history,   \* the configuration history: revision -> configuration
    req,       \* the admin requests in flight
    writer,    \* holder of the config_write mutex of the serving revision
    pc,        \* where the runtime loop is
    stored,    \* the revision the runtime loop runs, or tries to run
    live,      \* runtime_live: the configuration connections are served with
    lastGood,  \* runtime_live: the rollback target
    timer,     \* a configuration_changed task is in its 250 ms sleep
    permit,    \* the permit of the serving revision's reload Notify
    accounting,\* the process-wide accounting sender has been set
    aux        \* history of the run, read by no action: served (this process has
               \* served), proven (the topologies it has bound), working (the
               \* configuration last shown to work), unproven (a hot apply was
               \* recorded for a topology never bound), stray (a detached write
               \* landed since the store was loaded), foreign (some write ever
               \* landed outside the mutex)

storeVars == <<db, history>>
runVars == <<pc, stored, accounting>>
liveVars == <<live, lastGood>>
wakeVars == <<timer, permit>>
adminVars == <<req, writer>>
vars == <<storeVars, adminVars, runVars, liveVars, wakeVars, aux>>

InitialConfig == [topo |-> InitialTopology, rules |-> InitialRules]

\* No revision yet: what the fields of a request hold before they are set.
Unset == [rev |-> 0, cfg |-> InitialConfig]

\* A request: the configuration its author had read (seen), the one it found
\* in the store under the mutex (base), and the one it saves.
NoRequest == [stage |-> "idle", kind |-> "put", seen |-> Unset, base |-> Unset, save |-> Unset]

Init ==
    /\ db = [rev |-> 1, cfg |-> InitialConfig]
    /\ history = [r \in {1} |-> InitialConfig]
    /\ req = [a \in Admins |-> NoRequest]
    /\ writer = None
    /\ pc = "apply"
    /\ stored = db
    /\ live = InitialConfig
    /\ lastGood = None
    /\ timer = FALSE
    /\ permit = FALSE
    /\ accounting = FALSE
    /\ aux = [served |-> FALSE, proven |-> {}, working |-> InitialConfig,
              foreign |-> FALSE, stray |-> FALSE, unproven |-> FALSE]

-----------------------------------------------------------------------------
(* The admin API. *)

\* GET of the configuration: the admin sees it and its revision.
GetConfig(a) ==
    /\ pc = "serving"
    /\ req[a].stage \in {"idle", "editing"}
    /\ req' = [req EXCEPT ![a] = [NoRequest EXCEPT !.stage = "editing", !.seen = db]]
    /\ UNCHANGED <<storeVars, writer, runVars, liveVars, wakeVars, aux>>

\* What every configuration write begins with: take the mutex of the serving
\* revision, load the current configuration, decide what to save.
Begin(a, from, kind, cfg) ==
    /\ pc = "serving"
    /\ writer = None
    /\ req[a].stage = from
    /\ db.rev < MaxRevision
    /\ writer' = a
    /\ req' = [req EXCEPT ![a] = [@ EXCEPT !.stage = "read", !.kind = kind, !.base = db,
                                         !.save = [rev |-> 0, cfg |-> cfg]]]
    /\ UNCHANGED <<storeVars, runVars, liveVars, wakeVars, aux>>

\* Mutant: the revision of the request is not compared.
PutConfigUnchecked(a, cfg) == Begin(a, "editing", "put", cfg)

\* PUT: refused unless it is based on the current revision.
PutConfig(a, cfg) ==
    /\ req[a].seen.rev = db.rev
    /\ Begin(a, "editing", "put", cfg)

\* Start or stop a listener: an edit of the topology found in the store.
ListenerOperation(a, topo) ==
    Begin(a, "idle", "edit", [db.cfg EXCEPT !.topo = topo])

\* Roll back to a revision of the history.  It saves on its own task without
\* an await, so a reload cannot stop it there either.
RollbackConfig(a, r) ==
    /\ r \in DOMAIN history
    /\ Begin(a, "idle", "edit", history[r])

\* save_config on its blocking thread, first half: read the revision counter.
SaveRead(a) ==
    /\ req[a].stage \in {"read", "detached read"}
    /\ req' = [req EXCEPT ![a].save.rev = db.rev + 1,
                          ![a].stage = IF @ = "read" THEN "write" ELSE "detached write"]
    /\ UNCHANGED <<storeVars, writer, runVars, liveVars, wakeVars, aux>>

\* The history with one more revision in it.
Recorded(s) ==
    [r \in DOMAIN history \cup {s.rev} |-> IF r = s.rev THEN s.cfg ELSE history[r]]

\* Second half: write the configuration, its history entry and the revision
\* in one batch.
SaveWrite(a) ==
    /\ req[a].stage \in {"write", "detached write"}
    /\ db' = req[a].save
    /\ history' = Recorded(req[a].save)
    /\ req' = [req EXCEPT ![a] = IF @.stage = "write" THEN [@ EXCEPT !.stage = "saved"]
                                 ELSE NoRequest]
    /\ aux' = [aux EXCEPT !.foreign = @ \/ req[a].stage = "detached write",
                          !.stray = @ \/ req[a].stage = "detached write"]
    /\ UNCHANGED <<writer, runVars, liveVars, wakeVars>>

Done(a) ==
    /\ req' = [req EXCEPT ![a] = NoRequest]
    /\ writer' = None

\* Mutant: nobody is notified of the change.
ConfigurationChangedIgnored == UNCHANGED <<timer, permit>>

\* configuration_changed: a task that notifies the runtime after 250 ms.
ConfigurationChanged == timer' = TRUE /\ UNCHANGED permit

listener_settings_only(old, new) == old.topo = new.topo

\* The saved request asks for a reload.
ApplyByReload(a) ==
    /\ req[a].stage = "saved"
    /\ \/ req[a].kind # "put"
       \/ ~listener_settings_only(req[a].base.cfg, req[a].save.cfg)
    /\ ConfigurationChanged
    /\ Done(a)
    /\ UNCHANGED <<storeVars, runVars, liveVars, aux>>

\* The saved request only changes rules: swap the live configuration.
ApplyHot(a) ==
    /\ req[a].stage = "saved"
    /\ req[a].kind = "put"
    /\ listener_settings_only(req[a].base.cfg, req[a].save.cfg)
    /\ live' = req[a].save.cfg
    /\ req' = [req EXCEPT ![a].stage = "hot"]
    /\ UNCHANGED <<storeVars, writer, runVars, lastGood, wakeVars, aux>>

\* Mutants: the last caller wins; the slot is never filled.
StoreLastGoodAlways(s) == lastGood' = s
StoreLastGoodNever(s) == UNCHANGED lastGood

\* Monotonic by revision.
StoreLastGood(s) ==
    lastGood' = IF lastGood # None /\ lastGood.rev >= s.rev THEN lastGood ELSE s

\* The backends of the new rules are registered: the revision is recorded as
\* good, or a reload is asked for.
FinishHot(a) ==
    LET saved == req[a].save IN
    /\ req[a].stage = "hot"
    /\ \/ /\ saved.cfg.rules \in Unusable
          /\ ConfigurationChanged
          /\ UNCHANGED <<lastGood, aux>>
       \/ /\ saved.cfg.rules \notin Unusable
          /\ StoreLastGood(saved)
          /\ aux' = [aux EXCEPT !.working = saved.cfg,
                                !.unproven = @ \/ saved.cfg.topo \notin aux.proven]
          /\ UNCHANGED wakeVars
    /\ Done(a)
    /\ UNCHANGED <<storeVars, runVars, live>>

\* A managed certificate is saved or deleted, under the mutex: a reload without
\* a revision.
CertificateChanged ==
    /\ pc = "serving"
    /\ writer = None
    /\ ConfigurationChanged
    /\ UNCHANGED <<storeVars, adminVars, runVars, liveVars, aux>>

\* Import of a database export of this system, taken when revision r was
\* current.  It does not take config_write.
ImportDatabase(r, clear) ==
    /\ pc = "serving"
    /\ r \in Exports \cap DOMAIN history
    /\ db' = [rev |-> r, cfg |-> history[r]]
    /\ history' = IF clear THEN [i \in {i \in DOMAIN history : i <= r} |-> history[i]] ELSE history
    /\ ConfigurationChanged
    /\ aux' = [aux EXCEPT !.foreign = TRUE]
    /\ UNCHANGED <<adminVars, runVars, liveVars>>

-----------------------------------------------------------------------------
(* The runtime loop. *)

\* Mutant: the notification reaches nobody.
TimerFiresUnheard ==
    /\ timer
    /\ timer' = FALSE
    /\ UNCHANGED <<storeVars, adminVars, runVars, liveVars, permit, aux>>

\* The 250 ms are over: notify_one leaves a permit if nobody waits.
TimerFires ==
    /\ timer
    /\ timer' = FALSE
    /\ permit' = TRUE
    /\ UNCHANGED <<storeVars, adminVars, runVars, liveVars, aux>>

Startable(cfg) ==
    /\ cfg.topo \in Accounted => ~accounting
    /\ cfg.rules \notin Unusable
    /\ cfg.topo \notin Unbindable

\* run_revision up to the point where its listeners are spawned.  The live
\* configuration is swapped before anything can fail.
RunRevision ==
    /\ pc = "apply"
    /\ live' = stored.cfg
    /\ accounting' = (accounting \/ stored.cfg.topo \in Accounted)
    /\ pc' = IF Startable(stored.cfg) THEN "serving" ELSE "failed"
    /\ aux' = IF Startable(stored.cfg)
              THEN [aux EXCEPT !.served = TRUE, !.proven = @ \cup {stored.cfg.topo},
                               !.working = stored.cfg]
              ELSE aux
    /\ timer' = FALSE
    /\ permit' = FALSE
    /\ UNCHANGED <<storeVars, adminVars, stored, lastGood>>

\* The tasks of the serving revision are dropped; a write that has reached
\* its blocking thread goes on without them, and an admin keeps the page that
\* shows the configuration.
Cancelled(q) ==
    CASE q.stage = "read" -> [q EXCEPT !.stage = "detached read"]
      [] q.stage = "write" -> [q EXCEPT !.stage = "detached write"]
      [] q.stage \in {"saved", "hot"} -> NoRequest
      [] OTHER -> q

\* The process and all its threads are gone; only the admin's page stays.
Dead(q) == IF q.stage = "editing" THEN q ELSE NoRequest

Stop(next) ==
    /\ pc = "serving"
    /\ pc' = next
    /\ req' = [a \in Admins |-> Cancelled(req[a])]
    /\ writer' = None
    /\ permit' = FALSE
    /\ UNCHANGED <<storeVars, stored, accounting, liveVars, timer, aux>>

\* The reload notification wakes run_revision, which cancels its tasks.
Reload == permit /\ Stop("stopped")

CtrlC == "ctrl-c" \in Faults /\ Stop("exited")

\* The revision that was served is good; run the one in the store.
LoadNext ==
    /\ pc = "stopped"
    /\ StoreLastGood(stored)
    /\ stored' = db
    /\ pc' = "apply"
    /\ aux' = [aux EXCEPT !.stray = FALSE]
    /\ UNCHANGED <<storeVars, adminVars, accounting, live, wakeVars>>

\* Mutant: the failed revision is tried again.
TakeLastGoodRetries ==
    /\ pc = "failed"
    /\ pc' = "apply"
    /\ UNCHANGED <<storeVars, adminVars, stored, accounting, liveVars, wakeVars, aux>>

\* A revision did not start: take the rollback target, or give up.
TakeLastGood ==
    /\ pc = "failed"
    /\ IF lastGood = None
       THEN pc' = "crashed" /\ UNCHANGED stored
       ELSE pc' = "rollback read" /\ stored' = [rev |-> 0, cfg |-> lastGood.cfg]
    /\ lastGood' = None
    /\ UNCHANGED <<storeVars, adminVars, accounting, live, wakeVars, aux>>

RollbackRead ==
    /\ pc = "rollback read"
    /\ stored' = [stored EXCEPT !.rev = db.rev + 1]
    /\ pc' = "rollback write"
    /\ UNCHANGED <<storeVars, adminVars, accounting, liveVars, wakeVars, aux>>

\* The rollback is saved as a new revision and run.
RollbackWrite ==
    /\ pc = "rollback write"
    /\ db' = stored
    /\ history' = Recorded(stored)
    /\ pc' = "apply"
    /\ UNCHANGED <<adminVars, stored, accounting, liveVars, wakeVars, aux>>

\* The process is killed: every thread dies with it, RocksDB keeps the batches
\* that were written.
Kill ==
    /\ "kill" \in Faults
    /\ pc \notin {"exited", "crashed"}
    /\ pc' = "exited"
    /\ req' = [a \in Admins |-> Dead(req[a])]
    /\ writer' = None
    /\ UNCHANGED <<storeVars, stored, accounting, liveVars, wakeVars, aux>>

\* The process is started again and runs what is in the store.
Restart ==
    /\ pc \in {"exited", "crashed"}
    /\ pc' = "apply"
    /\ stored' = db
    /\ req' = [a \in Admins |-> Dead(req[a])]
    /\ lastGood' = None
    /\ accounting' = FALSE
    /\ aux' = [aux EXCEPT !.served = FALSE, !.proven = {}, !.stray = FALSE, !.unproven = FALSE]
    /\ UNCHANGED <<storeVars, writer, live, wakeVars>>

-----------------------------------------------------------------------------
AdminStart ==
    \/ \E a \in Admins :
        \/ GetConfig(a)
        \/ \E cfg \in Config : PutConfig(a, cfg)
        \/ \E topo \in Topologies : ListenerOperation(a, topo)
        \/ \E r \in DOMAIN history : RollbackConfig(a, r)
    \/ CertificateChanged
    \/ \E r \in DOMAIN history, clear \in BOOLEAN : ImportDatabase(r, clear)

AdminStep ==
    \E a \in Admins : SaveRead(a) \/ SaveWrite(a) \/ ApplyByReload(a) \/ ApplyHot(a) \/ FinishHot(a)

RuntimeStep ==
    \/ RunRevision \/ Reload \/ LoadNext \/ TakeLastGood \/ RollbackRead \/ RollbackWrite

Next == AdminStart \/ AdminStep \/ TimerFires \/ RuntimeStep \/ CtrlC \/ Kill \/ Restart

\* The executor polls the runtime loop when it can run, and a timer expires.
\* Admins, signals and blocking threads owe nothing.
Fairness ==
    /\ WF_vars(RuntimeStep)
    /\ WF_vars(TimerFires)

Spec == Init /\ [][Next]_vars /\ Fairness

-----------------------------------------------------------------------------
(* Properties. *)

Stages == {"idle", "editing", "read", "write", "saved", "hot", "detached read", "detached write"}

Request == [stage: Stages, kind: {"put", "edit"}, seen: Stored, base: Stored, save: Stored]

StoreType ==
    /\ db \in Stored
    /\ DOMAIN history \subseteq Nat
    /\ \A r \in DOMAIN history : history[r] \in Config
    /\ db.rev \in DOMAIN history /\ history[db.rev] = db.cfg

AdminType ==
    /\ req \in [Admins -> Request]
    /\ writer \in Admins \cup {None}

RunType ==
    /\ pc \in {"apply", "serving", "stopped", "failed", "rollback read", "rollback write",
               "exited", "crashed"}
    /\ stored \in Stored
    /\ live \in Config
    /\ lastGood \in Stored \cup {None}

WakeType == timer \in BOOLEAN /\ permit \in BOOLEAN /\ accounting \in BOOLEAN

AuxType ==
    aux \in [served: BOOLEAN, proven: SUBSET Topologies, working: Config,
             foreign: BOOLEAN, stray: BOOLEAN, unproven: BOOLEAN]

\* Every variable stays in its type, and the history holds the revision that
\* is current (save_config writes both in one batch).
TypeOK == StoreType /\ AdminType /\ RunType /\ WakeType /\ AuxType

Held == {"read", "write", "saved", "hot"}

\* The config_write mutex: a request that is not detached holds it from its
\* first read of the store to its answer, so there is at most one; a reload
\* leaves none behind.
MutexHeld ==
    /\ \A a \in Admins : req[a].stage \in Held <=> writer = a
    /\ writer # None => pc = "serving"

\* put_config's revision check and mutex: a PUT only ever replaces the very
\* configuration its author had read.  Writes that take no part in the mutex
\* (a database import, a detached write) are the exception, see README.
NoLostUpdate ==
    [][\A a \in Admins :
         req[a].stage = "write" /\ req[a].kind = "put" /\ req'[a].stage = "saved" /\ ~aux.foreign
            => db = req[a].seen]_vars

Quiescent ==
    /\ pc = "serving" /\ ~timer /\ ~permit
    /\ \A a \in Admins : req[a].stage \in {"idle", "editing"}

\* Once every request is answered and no reload is pending, the proxy serves
\* the configuration the store holds, unless a detached write landed since the
\* runtime loaded it.
QuiescentAgreement == Quiescent /\ ~aux.stray => live = db.cfg

\* The rollback takes the configuration most recently proven to work, by a
\* reload or by a hot apply.
RollbackToLatestWorking ==
    pc = "failed" /\ ~aux.foreign /\ lastGood # None => lastGood.cfg = aux.working

\* A process that has served never ends on a revision that fails to start,
\* unless a hot apply recorded a revision whose topology had never been bound.
ServiceSurvives == pc = "crashed" /\ aux.served => aux.unproven

\* The loop of run: failing revisions and rollbacks do not alternate forever.
RuntimeSettles == []<>(pc \in {"serving", "exited", "crashed"})

\* A reload asked for while a revision is serving ends that revision.
ReloadHappens == (pc = "serving" /\ timer) ~> pc # "serving"

-----------------------------------------------------------------------------
-----------------------------------------------------------------------------
(* The inductive invariants behind the safety properties, see            *)
(* ConfigRuntimeProofs.                                                  *)

\* A revision of the store's past, or the very one it holds.
AtMostDb(s) == s.rev <= db.rev /\ (s.rev = db.rev => s = db)

\* The mutex keeps the store still under the request that holds it.
FreshRequest(a) ==
    /\ AtMostDb(req[a].seen)
    /\ req[a].stage \in {"read", "write"} /\ req[a].kind = "put" => req[a].seen = db
    /\ req[a].stage = "write" => req[a].save.rev = db.rev + 1
    /\ req[a].stage \in {"saved", "hot"} => req[a].save = db

FreshRun ==
    /\ pc = "apply" => stored = db
    /\ pc \in {"serving", "stopped"} => AtMostDb(stored)
    /\ pc = "rollback write" => stored.rev = db.rev + 1
    /\ lastGood # None => AtMostDb(lastGood)

\* Without foreign writes a revision number names one configuration, whoever
\* holds it.
RevisionInv ==
    ~aux.foreign => db.rev >= 1 /\ (\A a \in Admins : FreshRequest(a)) /\ FreshRun

\* What has been shown to work is in the rollback slot, or is being served.
WorkingInv ==
    ~aux.foreign =>
        /\ pc \in {"serving", "stopped"} =>
            IF lastGood # None /\ lastGood.rev >= stored.rev THEN lastGood.cfg = aux.working
                                                            ELSE stored.cfg = aux.working
        /\ pc \in {"apply", "failed"} /\ lastGood # None => lastGood.cfg = aux.working
        /\ pc \in {"rollback read", "rollback write"} => lastGood = None

\* A change of the store is on its way to the live configuration.
AgreementInv ==
    ~aux.stray =>
        /\ pc = "serving" /\ ~timer /\ ~permit /\ live # db.cfg =>
            \E a \in Admins : req[a].stage = "saved"
        /\ \A a \in Admins : req[a].stage \in {"saved", "hot"} =>
            req[a].save.cfg = db.cfg \/ timer \/ permit
        /\ pc = "apply" => stored.cfg = db.cfg

\* A revision that can start.
Sound(cfg) == cfg.topo \in aux.proven /\ cfg.rules \notin Unusable

\* The rollback slot is not empty when it is needed, and holds what can start.
SurvivalInv ==
    /\ aux.proven \cap Unbindable = {}
    /\ pc \in {"serving", "stopped"} => aux.served /\ Sound(stored.cfg)
    /\ ~aux.unproven =>
        /\ lastGood # None => Sound(lastGood.cfg)
        /\ aux.served /\ pc = "apply" => lastGood # None \/ Sound(stored.cfg)
        /\ aux.served /\ pc = "failed" => lastGood # None
        /\ pc \in {"rollback read", "rollback write"} => Sound(stored.cfg)
        /\ pc = "crashed" => ~aux.served
=============================================================================
