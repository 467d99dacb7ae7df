---------------------------- MODULE AppCommands ----------------------------
(***************************************************************************)
(* The commands an installed app sends (public-api/app-commands.service.ts)*)
(* with an idempotency key each.  The log row of a key is looked up before *)
(* the command runs and inserted after it; an app repeats a command it has *)
(* no answer to.                                                           *)
(***************************************************************************)
EXTENDS Server

CONSTANTS
  Keys,        \* idempotency keys
  RateLimit,   \* RATE_LIMIT_PER_MINUTE
  MaxCuts      \* bound on the commands of one key cut off before their log row

VARIABLES
  usable,      \* the app is installed and has a secret
  permitted,   \* the scopes of the app include that of the command
  count,       \* rateState of the installation: commands in this minute
  log,         \* of each key: no row, a success or a failure
  effects,     \* how often the command of a key took effect
  cuts         \* how often it was cut off between effect and log row

commandVars == <<usable, permitted, count, log, effects, cuts>>
vars == <<frame, commandVars>>

TypeOK ==
  /\ frame \in [Handlers -> {Idle} \cup [op : {"lookup", "run"}, key : Keys]
                            \cup [op : {"log"}, key : Keys, ok : BOOLEAN]]
  /\ usable \in BOOLEAN /\ permitted \in BOOLEAN
  /\ count \in 0..RateLimit
  /\ log \in [Keys -> {"none", "ok", "failed"}]
  /\ effects \in [Keys -> Nat]
  /\ cuts \in [Keys -> 0..MaxCuts]

Init ==
  /\ ServerInit
  /\ usable = FALSE /\ permitted = FALSE
  /\ count = 0
  /\ log = [k \in Keys |-> "none"]
  /\ effects = [k \in Keys |-> 0]
  /\ cuts = [k \in Keys |-> 0]

\* The app is installed, disabled or given other scopes, in Apps.
InstallChanges ==
  /\ usable' \in BOOLEAN /\ permitted' \in BOOLEAN
  /\ UNCHANGED <<frame, count, log, effects, cuts>>

MinutePasses ==
  /\ count > 0
  /\ count' = 0
  /\ UNCHANGED <<frame, usable, permitted, log, effects, cuts>>

\* handleCommand finds the installation; the rate is checked and counted, and the signature
\* verified, without an await between ...
CommandBegin(h, k) ==
  /\ usable
  /\ count < RateLimit
  /\ count' = count + 1
  /\ Serve(h, [op |-> "lookup", key |-> k])
  /\ UNCHANGED <<usable, permitted, log, effects, cuts>>

\* Mutant: a repeated command is not recognized.
CommandLookUpBlindly(h) ==
  /\ At(h, "lookup")
  /\ IF permitted THEN GoOn(h, [frame[h] EXCEPT !.op = "run"]) ELSE Finish(h)
  /\ UNCHANGED commandVars

\* ... a row of the key answers the command, as does a missing scope ...
CommandLookUp(h) ==
  /\ At(h, "lookup")
  /\ IF log[frame[h].key] = "none" /\ permitted THEN GoOn(h, [frame[h] EXCEPT !.op = "run"]) ELSE Finish(h)
  /\ UNCHANGED commandVars

\* ... the command runs; it may fail before or after it took effect ...
CommandRun(h) ==
  /\ At(h, "run")
  /\ \E done \in BOOLEAN, ok \in BOOLEAN :
       /\ ok => done
       /\ effects' = IF done THEN [effects EXCEPT ![frame[h].key] = @ + 1] ELSE effects
       /\ GoOn(h, [op |-> "log", key |-> frame[h].key, ok |-> ok])
  /\ UNCHANGED <<usable, permitted, count, log, cuts>>

\* ... and a row is inserted; a second one of the key violates the unique index.
CommandLog(h) ==
  /\ At(h, "log")
  /\ LET f == frame[h]
     IN  log' = IF log[f.key] = "none" THEN [log EXCEPT ![f.key] = IF f.ok THEN "ok" ELSE "failed"] ELSE log
  /\ Finish(h)
  /\ UNCHANGED <<usable, permitted, count, effects, cuts>>

Lost(h) ==
  /\ Drop(h)
  /\ IF At(h, "log")
     THEN cuts[frame[h].key] < MaxCuts /\ cuts' = [cuts EXCEPT ![frame[h].key] = @ + 1]
     ELSE UNCHANGED cuts
  /\ UNCHANGED <<usable, permitted, count, log, effects>>

Next ==
  \/ InstallChanges \/ MinutePasses
  \/ \E h \in Handlers :
       \/ \E k \in Keys : CommandBegin(h, k)
       \/ CommandLookUp(h) \/ CommandRun(h) \/ CommandLog(h) \/ Lost(h)

Spec == Init /\ [][Next]_vars

-----------------------------------------------------------------------------
(* Properties.                                                             *)

(* However often a command is sent with one key, it takes effect at most   *)
(* once for each handler, and once more for each time it was cut off before*)
(* its row was inserted (handleCommand).                                   *)
CommandsBounded ==
  \A k \in Keys : effects[k] <= Cardinality(Handlers) + cuts[k]

(* An answer from the log that says a command succeeded is the truth.      *)
LogTellsTheTruth == \A k \in Keys : log[k] = "ok" => effects[k] > 0
=============================================================================
