-------------------------------- MODULE Apps --------------------------------
(***************************************************************************)
(* An app installed from the marketplace (marketplace/org-apps.service.ts) *)
(* and its OAuth connection (oauth/oauth.service.ts).  One row holds the   *)
(* status, the secret the app signs with, its configuration and its        *)
(* tokens; uninstalling clears all of them but the status.  Every          *)
(* operation finds the row and writes it by id, connecting and refreshing  *)
(* after a call to the provider.                                           *)
(***************************************************************************)
EXTENDS Server

CONSTANT MaxCalls   \* bound on the calls to the OAuth provider

VARIABLES
  status,      \* of the row
  held,        \* what the row holds of: secret, config, access and refresh token
  crossed,     \* whether the row was uninstalled while a write to it was under way
  revived,     \* writes of a credential or configuration to the uninstalled row
  calls        \* calls to the provider

appVars == <<status, held, crossed, revived, calls>>
vars == <<frame, appVars>>

Parts == {"secret", "config", "access", "refresh"}
Tokens == {"access", "refresh"}
RowOps == {"install", "repair", "configure", "rotate", "disable", "enable", "uninstall", "disconnect"}

TypeOK ==
  /\ frame \in [Handlers -> {Idle} \cup [op : RowOps \cup {"exchange", "connect", "renew", "renewed"}]]
  /\ status \in {"none", "INSTALLED", "DISABLED", "UNINSTALLED"}
  /\ held \subseteq Parts
  /\ crossed \in BOOLEAN
  /\ revived \in Nat
  /\ calls \in 0..MaxCalls

Init ==
  /\ ServerInit
  /\ status = "none" /\ held = {}
  /\ crossed = FALSE /\ revived = 0 /\ calls = 0

\* The row as op leaves it.
Row(op, s, parts) ==
  /\ status' = s
  /\ held' = parts
  /\ crossed' = (crossed \/ (op = "uninstall" /\ Serving("configure") \cup Serving("rotate")
                  \cup Serving("repair") \cup Serving("renew") \cup Serving("renewed") # {}))
  /\ revived' = IF op = "uninstall" THEN 0
                ELSE IF s = "UNINSTALLED" /\ ~(parts \subseteq held) THEN revived + 1 ELSE revived

-----------------------------------------------------------------------------
(* Installing and configuring.                                             *)

\* install finds no row, or one that is not installed; an installed one without a secret is
\* given one.
InstallRead(h) ==
  /\ status = "INSTALLED" => "secret" \notin held
  /\ Serve(h, [op |-> IF status = "INSTALLED" THEN "repair" ELSE "install"])
  /\ UNCHANGED appVars

InstallWrite(h) ==
  /\ At(h, "install")
  /\ Row("install", "INSTALLED", held \cup {"secret"})
  /\ Finish(h)
  /\ UNCHANGED calls

RepairWrite(h) ==
  /\ At(h, "repair")
  /\ Row("repair", status, held \cup {"secret"})
  /\ Finish(h)
  /\ UNCHANGED calls

\* getInstallOrFail has found the row; configuring wants an installed one, rotating the secret
\* one that is not uninstalled, the others any.
RowRead(h, op) ==
  /\ status # "none"
  /\ op = "configure" => status = "INSTALLED"
  /\ op = "rotate" => status # "UNINSTALLED"
  /\ Serve(h, [op |-> op])
  /\ UNCHANGED appVars

ConfigWrite(h) ==
  /\ At(h, "configure")
  /\ Row("configure", status, held \cup {"config"})
  /\ Finish(h)
  /\ UNCHANGED calls

RotateWrite(h) ==
  /\ At(h, "rotate")
  /\ Row("rotate", status, held \cup {"secret"})
  /\ Finish(h)
  /\ UNCHANGED calls

DisableWrite(h) ==
  /\ At(h, "disable")
  /\ Row("disable", "DISABLED", held)
  /\ Finish(h)
  /\ UNCHANGED calls

\* enable, of an uninstalled app too, which has no secret then.
EnableWrite(h) ==
  /\ At(h, "enable")
  /\ Row("enable", "INSTALLED", held)
  /\ Finish(h)
  /\ UNCHANGED calls

\* Mutant: uninstalling leaves the tokens.
UninstallKeepsTokens(h) ==
  /\ At(h, "uninstall")
  /\ Row("uninstall", "UNINSTALLED", held \cap Tokens)
  /\ Finish(h)
  /\ UNCHANGED calls

UninstallWrite(h) ==
  /\ At(h, "uninstall")
  /\ Row("uninstall", "UNINSTALLED", {})
  /\ Finish(h)
  /\ UNCHANGED calls

DisconnectWrite(h) ==
  /\ At(h, "disconnect")
  /\ Row("disconnect", status, held \ Tokens)
  /\ Finish(h)
  /\ UNCHANGED calls

-----------------------------------------------------------------------------
(* OAuth.                                                                  *)

\* handleCallback: the state is signed and fresh, the app published.
CallbackBegin(h) ==
  /\ calls < MaxCalls
  /\ calls' = calls + 1
  /\ Serve(h, [op |-> "exchange"])
  /\ UNCHANGED <<status, held, crossed, revived>>

\* The provider answers with an access token, perhaps with a refresh token, or refuses.
Exchange(h) ==
  /\ At(h, "exchange")
  /\ GoOn(h, [op |-> "connect"]) \/ Finish(h)
  /\ UNCHANGED appVars

\* The row, whatever its status, is installed with the tokens and a new secret; a refresh
\* token that is missing leaves the old one.
ConnectWrite(h) ==
  /\ At(h, "connect")
  /\ \E refresh \in SUBSET {"refresh"} :
       Row("connect", "INSTALLED", held \cup {"secret", "access"} \cup refresh)
  /\ Finish(h)
  /\ UNCHANGED calls

\* ensureValidAccessToken, for a row whose access token is about to expire ...
RenewRead(h) ==
  /\ calls < MaxCalls
  /\ Tokens \subseteq held
  /\ calls' = calls + 1
  /\ Serve(h, [op |-> "renew"])
  /\ UNCHANGED <<status, held, crossed, revived>>

\* ... asks the provider for a new one ...
Renew(h) ==
  /\ At(h, "renew")
  /\ GoOn(h, [op |-> "renewed"]) \/ Finish(h)
  /\ UNCHANGED appVars

\* ... and stores it.
RenewWrite(h) ==
  /\ At(h, "renewed")
  /\ Row("renewed", status, held \cup {"access"})
  /\ Finish(h)
  /\ UNCHANGED calls

Lost(h) ==
  /\ Drop(h)
  /\ UNCHANGED appVars

Next ==
  \E h \in Handlers :
    \/ InstallRead(h) \/ InstallWrite(h) \/ RepairWrite(h)
    \/ \E op \in RowOps \ {"install", "repair"} : RowRead(h, op)
    \/ ConfigWrite(h) \/ RotateWrite(h) \/ DisableWrite(h) \/ EnableWrite(h)
    \/ UninstallWrite(h) \/ DisconnectWrite(h)
    \/ CallbackBegin(h) \/ Exchange(h) \/ ConnectWrite(h)
    \/ RenewRead(h) \/ Renew(h) \/ RenewWrite(h) \/ Lost(h)

Spec == Init /\ [][Next]_vars

-----------------------------------------------------------------------------
(* Properties.                                                             *)

(* An uninstalled app has neither a secret nor tokens nor a configuration, *)
(* unless a write to its row was under way when it was uninstalled         *)
(* (uninstall).                                                            *)
UninstalledIsBare == status = "UNINSTALLED" /\ ~crossed => held = {}

(* Only the requests that were past their look at the row when it was      *)
(* uninstalled still write a credential to it, one each; what they write   *)
(* starts no further renewal (uninstall, rotateSecret, updateConfig,       *)
(* ensureValidAccessToken).                                                *)
RevivalsBounded == revived < Cardinality(Handlers)
=============================================================================
