----------------------------- MODULE AdminCommands -----------------------------
(***************************************************************************)
(* The ThingsBoard commands deploy.sh runs, "auth secure", "entity         *)
(* provision" and "auth export-tokens", on ThingsboardClient: a command is *)
(* a list of REST calls, each tried up to max_retries + 1 times on a       *)
(* session whose token can expire and is swapped by impersonate().         *)
(* Operators may run commands side by side, and kill and repeat them.      *)
(*                                                                         *)
(* A call is a record [do, of]; what the server has is a set of facts      *)
(* <<kind, name>>.  The first element of `todo' is the call being tried.   *)
(***************************************************************************)
EXTENDS Integers, Sequences, FiniteSets, SequencesExt

CONSTANTS Operators,
          Tenants, Own,    \* cfg.tenant_name is Own
          Devices, Home,   \* Home[d] is the tenant of device d
          Turbines,        \* the devices of Own that provisioning is asked for, in order
          Rig, Subsystems, \* the assets: the rig, and a sequence of subsystems
          MaxRetries,      \* config.max_retries
          Duties,          \* Duties[o]: the commands operator o may run
          MaxFaults        \* bound: the calls lost and the tokens expired

ASSUME AdminAssumption ==
  /\ IsFiniteSet(Tenants) /\ IsFiniteSet(Devices)
  /\ Own \in Tenants /\ Home \in [Devices -> Tenants]
  /\ Turbines \in Seq({d \in Devices : Home[d] = Own})
  /\ Subsystems \in Seq(STRING) /\ Rig \in STRING \ ToSet(Subsystems)
  /\ MaxRetries \in Nat /\ MaxFaults \in Nat
  /\ Duties \in [Operators -> SUBSET {"secure", "provision", "export", "check"}]

VARIABLES there,     \* the facts of the server
          run,       \* run[o]: the command of operator o
          tokenMap,  \* the devices in device-tokens.json
          faults

vars == <<there, run, tokenMap, faults>>

\* token is config.token, inside and saved are the impersonate() block and its `previous',
\* good is FALSE once the server no longer honours the token, n is the attempt of
\* _request, seen is what the command found (assets, devices, the user's id) and refused
\* the assets the server would not create.  excused records a misfortune the command
\* cannot be expected to survive: a call given up after all its attempts, a token that
\* ran out inside a block or could not be renewed.
NewRun == [cmd |-> "none", todo |-> <<>>, n |-> 1, end |-> "none",
           token |-> "none", good |-> TRUE, saved |-> "none", inside |-> FALSE,
           seen |-> {}, refused |-> {}, excused |-> FALSE]

Call(do, of) == [do |-> do, of |-> of]
Calls(do, names) == [k \in DOMAIN names |-> Call(do, names[k])]
Assets == {Rig} \cup ToSet(Subsystems)

Init ==
  /\ \E devices \in SUBSET Devices, ready \in SUBSET Tenants, secured \in BOOLEAN :
       /\ {Home[d] : d \in devices} \subseteq ready
       /\ there = (devices \X {"device"}) \cup (ready \X {"tenant", "admin", "active"})
                    \cup (IF secured THEN {<<"sysadmin", "secured">>} ELSE {})
  /\ run = [o \in Operators |-> NewRun]
  /\ tokenMap = {}
  /\ faults = 0

Secured == <<"sysadmin", "secured">> \in there
Installed == {d \in Devices : <<d, "device">> \in there}

(***************************************************************************)
(* External: what the server does with one call made with a token          *)
(***************************************************************************)
TenantCalls == {"device", "devices", "credentials", "asset", "newAsset", "plainAsset", "relation"}
OpenCalls == {"login", "loginTarget", "loginVendor", "loginAdmin", "loginAgain", "activate"}

Permitted(c, token) ==
  CASE c.do \in TenantCalls -> token \in Tenants
    [] c.do \in OpenCalls   -> TRUE
    [] OTHER                -> token = "sysadmin"

\* The facts a call that creates something adds.
Adds(c) ==
  CASE c.do = "change"                     -> {<<"sysadmin", "secured">>}
    [] c.do = "newTenant"                  -> {<<c.of, "tenant">>}
    [] c.do = "newAdmin"                   -> {<<c.of, "admin">>}
    [] c.do = "activate"                   -> {<<c.of, "active">>}
    [] c.do \in {"newAsset", "plainAsset"} -> {<<c.of, "asset">>}
    [] c.do = "relation"                   -> {<<c.of, "related">>}
    [] OTHER                               -> {}

\* A second tenant, user or asset of a name is refused with 400 or 409.
Unique == {"newTenant", "newAdmin", "newAsset", "plainAsset"}

Reply(is, items) == [is |-> is, items |-> items]
Ok == Reply("ok", {})
Error == Reply("error", {})
Conflict == Reply("conflict", {})
When(fact) == IF fact \in there THEN Ok ELSE Error

\* The replies of a call the token permits; an asset may be refused altogether, and one
\* with an id of the client's choosing for its id, although there is none of its name.
Answers(c) ==
  CASE c.do \in Unique /\ Adds(c) \subseteq there -> {Conflict}
    [] c.do = "newAsset" /\ ~(Adds(c) \subseteq there) -> {Ok, Conflict, Error}
    [] c.do = "plainAsset" /\ ~(Adds(c) \subseteq there) -> {Ok, Error}
    [] c.do \in {"login", "loginTarget"}          -> {When(<<"sysadmin", "secured">>)}
    [] c.do \in {"loginVendor", "change"}         -> {IF Secured THEN Error ELSE Ok}
    [] c.do \in {"tenant", "tenantAgain"}         -> {When(<<c.of, "tenant">>)}
    [] c.do \in {"admin", "adminAgain", "users", "borrow"} -> {When(<<c.of, "admin">>)}
    [] c.do \in {"loginAdmin", "loginAgain"}      -> {When(<<c.of, "active">>)}
    [] c.do \in {"link", "activate"} -> {IF <<c.of, "active">> \in there THEN Error ELSE Ok}
    [] c.do = "device"                            -> {When(<<c.of, "device">>)}
    [] c.do = "asset"                             -> {When(<<c.of, "asset">>)}
    [] c.do = "tenants" -> {Reply("ok", {t \in Tenants : <<t, "tenant">> \in there})}
    [] c.do = "devices" -> {Reply("ok", {d \in Installed : Home[d] = c.of})}
    [] OTHER                                      -> {Ok}

(***************************************************************************)
(* What the command does with the answer                                   *)
(***************************************************************************)

\* impersonate(): the token the block began with comes back however it is left.
Enter(x, t) == [x EXCEPT !.saved = x.token, !.token = t, !.inside = TRUE, !.good = TRUE]

\* Defect: without the finally clause.
MutLeave(x) == [x EXCEPT !.inside = FALSE]

Leave(x) == IF x.inside THEN [x EXCEPT !.token = x.saved, !.inside = FALSE, !.good = TRUE] ELSE x

\* The command has ended; only how it ended is remembered.
Ended(x, end) ==
  [NewRun EXCEPT !.cmd = x.cmd, !.end = end, !.seen = x.seen, !.refused = x.refused,
                   !.excused = x.excused]

Go(x, calls) == [x EXCEPT !.todo = calls, !.n = 1]
Fail(x) == Ended(x, "failed")
Finish(x) == Ended(x, "ok")
Note(x, item) == [x EXCEPT !.seen = @ \cup {item}]

\* create_tenant and create_user: who lost a race looks the entity up again.
\* Defect: the refusal ends the command.
MutAfterConflict(x, again, rest) == Fail(x)

AfterConflict(x, again, rest) == Go(x, <<again>> \o rest)

\* What a list came to: _get_paginated swallows its failures, a list that could not be
\* read is as good as empty.
Listed(a) == a.items

\* authenticate, with which provisioning and export begin: the account must be secured.
AfterAuthenticate(x, rest, a) ==
  IF a.is = "ok" THEN Go([x EXCEPT !.token = "sysadmin"], rest) ELSE Ended(x, "refused")

\* create_tenant.
AfterTenant(x, c, rest, a) ==
  IF a.is = "ok" THEN Go(x, rest) ELSE
  CASE c.do = "tenant" -> Go(x, <<Call("newTenant", c.of)>> \o rest)
    [] c.do = "newTenant" /\ a.is = "conflict" -> AfterConflict(x, Call("tenantAgain", c.of), rest)
    [] OTHER -> Fail(x)

\* create_user; that it failed shows when the administrator cannot log in.
AfterUser(x, c, rest, a) ==
  IF a.is = "ok" THEN Go(Note(x, "user_id"), rest) ELSE
  CASE c.do = "admin" -> Go(x, <<Call("newAdmin", c.of)>> \o rest)
    [] c.do = "newAdmin" /\ a.is = "conflict" -> AfterConflict(x, Call("adminAgain", c.of), rest)
    [] OTHER -> Go(x, rest)

\* activate_user; its failure, too, shows in the login that follows.
AfterLink(x, c, rest, a) ==
  Go(x, IF c.do = "link" /\ a.is = "ok" THEN Calls("activate", <<c.of>>) \o rest ELSE rest)

\* The ways to the token of the tenant's administrator: the password, activation and
\* the password, impersonation.
AfterLogin(x, c, rest, a) ==
  IF a.is = "ok" THEN Go(Enter(x, c.of), rest) ELSE
  CASE c.do = "loginAdmin" /\ "user_id" \in x.seen ->
         Go(x, Calls("link", <<c.of>>) \o Calls("loginAgain", <<c.of>>) \o rest)
    [] c.do = "loginAgain" -> Go(x, <<Call("borrow", c.of)>> \o rest)
    [] OTHER -> Fail(x)

AfterAccount(x, c, rest, a) ==
  CASE c.do \in {"tenant", "newTenant", "tenantAgain"} -> AfterTenant(x, c, rest, a)
    [] c.do \in {"admin", "newAdmin", "adminAgain"}    -> AfterUser(x, c, rest, a)
    [] c.do \in {"link", "activate"}                   -> AfterLink(x, c, rest, a)
    [] OTHER                                           -> AfterLogin(x, c, rest, a)

\* A device that is not found fails the command: create_device is called with the
\* arguments of another signature.
AfterDevice(x, c, rest, a) == IF a.is = "ok" THEN Go(Note(x, c.of), rest) ELSE Fail(x)

\* _get_or_create_asset: an id that is refused is left to the server.
\* Defect: the asset is given up.
MutWithoutId(x, c, rest) == Go(x, rest)

WithoutId(x, c, rest) == Go(x, <<Call("plainAsset", c.of)>> \o rest)

AfterAsset(x, c, rest, a) ==
  IF a.is = "ok" THEN Go(Note(x, c.of), rest) ELSE
  CASE c.do = "asset" -> Go(x, <<Call("newAsset", c.of)>> \o rest)
    [] c.do = "newAsset" /\ a.is = "conflict" -> WithoutId(x, c, rest)
    [] OTHER -> Go(IF a.is = "error" THEN [x EXCEPT !.refused = @ \cup {c.of}] ELSE x, rest)

\* _create_relation: nobody looks at what it returns.
AfterRelation(x, rest) == Go(x, rest)

\* Inside the block of run_provision_entities; an exception ends it and the command.
AfterEntity(x, c, rest, a) ==
  CASE c.do = "device"                          -> AfterDevice(x, c, rest, a)
    [] c.do # "device" /\ a.is = "raised"       -> Fail(x)
    [] c.do = "relation" /\ a.is # "raised"     -> AfterRelation(x, rest)
    [] OTHER                                    -> AfterAsset(x, c, rest, a)

\* _tenant_admin_token: a tenant that refuses is left out.
AfterToken(x, c, rest, a) ==
  CASE a.is = "raised" -> Fail(x)
    [] a.is \in {"error", "conflict"} -> Go(x, rest)
    [] a.is = "ok" /\ c.do = "users" -> Go(x, <<Call("borrow", c.of)>> \o rest)
    [] OTHER -> Go(Enter(x, c.of), <<Call("devices", c.of), Call("leave", c.of)>> \o rest)

\* get_device_credentials swallows its failures as well.
AfterCredentials(x, c, rest, a) == Go(IF a.is = "ok" THEN Note(x, c.of) ELSE x, rest)

\* _collect_devices.
AfterExport(x, c, rest, a) ==
  CASE c.do = "tenants"     -> Go(x, Calls("users", SetToSeq(Listed(a))))
    [] c.do = "devices"     -> Go(x, Calls("credentials", SetToSeq(Listed(a))) \o rest)
    [] c.do = "credentials" -> AfterCredentials(x, c, rest, a)
    [] OTHER                -> AfterToken(x, c, rest, a)

\* change_password.
AfterChange(x, a) == IF a.is = "ok" THEN Finish(x) ELSE Fail(x)

\* run_secure_admin.
AfterSecure(x, c, rest, a) ==
  CASE c.do = "loginTarget" -> IF a.is = "ok" THEN Finish(x) ELSE Go(x, rest)
    [] c.do = "loginVendor" -> IF a.is = "ok" THEN Go(Enter(x, "sysadmin"), rest) ELSE Fail(x)
    [] c.do = "change"      -> AfterChange(x, a)

After(x, a) ==
  LET c == Head(x.todo)
      rest == Tail(x.todo) IN
  IF c.do = "login" THEN AfterAuthenticate(x, rest, a) ELSE
  CASE x.cmd = "secure"                             -> AfterSecure(x, c, rest, a)
    [] x.cmd \in {"export", "check"}                -> AfterExport(x, c, rest, a)
    [] x.cmd = "provision" /\ c.do \in TenantCalls  -> AfterEntity(x, c, rest, a)
    [] OTHER                                        -> AfterAccount(x, c, rest, a)

(***************************************************************************)
(* The steps of a command                                                  *)
(***************************************************************************)
AssetPlan(name) == <<Call("asset", name)>>
SubsystemPlan == [k \in 1..(2 * Len(Subsystems)) |->
                    Call(IF k % 2 = 1 THEN "asset" ELSE "relation", Subsystems[(k + 1) \div 2])]

Plan(cmd) ==
  CASE cmd = "secure" ->
         <<Call("loginTarget", "sysadmin"), Call("loginVendor", "sysadmin"), Call("change", "sysadmin")>>
    [] cmd = "provision" ->
         <<Call("login", "sysadmin"), Call("tenant", Own), Call("admin", Own), Call("loginAdmin", Own)>>
           \o Calls("device", Turbines) \o AssetPlan(Rig) \o SubsystemPlan \o Calls("relation", Turbines)
    [] OTHER -> <<Call("login", "sysadmin"), Call("tenants", "sysadmin")>>

Start(o, cmd) ==
  /\ run[o].end # "none" \/ run[o].cmd = "none"
  /\ run' = [run EXCEPT ![o] = [NewRun EXCEPT !.cmd = cmd, !.todo = Plan(cmd)]]
  /\ UNCHANGED <<there, tokenMap, faults>>

Trying(o) == run[o].todo # <<>>
Now(o) == Head(run[o].todo)

\* A relation is asked for only between entities whose id is known; leaving the block
\* is no call.
NoCall(o) ==
  \/ Now(o).do = "leave"
  \/ Now(o).do = "relation" /\ ~({Rig, Now(o).of} \subseteq run[o].seen)

SkipCall(o) ==
  /\ Trying(o) /\ NoCall(o)
  /\ run' = [run EXCEPT ![o] = LET x == Go(@, Tail(@.todo)) IN
                               IF Now(o).do = "leave" THEN Leave(x) ELSE x]
  /\ UNCHANGED <<there, tokenMap, faults>>

\* The server answers the call.
Answered(o) ==
  LET c == Now(o) IN
  /\ Trying(o) /\ ~NoCall(o)
  /\ run[o].good \/ c.do \in OpenCalls
  /\ \E a \in IF Permitted(c, run[o].token) THEN Answers(c) ELSE {Error} :
       /\ there' = IF a = Ok THEN there \cup Adds(c) ELSE there
       /\ run' = [run EXCEPT ![o] = After(@, a)]
  /\ UNCHANGED <<tokenMap, faults>>

\* _request, out of attempts or not: the same call again, or its last error.
Again(x, last) ==
  IF x.n <= MaxRetries THEN [x EXCEPT !.n = @ + 1]
  ELSE After([x EXCEPT !.excused = TRUE], Reply(last, {}))

\* The connection breaks, before or after the server has done the call, or it answers
\* 429, 502, 503 or 504.
Lost(o) ==
  LET c == Now(o) IN
  /\ faults < MaxFaults
  /\ Trying(o) /\ ~NoCall(o)
  /\ \/ there' = there
     \/ /\ Ok \in Answers(c) /\ Permitted(c, run[o].token) /\ run[o].good
        /\ there' = there \cup Adds(c)
  /\ \E last \in {"raised", "error"} : run' = [run EXCEPT ![o] = Again(@, last)]
  /\ faults' = faults + 1
  /\ UNCHANGED tokenMap

\* 401: the client logs in again with its own credentials, whatever block it is in, and
\* repeats the call.
Relogged(x) ==
  [x EXCEPT !.token = "sysadmin", !.good = TRUE, !.excused = @ \/ x.inside]

NotRenewed(x) == After([x EXCEPT !.excused = TRUE], Error)

Expired(o) == Trying(o) /\ ~NoCall(o) /\ ~run[o].good /\ Now(o).do \notin OpenCalls

Unauthorized(o) ==
  /\ Expired(o)
  /\ run' = [run EXCEPT ![o] = IF @.n <= MaxRetries /\ Secured THEN Again(Relogged(@), "error")
                                                                ELSE NotRenewed(@)]
  /\ UNCHANGED <<there, tokenMap, faults>>

\* The login of the recovery is itself given up: the 401 is the answer.
ReloginFails(o) ==
  /\ Expired(o) /\ run[o].n <= MaxRetries /\ Secured
  /\ faults < MaxFaults /\ faults' = faults + 1
  /\ run' = [run EXCEPT ![o] = NotRenewed(@)]
  /\ UNCHANGED <<there, tokenMap>>

Expire(o) ==
  /\ faults < MaxFaults
  /\ Trying(o) /\ run[o].good /\ run[o].token # "none"
  /\ run' = [run EXCEPT ![o].good = FALSE]
  /\ faults' = faults + 1
  /\ UNCHANGED <<there, tokenMap>>

AboutToWrite(o) == run[o].cmd = "export" /\ run[o].end = "none" /\ run[o].todo = <<>>

\* After the last call: the summary of a provisioning, or the token map, or its check.
Conclude(o) ==
  /\ run[o].cmd # "none" /\ run[o].end = "none" /\ ~Trying(o)
  /\ \/ /\ run[o].cmd = "provision"
        /\ run' = [run EXCEPT ![o] = Finish(Leave(@))]
        /\ UNCHANGED tokenMap
     \/ /\ AboutToWrite(o) /\ run[o].seen # {}
        /\ tokenMap' = run[o].seen
        /\ run' = [run EXCEPT ![o] = Finish(@)]
     \/ /\ run[o].cmd = "check" /\ run[o].seen # {} /\ tokenMap = run[o].seen
        /\ run' = [run EXCEPT ![o] = Finish(@)]
        /\ UNCHANGED tokenMap
     \/ /\ \/ run[o].cmd \in {"export", "check"} /\ run[o].seen = {}
           \/ run[o].cmd = "check" /\ tokenMap # run[o].seen
        /\ run' = [run EXCEPT ![o] = Fail(@)]
        /\ UNCHANGED tokenMap
  /\ UNCHANGED <<there, faults>>

Kill(o) ==
  /\ run[o].end = "none" /\ run[o].cmd # "none"
  /\ run' = [run EXCEPT ![o] = NewRun]
  /\ UNCHANGED <<there, tokenMap, faults>>

Step(o) == SkipCall(o) \/ Answered(o) \/ Unauthorized(o) \/ Conclude(o)

Next == \E o \in Operators :
          \/ \E cmd \in Duties[o] : Start(o, cmd)
          \/ Step(o)
          \/ Lost(o)
          \/ Expire(o) \/ ReloginFails(o)
          \/ Kill(o)

Spec == Init /\ [][Next]_vars

(***************************************************************************)
(* Properties                                                              *)
(***************************************************************************)

\* What went wrong when a command fails that was let in, whose calls got through in the
\* end and whose token lasted: provisioning, its tenant and administrator ready, met a
\* turbine without a device, and an export found no device at all.  Repeated calls and
\* commands running side by side, killed and started again are no reason for these two
\* (thingsboard_client.py:615, 744).  They are one for a rotation: it fails when the
\* password has been rotated already, by another or by its own call, done and repeated.
FailureIsExplained ==
  \A o \in Operators : run[o].end = "failed" /\ ~run[o].excused =>
    /\ run[o].cmd = "provision" => /\ {Own} \X {"tenant", "admin", "active"} \subseteq there
                                   /\ ~(ToSet(Turbines) \subseteq Installed)
    /\ run[o].cmd = "export" => Installed = {}
    /\ run[o].cmd = "secure" => Secured

\* A provisioning that reports SUCCESS, its calls got through and its token lasted,
\* leaves the tenant, an administrator who can log in, the devices and every asset that
\* the server did not refuse, whatever rivals did between its lookups and its creations.
\* Relations it leaves only between what it found or created itself: one of an asset
\* that a rival created in between, or its own lost call, is missing.
SuccessIsComplete ==
  \A o \in Operators : run[o] = Ended(run[o], "ok") /\ run[o].cmd = "provision" /\ ~run[o].excused =>
    /\ {Own} \X {"tenant", "admin", "active"} \subseteq there
    /\ ToSet(Turbines) \subseteq Installed
    /\ (Assets \ run[o].refused) \X {"asset"} \subseteq there
    /\ \A e \in ToSet(Subsystems \o Turbines) : {Rig, e} \subseteq run[o].seen => <<e, "related">> \in there

\* The token map about to replace device-tokens.json has the device of every tenant,
\* though the client works under one tenant's token after the other.  Excused is an
\* export with a call that was given up, which leaves out a page, a tenant or a device
\* with a warning at most, or with a borrowed token that ran out, which leaves out the
\* rest of its tenant.
ExportIsComplete ==
  \A o \in Operators : AboutToWrite(o) /\ ~run[o].excused => run[o].seen = Installed
===============================================================================
