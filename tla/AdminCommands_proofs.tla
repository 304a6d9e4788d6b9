------------------------- MODULE AdminCommands_proofs -------------------------
(***************************************************************************)
(* Proofs about AdminCommands, for any operators, tenants, devices and     *)
(* subsystems, any number of attempts and of faults.                       *)
(*                                                                         *)
(* A run that is not excused is on course: what it still has to do follows *)
(* the rules of its command, what it is there for is done or still owed,   *)
(* and the call it is trying is made with the token it was meant for.      *)
(* Rivals only add facts, so a run stays on course whatever they do.       *)
(***************************************************************************)
EXTENDS AdminCommands, TLAPS, SequenceTheorems, FiniteSetTheorems

(***************************************************************************)
(* The types                                                               *)
(***************************************************************************)
Dos == TenantCalls \cup OpenCalls \cup
  {"change", "tenant", "newTenant", "tenantAgain", "admin", "newAdmin", "adminAgain", "link",
   "borrow", "tenants", "users", "leave"}
Names == {"sysadmin"} \cup Tenants \cup Devices \cup Assets
Marks == Names \cup {"user_id"}
CallSet == [do : Dos, of : Names]
Plans == Seq(CallSet)

RunType == [cmd : {"none", "secure", "provision", "export", "check"}, todo : Plans, n : Nat,
            end : {"none", "ok", "failed", "refused"}, token : Names \cup {"none"}, good : BOOLEAN,
            saved : Names \cup {"none"}, inside : BOOLEAN, seen : SUBSET Marks,
            refused : SUBSET Names, excused : BOOLEAN]

(***************************************************************************)
(* The order of the calls                                                  *)
(***************************************************************************)
Related == ToSet(Subsystems \o Turbines)

Only(dos, S) == \A c \in S : c.do \in dos
Some(dos, S) == \E c \in S : c.do \in dos
Has(dos, of, S) == \E c \in S : c.do \in dos /\ c.of = of
HasRelations(S) == \A e \in Related : Has({"relation"}, e, S)

TenantDos == {"tenant", "newTenant", "tenantAgain"}
AdminDos == {"admin", "newAdmin", "adminAgain"}
ActivationDos == {"loginAdmin", "link", "activate"}
AssetDos == {"asset", "newAsset", "plainAsset"}
EntityDos == AssetDos \cup {"device", "relation"}
AccountDos == TenantDos \cup AdminDos \cup ActivationDos \cup {"loginAgain"}

\* What may still follow a call of a provisioning,
FitsProvision(c, later) ==
  /\ c.do \in AccountDos \cup EntityDos \cup {"login"}
  /\ c.do \in AccountDos => c.of = Own
  /\ c.do = "device" => c.of \in ToSet(Turbines)
  /\ c.do \in {"loginAdmin", "loginAgain"} \cup EntityDos => Only(EntityDos, later)
  /\ Only(AccountDos \cup EntityDos, later)
  /\ c.do = "login" => Has({"tenant"}, Own, later)
  /\ c.do \in TenantDos => Has({"admin"}, Own, later)
  /\ c.do \in AdminDos => Has({"loginAdmin"}, Own, later)
  /\ c.do \in {"link", "activate"} => Has({"loginAgain"}, Own, later)
  /\ c.do \in {"login", "device"} \cup TenantDos \cup AdminDos => HasRelations(later)
  /\ c.do \in AssetDos => IF c.of = Rig THEN HasRelations(later) ELSE Has({"relation"}, c.of, later)

\* of an export or a check,
BlockDos == {"devices", "credentials", "leave"}
FitsExport(c, later) ==
  /\ c.do \in {"login", "tenants", "users", "borrow"} \cup BlockDos
  /\ c.do = "login" => Only({"tenants"}, later)
  /\ c.do \in {"users", "borrow", "leave"} => Only({"users"}, later)
  /\ c.do \in {"devices", "credentials"} =>
       Only({"credentials", "leave", "users"}, later) /\ Some({"leave"}, later)
  /\ c.do \in {"users", "borrow", "devices"} => c.of \in Tenants
  /\ c.do = "credentials" => c.of \in Devices

\* and of a rotation.
FitsSecure(c, later) ==
  /\ c.do \in {"loginTarget", "loginVendor", "change"}
  /\ c.do = "loginTarget" => Some({"loginVendor"}, later)
  /\ c.do = "loginVendor" => Only({"change"}, later)
  /\ c.do = "change" => later = {}

\* A rule is a set of pairs of a call and the set of calls that may still follow it.
Rules == CallSet \X SUBSET CallSet
Provisioning == {r \in Rules : FitsProvision(r[1], r[2])}
Exporting == {r \in Rules : FitsExport(r[1], r[2])}
Securing == {r \in Rules : FitsSecure(r[1], r[2])}

Behind(p, i) == {p[j] : j \in (i + 1)..Len(p)}
InTurn(rule, p) == \A i \in 1..Len(p) : <<p[i], Behind(p, i)>> \in rule

(***************************************************************************)
(* What is still to be done of what a command is there for                 *)
(***************************************************************************)
InstalledIn(T) == {d \in Devices : <<d, "device">> \in T}

ProvisionOwes(T, S, seen, refused) ==
  /\ \A d \in ToSet(Turbines) : d \in InstalledIn(T) \/ Has({"device"}, d, S)
  /\ \A e \in Assets : <<e, "asset">> \in T \/ e \in refused \/ Has(AssetDos, e, S)
  /\ \A e \in Related : {Rig, e} \subseteq seen => <<e, "related">> \in T \/ Has({"relation"}, e, S)
  /\ <<Own, "tenant">> \in T \/ Has({"tenant", "newTenant"}, Own, S)
  /\ (<<Own, "admin">> \in T /\ "user_id" \in seen) \/ Has(AdminDos, Own, S)
  /\ <<Own, "active">> \in T \/ Has(ActivationDos, Own, S)
  /\ Has({"tenantAgain"}, Own, S) => <<Own, "tenant">> \in T
  /\ Has({"adminAgain"}, Own, S) => <<Own, "admin">> \in T

ExportOwes(T, S, seen) ==
  /\ seen \subseteq InstalledIn(T)
  /\ \A d \in Devices : Has({"credentials"}, d, S) => d \in InstalledIn(T)
  /\ \A d \in InstalledIn(T) :
       \/ d \in seen \/ Some({"tenants"}, S) \/ Has({"credentials"}, d, S)
       \/ Has({"users", "borrow", "devices"}, Home[d], S)

(***************************************************************************)
(* The token a call is made with                                           *)
(***************************************************************************)
ProvisionSeat(c, token, inside) ==
  IF c.do \in EntityDos THEN inside /\ token = Own
  ELSE ~inside /\ (c.do # "login" => token = "sysadmin")

ExportSeat(c, token, inside, saved) ==
  IF c.do \in BlockDos
  THEN inside /\ saved = "sysadmin" /\ token \in Tenants
  ELSE ~inside /\ (c.do # "login" => token = "sysadmin")

SecureSeat(c, token, inside) ==
  IF c.do = "change" THEN inside /\ token = "sysadmin" ELSE ~inside

OnCourse(T, x) ==
  /\ x.cmd = "provision" => /\ InTurn(Provisioning, x.todo)
                            /\ ProvisionOwes(T, ToSet(x.todo), x.seen, x.refused)
                            /\ x.todo # <<>> => ProvisionSeat(Head(x.todo), x.token, x.inside)
  /\ x.cmd \in {"export", "check"} =>
        /\ InTurn(Exporting, x.todo)
        /\ ExportOwes(T, ToSet(x.todo), x.seen)
        /\ x.todo # <<>> => ExportSeat(Head(x.todo), x.token, x.inside, x.saved)
  /\ x.cmd = "secure" /\ x.todo # <<>> => SecureSeat(Head(x.todo), x.token, x.inside)

Account == {Own} \X {"tenant", "admin", "active"}

Failed(T, x) ==
  /\ x.cmd = "provision" => Account \subseteq T /\ ~(ToSet(Turbines) \subseteq InstalledIn(T))
  /\ x.cmd = "export" => InstalledIn(T) = {}
  /\ x.cmd = "secure" => <<"sysadmin", "secured">> \in T

Complete(T, x) ==
  x.cmd = "provision" =>
    /\ Account \subseteq T
    /\ ToSet(Turbines) \subseteq InstalledIn(T)
    /\ (Assets \ x.refused) \X {"asset"} \subseteq T
    /\ \A e \in Related : {Rig, e} \subseteq x.seen => <<e, "related">> \in T

WellFormed(x) ==
  /\ x \in RunType
  /\ x.cmd = "none" \/ x.end # "none" => x.todo = <<>>
  /\ x.cmd = "secure" => InTurn(Securing, x.todo)

\* What a command has reached unless it is excused.
Fine(T, x) ==
  ~x.excused => CASE x.end = "failed" -> Failed(T, x)
                  [] x.end = "ok" -> Complete(T, x)
                  [] x.end = "refused" -> TRUE
                  [] OTHER -> OnCourse(T, x)

Sound(T, x) == WellFormed(x) /\ Fine(T, x)

World(T) == \A d \in InstalledIn(T) : {Home[d]} \X {"tenant", "admin", "active"} \subseteq T

AdmInv ==
  /\ run \in [Operators -> RunType]
  /\ World(there)
  /\ \A o \in Operators : Sound(there, run[o])

(***************************************************************************)
(* Plans                                                                   *)
(***************************************************************************)

\* The elements of a plan, by their numbers and as a set.
LEMMA PlanFacts ==
  ASSUME NEW p \in Plans
  PROVE  /\ Len(p) \in Nat /\ DOMAIN p = 1..Len(p) /\ \A i \in 1..Len(p) : p[i] \in CallSet
         /\ ToSet(p) = {p[i] : i \in 1..Len(p)} /\ ToSet(p) \subseteq CallSet
         /\ p = <<>> <=> Len(p) = 0
<1>1. Len(p) \in Nat /\ DOMAIN p = 1..Len(p) /\ \A i \in 1..Len(p) : p[i] \in CallSet
  BY LenProperties, ElementOfSeq DEF Plans
<1>2. p = <<>> <=> Len(p) = 0
  BY EmptySeq DEF Plans
<1>3. ToSet(p) = {p[i] : i \in 1..Len(p)}
  BY <1>1 DEF ToSet
<1> QED BY <1>1, <1>2, <1>3

\* What is left when a call is done.
LEMMA PlanPop ==
  ASSUME NEW p \in Plans, p # <<>>
  PROVE  /\ Head(p) \in CallSet /\ Tail(p) \in Plans
         /\ ToSet(p) = {Head(p)} \cup ToSet(Tail(p)) /\ ToSet(Tail(p)) \subseteq CallSet
         /\ \A rule : InTurn(rule, p) =>
              InTurn(rule, Tail(p)) /\ <<Head(p), ToSet(Tail(p))>> \in rule
<1> DEFINE r == Tail(p)
           n == Len(r)
<1>1. Head(p) \in CallSet /\ r \in Plans /\ n = Len(p) - 1 /\ \A i \in 1..n : r[i] = p[i + 1]
  BY HeadTailProperties DEF Plans
<1>2. Head(p) = p[1] /\ Len(p) \in Nat
  BY PlanFacts
<1>3. n \in Nat /\ Len(p) = n + 1 /\ ToSet(r) = {r[i] : i \in 1..n} /\ ToSet(r) \subseteq CallSet
      /\ ToSet(p) = {p[i] : i \in 1..(n + 1)}
  <2>1. n \in Nat /\ ToSet(r) = {r[i] : i \in 1..n} /\ ToSet(r) \subseteq CallSet
    BY <1>1, PlanFacts
  <2>2. Len(p) = n + 1
    BY <1>1, <1>2
  <2>3. ToSet(p) = {p[i] : i \in 1..Len(p)}
    BY PlanFacts
  <2> QED BY <2>1, <2>2, <2>3
<1> HIDE DEF r, n
<1>4. ToSet(r) = {p[i] : i \in 2..(n + 1)}
  <2>1. ASSUME NEW c \in ToSet(r) PROVE c \in {p[i] : i \in 2..(n + 1)}
    <3>1. PICK i \in 1..n : c = r[i]
      BY <1>3
    <3>2. i + 1 \in 2..(n + 1) /\ c = p[i + 1]
      BY <1>1, <1>3, <3>1
    <3> QED BY <3>2
  <2>2. ASSUME NEW i \in 2..(n + 1) PROVE p[i] \in ToSet(r)
    <3>1. i - 1 \in 1..n /\ (i - 1) + 1 = i
      BY <1>3
    <3>2. r[i - 1] = p[i]
      BY <1>1, <3>1
    <3> QED BY <1>3, <3>1, <3>2
  <2> QED BY <2>1, <2>2
<1>5. ToSet(p) = {Head(p)} \cup ToSet(r)
  <2>1. \A i : i \in 1..(n + 1) <=> i = 1 \/ i \in 2..(n + 1)
    BY <1>3
  <2> QED BY <1>2, <1>3, <1>4, <2>1
<1>6. ASSUME NEW i \in 1..n PROVE Behind(r, i) = Behind(p, i + 1)
  <2>1. ASSUME NEW j \in (i + 1)..n PROVE r[j] = p[j + 1] /\ j + 1 \in (i + 1 + 1)..Len(p)
    BY <1>1, <1>3, <2>1
  <2>2. ASSUME NEW j \in (i + 1 + 1)..Len(p) PROVE j - 1 \in (i + 1)..n /\ r[j - 1] = p[j]
    <3>1. j - 1 \in (i + 1)..n /\ j - 1 \in 1..n /\ (j - 1) + 1 = j
      BY <1>3
    <3> QED BY <1>1, <3>1
  <2>3. \A c : c \in Behind(r, i) => c \in Behind(p, i + 1)
    BY <2>1 DEF Behind, n
  <2>4. \A c : c \in Behind(p, i + 1) => c \in Behind(r, i)
    BY <2>2 DEF Behind, n
  <2> QED BY <2>3, <2>4
<1>7. ASSUME NEW rule, InTurn(rule, p) PROVE InTurn(rule, r) /\ <<Head(p), ToSet(r)>> \in rule
  <2>1. ASSUME NEW i \in 1..n PROVE <<r[i], Behind(r, i)>> \in rule
    <3>1. i + 1 \in 1..Len(p)
      BY <1>3
    <3>2. <<p[i + 1], Behind(p, i + 1)>> \in rule
      BY <1>7, <3>1 DEF InTurn
    <3> QED BY <1>1, <1>6, <3>2
  <2>2. 1 \in 1..Len(p) /\ Behind(p, 1) = ToSet(r)
    <3>1. (1 + 1)..Len(p) = 2..(n + 1) /\ 1 \in 1..Len(p)
      BY <1>3
    <3> QED BY <1>4, <3>1 DEF Behind
  <2>3. <<p[1], Behind(p, 1)>> \in rule
    BY <1>7, <2>2 DEF InTurn
  <2> QED BY <1>2, <2>1, <2>2, <2>3 DEF InTurn, n
<1> QED BY <1>1, <1>3, <1>5, <1>7 DEF r

\* A block of calls in front of a plan.
LEMMA PlanBlock ==
  ASSUME NEW s \in Plans, NEW p \in Plans
  PROVE  /\ s \o p \in Plans /\ ToSet(s \o p) = ToSet(s) \cup ToSet(p)
         /\ \A rule : /\ InTurn(rule, p)
                      /\ \A i \in 1..Len(s) : <<s[i], Behind(s, i) \cup ToSet(p)>> \in rule
                      => InTurn(rule, s \o p)
<1> DEFINE q == s \o p
           m == Len(s)
           n == Len(p)
<1>1. /\ q \in Plans /\ Len(q) = m + n
      /\ \A i \in 1..(m + n) : q[i] = IF i <= m THEN s[i] ELSE p[i - m]
  BY ConcatProperties DEF Plans
<1>2. m \in Nat /\ n \in Nat /\ ToSet(s) = {s[i] : i \in 1..m} /\ ToSet(p) = {p[i] : i \in 1..n}
      /\ ToSet(q) = {q[i] : i \in 1..(m + n)}
  BY <1>1, PlanFacts
<1> HIDE DEF q, m, n
<1>3. \A i \in 1..m : i \in 1..(m + n) /\ q[i] = s[i]
  BY <1>1, <1>2
<1>4. \A i \in 1..n : m + i \in 1..(m + n) /\ q[m + i] = p[i]
  <2> TAKE i \in 1..n
  <2>1. m + i \in 1..(m + n) /\ ~(m + i <= m) /\ (m + i) - m = i
    BY <1>2
  <2> QED BY <1>1, <2>1
<1>5. \A i \in 1..(m + n) : i \in 1..m \/ \E k \in 1..n : i = m + k
  <2> TAKE i \in 1..(m + n)
  <2>1. CASE i <= m
    BY <1>2, <2>1
  <2>2. CASE ~(i <= m)
    <3>1. i - m \in 1..n /\ i = m + (i - m)
      BY <1>2, <2>2
    <3> QED BY <3>1
  <2> QED BY <2>1, <2>2
<1>6. ToSet(q) = ToSet(s) \cup ToSet(p)
  <2>1. ASSUME NEW c \in ToSet(q) PROVE c \in ToSet(s) \cup ToSet(p)
    <3>1. PICK i \in 1..(m + n) : c = q[i]
      BY <1>2
    <3>2. CASE i \in 1..m
      BY <1>2, <1>3, <3>1, <3>2
    <3>3. ASSUME NEW k \in 1..n, i = m + k PROVE c \in ToSet(p)
      BY <1>2, <1>4, <3>1, <3>3
    <3> QED BY <1>5, <3>2, <3>3
  <2>2. \A c \in ToSet(s) \cup ToSet(p) : c \in ToSet(q)
    BY <1>2, <1>3, <1>4
  <2> QED BY <2>1, <2>2
<1>7. ASSUME NEW rule, InTurn(rule, p),
             \A i \in 1..Len(s) : <<s[i], Behind(s, i) \cup ToSet(p)>> \in rule
      PROVE  InTurn(rule, q)
  <2>1. ASSUME NEW i \in 1..m PROVE <<q[i], Behind(q, i)>> \in rule
    <3>1. Behind(q, i) = Behind(s, i) \cup ToSet(p)
      <4>1. ASSUME NEW j \in (i + 1)..(m + n) PROVE q[j] \in Behind(s, i) \cup ToSet(p)
        <5>1. j \in 1..(m + n)
          BY <1>2
        <5>2. CASE j \in 1..m
          <6>1. j \in (i + 1)..m
            BY <1>2, <5>2
          <6> QED BY <1>3, <5>2, <6>1 DEF Behind, m
        <5>3. ASSUME NEW k \in 1..n, j = m + k PROVE q[j] \in ToSet(p)
          BY <1>2, <1>4, <5>3
        <5> QED BY <1>5, <5>1, <5>2, <5>3
      <4>2. ASSUME NEW j \in (i + 1)..m PROVE s[j] \in {q[k] : k \in (i + 1)..(m + n)}
        <5>1. j \in 1..m /\ j \in (i + 1)..(m + n)
          BY <1>2
        <5> QED BY <1>3, <5>1
      <4>3. ASSUME NEW j \in 1..n PROVE p[j] \in {q[k] : k \in (i + 1)..(m + n)}
        <5>1. m + j \in (i + 1)..(m + n)
          BY <1>2
        <5> QED BY <1>4, <5>1
      <4>4. Behind(q, i) = {q[k] : k \in (i + 1)..(m + n)} /\ Behind(s, i) = {s[k] : k \in (i + 1)..m}
        BY <1>1 DEF Behind, m
      <4> HIDE DEF Behind
      <4>5. \A c : c \in Behind(q, i) => c \in Behind(s, i) \cup ToSet(p)
        BY <4>1, <4>4
      <4>6. \A c : c \in Behind(s, i) => c \in Behind(q, i)
        BY <4>2, <4>4
      <4>7. \A c : c \in ToSet(p) => c \in Behind(q, i)
        BY <1>2, <4>3, <4>4
      <4> QED BY <4>5, <4>6, <4>7
    <3>2. <<s[i], Behind(s, i) \cup ToSet(p)>> \in rule
      BY <1>7 DEF m
    <3> QED BY <1>3, <3>1, <3>2
  <2>2. ASSUME NEW k \in 1..n PROVE <<q[m + k], Behind(q, m + k)>> \in rule
    <3>1. Behind(q, m + k) = Behind(p, k)
      <4>1. ASSUME NEW j \in (k + 1)..n PROVE m + j \in (m + k + 1)..(m + n) /\ q[m + j] = p[j]
        BY <1>2, <1>4
      <4>2. ASSUME NEW j \in (m + k + 1)..(m + n) PROVE j - m \in (k + 1)..n /\ q[j] = p[j - m]
        <5>1. j - m \in (k + 1)..n /\ j - m \in 1..n /\ m + (j - m) = j
          BY <1>2
        <5> QED BY <1>4, <5>1
      <4>3. Behind(q, m + k) = {q[j] : j \in (m + k + 1)..(m + n)} /\ Behind(p, k) = {p[j] : j \in (k + 1)..n}
        BY <1>1 DEF Behind, n
      <4>4. \A c : c \in Behind(q, m + k) => c \in Behind(p, k)
        BY <4>2, <4>3
      <4>5. \A c : c \in Behind(p, k) => c \in Behind(q, m + k)
        BY <4>1, <4>3
      <4> QED BY <4>4, <4>5
    <3>2. <<p[k], Behind(p, k)>> \in rule
      BY <1>7 DEF InTurn, n
    <3> QED BY <1>4, <3>1, <3>2
  <2>3. \A i \in 1..(m + n) : <<q[i], Behind(q, i)>> \in rule
    BY <1>5, <2>1, <2>2
  <2> QED BY <1>1, <2>3 DEF InTurn
<1> QED BY <1>1, <1>6, <1>7 DEF q

\* A call in front of a plan.
LEMMA PlanPush ==
  ASSUME NEW c \in CallSet, NEW p \in Plans
  PROVE  /\ <<c>> \o p \in Plans /\ <<c>> \o p # <<>>
         /\ Head(<<c>> \o p) = c /\ ToSet(<<c>> \o p) = {c} \cup ToSet(p)
         /\ \A rule : InTurn(rule, p) /\ <<c, ToSet(p)>> \in rule => InTurn(rule, <<c>> \o p)
<1> DEFINE s == <<c>>
<1>1. s \in Plans /\ Len(s) = 1 /\ s[1] = c
  BY DEF Plans
<1>2. s \o p \in Plans /\ Len(s \o p) = 1 + Len(p) /\ (s \o p)[1] = c /\ Len(p) \in Nat
  BY <1>1, ConcatProperties, PlanFacts DEF Plans
<1>3. s \o p # <<>> /\ Head(s \o p) = c
  BY <1>2, PlanFacts
<1>4. ToSet(s) = {c}
  BY <1>1, PlanFacts
<1>5. Behind(s, 1) = {}
  BY <1>1 DEF Behind
<1> HIDE DEF s
<1>6. ASSUME NEW rule, InTurn(rule, p), <<c, ToSet(p)>> \in rule PROVE InTurn(rule, s \o p)
  <2>1. \A i \in 1..Len(s) : <<s[i], Behind(s, i) \cup ToSet(p)>> \in rule
    BY <1>1, <1>5, <1>6
  <2> QED BY <1>1, <1>6, <2>1, PlanBlock
<1>7. ToSet(s \o p) = {c} \cup ToSet(p)
  BY <1>1, <1>4, PlanBlock
<1> QED BY <1>2, <1>3, <1>6, <1>7 DEF s

(***************************************************************************)
(* Calls in a plan                                                         *)
(***************************************************************************)

\* The parts of a call.
LEMMA CallFacts ==
  ASSUME NEW do \in Dos, NEW of \in Names
  PROVE  Call(do, of) \in CallSet /\ Call(do, of).do = do /\ Call(do, of).of = of
BY DEF Call, CallSet

\* Asking a set of calls for one, with a call more.
LEMMA Selecting ==
  ASSUME NEW c, NEW R
  PROVE  /\ \A dos : Only(dos, {c} \cup R) <=> c.do \in dos /\ Only(dos, R)
         /\ \A dos : Some(dos, {c} \cup R) <=> c.do \in dos \/ Some(dos, R)
         /\ \A dos, of : Has(dos, of, {c} \cup R) <=> (c.do \in dos /\ c.of = of) \/ Has(dos, of, R)
BY DEF Only, Some, Has

\* Among no calls there is none of any kind.
LEMMA NoneSelected ==
  /\ \A dos : Only(dos, {}) /\ ~Some(dos, {})
  /\ \A dos, of : ~Has(dos, of, {})
BY DEF Only, Some, Has

\* A command's call that was done is no longer owed.
LEMMA ProvisionPops ==
  ASSUME NEW c \in CallSet, NEW R, NEW T, NEW T2, NEW seen, NEW seen2,
         NEW refused, NEW refused2,
         FitsProvision(c, R), ProvisionOwes(T, {c} \cup R, seen, refused),
         T \subseteq T2, InstalledIn(T2) = InstalledIn(T), seen \subseteq seen2,
         refused \subseteq refused2,
         c.do = "device" => c.of \in InstalledIn(T),
         c.do \in AssetDos => <<c.of, "asset">> \in T2 \/ c.of \in refused2,
         c.do = "relation" => <<c.of, "related">> \in T2 \/ ~({Rig, c.of} \subseteq seen2),
         c.do \in {"tenant", "newTenant"} => <<Own, "tenant">> \in T2,
         c.do \in AdminDos => <<Own, "admin">> \in T2 /\ "user_id" \in seen2,
         c.do \in ActivationDos => <<Own, "active">> \in T2,
         \A m \in seen2 \ seen : (c.do \in AssetDos /\ m = c.of) \/ HasRelations(R)
  PROVE  ProvisionOwes(T2, R, seen2, refused2)
<1>1. \A d \in ToSet(Turbines) : d \in InstalledIn(T2) \/ Has({"device"}, d, R)
  BY Selecting DEF ProvisionOwes
<1>2. \A e \in Assets : <<e, "asset">> \in T2 \/ e \in refused2 \/ Has(AssetDos, e, R)
  BY Selecting DEF ProvisionOwes
<1>3. ASSUME NEW e \in Related, {Rig, e} \subseteq seen2
      PROVE  <<e, "related">> \in T2 \/ Has({"relation"}, e, R)
  <2>1. CASE {Rig, e} \subseteq seen
    <3>1. <<e, "related">> \in T \/ Has({"relation"}, e, {c} \cup R)
      BY <2>1 DEF ProvisionOwes
    <3>2. <<e, "related">> \in T \/ (c.do = "relation" /\ c.of = e) \/ Has({"relation"}, e, R)
      BY <3>1, Selecting
    <3> QED BY <1>3, <3>2
  <2>2. CASE HasRelations(R)
    BY <2>2 DEF HasRelations
  <2>3. CASE ~({Rig, e} \subseteq seen) /\ ~HasRelations(R)
    <3>1. c.do \in AssetDos /\ (c.of = Rig \/ c.of = e)
      BY <1>3, <2>3
    <3> QED BY <2>3, <3>1 DEF FitsProvision
  <2> QED BY <2>1, <2>2, <2>3
<1>4. <<Own, "tenant">> \in T2 \/ Has({"tenant", "newTenant"}, Own, R)
  BY Selecting DEF ProvisionOwes
<1>5. (<<Own, "admin">> \in T2 /\ "user_id" \in seen2) \/ Has(AdminDos, Own, R)
  BY Selecting DEF ProvisionOwes
<1>6. <<Own, "active">> \in T2 \/ Has(ActivationDos, Own, R)
  BY Selecting DEF ProvisionOwes
<1>7. /\ Has({"tenantAgain"}, Own, R) => <<Own, "tenant">> \in T2
      /\ Has({"adminAgain"}, Own, R) => <<Own, "admin">> \in T2
  BY Selecting DEF ProvisionOwes
<1> QED BY <1>1, <1>2, <1>3, <1>4, <1>5, <1>6, <1>7 DEF ProvisionOwes

\* A call in the place of another one, for the same entity.
LEMMA ProvisionReplaces ==
  ASSUME NEW c \in CallSet, NEW c2 \in CallSet, NEW R, NEW T, NEW T2, NEW seen,
         NEW refused, ProvisionOwes(T, {c} \cup R, seen, refused), c2.of = c.of,
         T \subseteq T2, InstalledIn(T2) = InstalledIn(T),
         c.do \notin {"device", "relation"},
         c.do \in AssetDos => c2.do \in AssetDos,
         c.do \in {"tenant", "newTenant"} => c2.do \in {"tenant", "newTenant"} \/ <<Own, "tenant">> \in T2,
         c.do \in AdminDos => c2.do \in AdminDos,
         c.do \in ActivationDos => c2.do \in ActivationDos,
         c2.do = "tenantAgain" => <<Own, "tenant">> \in T2,
         c2.do = "adminAgain" => <<Own, "admin">> \in T2
  PROVE  ProvisionOwes(T2, {c2} \cup R, seen, refused)
<1>1. \A d \in ToSet(Turbines) : d \in InstalledIn(T2) \/ Has({"device"}, d, {c2} \cup R)
  BY Selecting DEF ProvisionOwes
<1>2. \A e \in Assets : <<e, "asset">> \in T2 \/ e \in refused \/ Has(AssetDos, e, {c2} \cup R)
  BY Selecting DEF ProvisionOwes
<1>3. \A e \in Related :
        {Rig, e} \subseteq seen => <<e, "related">> \in T2 \/ Has({"relation"}, e, {c2} \cup R)
  BY Selecting DEF ProvisionOwes
<1>4. <<Own, "tenant">> \in T2 \/ Has({"tenant", "newTenant"}, Own, {c2} \cup R)
  BY Selecting DEF ProvisionOwes
<1>5. (<<Own, "admin">> \in T2 /\ "user_id" \in seen) \/ Has(AdminDos, Own, {c2} \cup R)
  BY Selecting DEF ProvisionOwes
<1>6. <<Own, "active">> \in T2 \/ Has(ActivationDos, Own, {c2} \cup R)
  BY Selecting DEF ProvisionOwes
<1>7. /\ Has({"tenantAgain"}, Own, {c2} \cup R) => <<Own, "tenant">> \in T2
      /\ Has({"adminAgain"}, Own, {c2} \cup R) => <<Own, "admin">> \in T2
  BY Selecting DEF ProvisionOwes
<1> QED BY <1>1, <1>2, <1>3, <1>4, <1>5, <1>6, <1>7 DEF ProvisionOwes

\* One more call changes nothing, unless it looks something up again.
LEMMA ProvisionAdds ==
  ASSUME NEW c \in CallSet, NEW S, NEW T, NEW seen, NEW refused, ProvisionOwes(T, S, seen, refused),
         c.do \notin {"tenantAgain", "adminAgain"}
  PROVE  ProvisionOwes(T, {c} \cup S, seen, refused)
BY Selecting DEF ProvisionOwes

\* What is there stays there.
LEMMA OwesGrow ==
  ASSUME NEW T, NEW T2, T \subseteq T2, InstalledIn(T2) = InstalledIn(T)
  PROVE  /\ \A S, seen, refused : ProvisionOwes(T, S, seen, refused) => ProvisionOwes(T2, S, seen, refused)
         /\ \A S, seen : ExportOwes(T, S, seen) => ExportOwes(T2, S, seen)
<1>1. ASSUME NEW S, NEW seen, NEW refused, ProvisionOwes(T, S, seen, refused)
      PROVE  ProvisionOwes(T2, S, seen, refused)
  BY <1>1 DEF ProvisionOwes
<1>2. ASSUME NEW S, NEW seen, ExportOwes(T, S, seen) PROVE ExportOwes(T2, S, seen)
  BY <1>2 DEF ExportOwes
<1> QED BY <1>1, <1>2

\* A call of an export that was answered is no longer owed.
LEMMA ExportPops ==
  ASSUME NEW c \in CallSet, NEW R, NEW T, NEW seen, NEW seen2,
         ExportOwes(T, {c} \cup R, seen), seen \subseteq seen2, seen2 \subseteq seen \cup {c.of},
         seen2 # seen => c.do = "credentials" /\ c.of \in Devices,
         c.do # "tenants",
         \A d \in InstalledIn(T) :
           /\ c.do = "credentials" => c.of \in seen2
           /\ c.do \in {"users", "borrow", "devices"} /\ c.of = Home[d] => FALSE
  PROVE  ExportOwes(T, R, seen2)
<1>1. seen2 \subseteq InstalledIn(T)
  <2>1. seen2 # seen => c.of \in InstalledIn(T)
    BY Selecting DEF ExportOwes
  <2> QED BY <2>1 DEF ExportOwes
<1>2. \A d \in Devices : Has({"credentials"}, d, R) => d \in InstalledIn(T)
  BY Selecting DEF ExportOwes
<1>3. ASSUME NEW d \in InstalledIn(T)
      PROVE  \/ d \in seen2 \/ Some({"tenants"}, R) \/ Has({"credentials"}, d, R)
             \/ Has({"users", "borrow", "devices"}, Home[d], R)
  <2>1. \/ d \in seen \/ Some({"tenants"}, {c} \cup R) \/ Has({"credentials"}, d, {c} \cup R)
        \/ Has({"users", "borrow", "devices"}, Home[d], {c} \cup R)
    BY DEF ExportOwes
  <2> QED BY <2>1, Selecting
<1> QED BY <1>1, <1>2, <1>3 DEF ExportOwes

(***************************************************************************)
(* Runs                                                                    *)
(***************************************************************************)
ReplyType == [is : {"ok", "error", "conflict", "raised"},
              items : {S \in SUBSET Names : IsFiniteSet(S)}]

\* What the helpers of the model change of a run, and what they leave.
LEMMA GoFacts ==
  ASSUME NEW x \in RunType, NEW p \in Plans
  PROVE  /\ Go(x, p) \in RunType
         /\ Go(x, p).todo = p /\ Go(x, p).cmd = x.cmd /\ Go(x, p).end = x.end
         /\ Go(x, p).token = x.token /\ Go(x, p).saved = x.saved
         /\ Go(x, p).inside = x.inside /\ Go(x, p).seen = x.seen /\ Go(x, p).excused = x.excused
         /\ Go(x, p).refused = x.refused
BY DEF Go, RunType

\* A note adds to what was seen.
LEMMA NoteFacts ==
  ASSUME NEW x \in RunType, NEW m \in Marks
  PROVE  /\ Note(x, m) \in RunType
         /\ Note(x, m).seen = x.seen \cup {m}
         /\ Note(x, m).todo = x.todo /\ Note(x, m).cmd = x.cmd /\ Note(x, m).end = x.end
         /\ Note(x, m).token = x.token /\ Note(x, m).saved = x.saved
         /\ Note(x, m).inside = x.inside /\ Note(x, m).excused = x.excused
         /\ Note(x, m).refused = x.refused
BY DEF Note, RunType

\* impersonate() swaps the token and keeps the one before.
LEMMA EnterFacts ==
  ASSUME NEW x \in RunType, NEW t \in Names
  PROVE  /\ Enter(x, t) \in RunType
         /\ Enter(x, t).token = t /\ Enter(x, t).saved = x.token /\ Enter(x, t).inside = TRUE
         /\ Enter(x, t).todo = x.todo /\ Enter(x, t).cmd = x.cmd /\ Enter(x, t).end = x.end
         /\ Enter(x, t).seen = x.seen /\ Enter(x, t).excused = x.excused
         /\ Enter(x, t).refused = x.refused
BY DEF Enter, RunType

\* Leaving impersonate() gives the token back.
LEMMA LeaveFacts ==
  ASSUME NEW x \in RunType
  PROVE  /\ Leave(x) \in RunType
         /\ Leave(x).token = (IF x.inside THEN x.saved ELSE x.token) /\ Leave(x).inside = FALSE
         /\ Leave(x).todo = x.todo /\ Leave(x).cmd = x.cmd /\ Leave(x).end = x.end
         /\ Leave(x).seen = x.seen /\ Leave(x).excused = x.excused
         /\ Leave(x).refused = x.refused
<1>1. CASE x.inside
  BY <1>1 DEF Leave, RunType
<1>2. CASE ~x.inside
  BY <1>2 DEF Leave, RunType
<1> QED BY <1>1, <1>2

\* The empty plan.
LEMMA NoCalls == <<>> \in Plans /\ ToSet(<<>>) = {} /\ \A rule : InTurn(rule, <<>>)
<1>1. <<>> \in Plans /\ Len(<<>>) = 0
  BY DEF Plans
<1>2. ToSet(<<>>) = {}
  BY <1>1, PlanFacts
<1>3. \A rule : InTurn(rule, <<>>)
  BY <1>1 DEF InTurn
<1> QED BY <1>1, <1>2, <1>3

\* A command that has ended.
LEMMA EndedFacts ==
  ASSUME NEW x \in RunType, NEW end \in {"ok", "failed", "refused"}
  PROVE  /\ Ended(x, end) \in RunType
         /\ Ended(x, end).todo = <<>> /\ Ended(x, end).cmd = x.cmd /\ Ended(x, end).end = end
         /\ Ended(x, end).seen = x.seen /\ Ended(x, end).excused = x.excused
         /\ Ended(x, end).refused = x.refused
         /\ Ended(Ended(x, end), end) = Ended(x, end)
<1>1. <<>> \in Plans
  BY NoCalls
<1> QED BY <1>1 DEF Ended, NewRun, RunType

\* A command that has logged in as the system administrator.
LEMMA TokenFacts ==
  ASSUME NEW x \in RunType, NEW y, y = [x EXCEPT !.token = "sysadmin"]
  PROVE  /\ y \in RunType /\ y.token = "sysadmin" /\ y.saved = x.saved /\ y.inside = x.inside
         /\ y.todo = x.todo /\ y.cmd = x.cmd /\ y.end = x.end
         /\ y.seen = x.seen /\ y.refused = x.refused /\ y.excused = x.excused
BY DEF RunType, Names

\* A command that was refused an asset.
LEMMA RefusedFacts ==
  ASSUME NEW x \in RunType, NEW m \in Names, NEW y, y = [x EXCEPT !.refused = @ \cup {m}]
  PROVE  /\ y \in RunType /\ y.token = x.token /\ y.saved = x.saved /\ y.inside = x.inside
         /\ y.todo = x.todo /\ y.cmd = x.cmd /\ y.end = x.end
         /\ y.seen = x.seen /\ y.refused = x.refused \cup {m} /\ y.excused = x.excused
BY DEF RunType

\* An excuse changes nothing else.
LEMMA ExcusedFacts ==
  ASSUME NEW x \in RunType, NEW b \in BOOLEAN, NEW y, y = [x EXCEPT !.excused = b]
  PROVE  /\ y \in RunType /\ y.token = x.token /\ y.saved = x.saved /\ y.inside = x.inside
         /\ y.todo = x.todo /\ y.cmd = x.cmd /\ y.end = x.end
         /\ y.seen = x.seen /\ y.refused = x.refused /\ y.excused = b
BY DEF RunType

\* The calls of a list.
LEMMA ListFacts ==
  ASSUME NEW do \in Dos, NEW S, S \subseteq Names, IsFiniteSet(S)
  PROVE  LET s == Calls(do, SetToSeq(S)) IN
         /\ s \in Plans
         /\ \A i \in 1..Len(s) : s[i].do = do /\ s[i].of \in S
         /\ \A of \in S : \E i \in 1..Len(s) : s[i] = Call(do, of)
         /\ ToSet(s) = {Call(do, of) : of \in S}
<1> DEFINE q == SetToSeq(S)
           n == Cardinality(S)
<1>1. n \in Nat /\ IsFiniteSet(1..n) /\ Cardinality(1..n) = n
  BY FS_CardinalityType, FS_Interval
<1>2. PICK f \in Bijection(1..n, S) : TRUE
  BY FS_CardinalityType DEF ExistsBijection
<1>3. f \in [1..n -> S] /\ IsInjective(f)
  BY <1>2 DEF Bijection, Injection
<1>4. q \in [1..n -> S] /\ IsInjective(q)
  BY <1>3 DEF SetToSeq
<1>5. q \in Injection(1..n, S)
  BY <1>4 DEF Injection
<1>6. q \in Surjection(1..n, S)
  BY <1>1, <1>5, FS_Injection
<1>7. \A of \in S : \E i \in 1..n : q[i] = of
  BY <1>6 DEF Surjection
<1> HIDE DEF q, n
<1>8. \A i \in 1..n : q[i] \in S
  BY <1>4
<1> DEFINE s == Calls(do, q)
<1>9. s = [k \in 1..n |-> Call(do, q[k])]
  BY <1>4 DEF Calls
<1>10. \A i \in 1..n : s[i] = Call(do, q[i]) /\ s[i] \in CallSet /\ s[i].do = do /\ s[i].of = q[i]
  BY <1>8, <1>9, CallFacts
<1>11. s \in Plans /\ Len(s) = n
  <2>1. s \in [1..n -> CallSet]
    BY <1>9, <1>10
  <2> QED BY <1>1, <2>1, SeqDef, LenProperties DEF Plans
<1>12. ToSet(s) = {s[i] : i \in 1..n}
  BY <1>11, PlanFacts
<1> HIDE DEF s
<1>13. ToSet(s) = {Call(do, of) : of \in S}
  BY <1>7, <1>8, <1>10, <1>12
<1>14. \A of \in S : \E i \in 1..n : s[i] = Call(do, of)
  BY <1>7, <1>10
<1> QED BY <1>8, <1>10, <1>11, <1>13, <1>14 DEF s, q

(***************************************************************************)
(* A run keeps its form                                                    *)
(***************************************************************************)

\* Whatever the answer, a command stays what it is.
Kept(x, y) ==
  /\ y \in RunType /\ y.cmd = x.cmd /\ (x.excused => y.excused)
  /\ y.end # "none" => y.todo = <<>>

\* The block of one call.
LEMMA OneCall ==
  ASSUME NEW do \in Dos, NEW of \in Names
  PROVE  Calls(do, <<of>>) = <<Call(do, of)>>
BY DEF Calls

\* Going on with calls, failing and finishing keep the form of a run.
LEMMA StaysWell ==
  ASSUME NEW x \in RunType, x.end = "none"
  PROVE  /\ \A p \in Plans : Kept(x, Go(x, p))
         /\ \A p \in Plans, m \in Marks : Kept(x, Go(Note(x, m), p))
         /\ \A p \in Plans, t \in Names : Kept(x, Go(Enter(x, t), p))
         /\ \A p \in Plans : Kept(x, Go([x EXCEPT !.token = "sysadmin"], p))
         /\ \A p \in Plans, m \in Names : Kept(x, Go([x EXCEPT !.refused = @ \cup {m}], p))
         /\ Kept(x, Fail(x)) /\ Kept(x, Finish(x)) /\ Kept(x, Ended(x, "refused"))
<1>1. \A p \in Plans : Kept(x, Go(x, p))
  BY GoFacts DEF Kept
<1>2. ASSUME NEW p \in Plans, NEW m \in Marks PROVE Kept(x, Go(Note(x, m), p))
  <2> DEFINE z == Note(x, m)
  <2>1. z \in RunType /\ z.cmd = x.cmd /\ z.end = x.end /\ z.excused = x.excused
    BY NoteFacts
  <2> HIDE DEF z
  <2>2. Kept(x, Go(z, p))
    BY <2>1, GoFacts DEF Kept
  <2> QED BY <2>2 DEF z
<1>3. ASSUME NEW p \in Plans, NEW t \in Names PROVE Kept(x, Go(Enter(x, t), p))
  <2> DEFINE z == Enter(x, t)
  <2>1. z \in RunType /\ z.cmd = x.cmd /\ z.end = x.end /\ z.excused = x.excused
    BY EnterFacts
  <2> HIDE DEF z
  <2>2. Kept(x, Go(z, p))
    BY <2>1, GoFacts DEF Kept
  <2> QED BY <2>2 DEF z
<1>4. ASSUME NEW p \in Plans PROVE Kept(x, Go([x EXCEPT !.token = "sysadmin"], p))
  <2> DEFINE z == [x EXCEPT !.token = "sysadmin"]
  <2>1. z \in RunType /\ z.cmd = x.cmd /\ z.end = x.end /\ z.excused = x.excused
    BY TokenFacts
  <2> HIDE DEF z
  <2>2. Kept(x, Go(z, p))
    BY <2>1, GoFacts DEF Kept
  <2> QED BY <2>2 DEF z
<1>5. Kept(x, Fail(x)) /\ Kept(x, Finish(x)) /\ Kept(x, Ended(x, "refused"))
  <2>1. \A end \in {"ok", "failed", "refused"} : Kept(x, Ended(x, end))
    BY EndedFacts DEF Kept
  <2> QED BY <2>1 DEF Fail, Finish
<1>6. ASSUME NEW p \in Plans, NEW m \in Names PROVE Kept(x, Go([x EXCEPT !.refused = @ \cup {m}], p))
  <2> DEFINE z == [x EXCEPT !.refused = @ \cup {m}]
  <2>1. z \in RunType /\ z.cmd = x.cmd /\ z.end = x.end /\ z.excused = x.excused
    BY RefusedFacts
  <2> HIDE DEF z
  <2>2. Kept(x, Go(z, p))
    BY <2>1, GoFacts DEF Kept
  <2> QED BY <2>2 DEF z
<1> QED BY <1>1, <1>2, <1>3, <1>4, <1>5, <1>6

\* A call in front of a plan makes a plan.
LEMMA MoreCalls ==
  ASSUME NEW of \in Names, NEW p \in Plans
  PROVE  \A do \in Dos : <<Call(do, of)>> \o p \in Plans
BY PlanPush, CallFacts

\* No answer makes a run lose its form, its command or its excuse.
LEMMA AfterKeeps ==
  ASSUME NEW x, WellFormed(x), x.todo # <<>>, NEW a \in ReplyType
  PROVE  Kept(x, After(x, a)) /\ WellFormed(After(x, a))
<1> DEFINE c == Head(x.todo)
           rest == Tail(x.todo)
<1>1. /\ x \in RunType /\ x.end = "none" /\ x.cmd \in {"secure", "provision", "export", "check"}
      /\ x.cmd = "secure" => InTurn(Securing, x.todo)
  BY DEF WellFormed, RunType
<1>2. c \in CallSet /\ rest \in Plans /\ \A rule : InTurn(rule, x.todo) =>
        InTurn(rule, rest) /\ <<c, ToSet(rest)>> \in rule
  <2>1. x.todo \in Plans
    BY <1>1 DEF RunType
  <2> QED BY <2>1, PlanPop
<1>3. c.do \in Dos /\ c.of \in Names /\ c.of \in Marks /\ "user_id" \in Marks /\ "sysadmin" \in Names
  BY <1>2 DEF CallSet, Marks, Names
<1> HIDE DEF c, rest
<1>4. \A do \in Dos : <<Call(do, c.of)>> \o rest \in Plans
  BY <1>2, <1>3, MoreCalls
<1>5. Kept(x, AfterAuthenticate(x, rest, a))
  BY <1>1, <1>2, StaysWell DEF AfterAuthenticate
<1>6. Kept(x, AfterTenant(x, c, rest, a))
  <2>1. <<Call("newTenant", c.of)>> \o rest \in Plans /\ <<Call("tenantAgain", c.of)>> \o rest \in Plans
    BY <1>4 DEF Dos
  <2> QED BY <1>1, <1>2, <2>1, StaysWell DEF AfterTenant, AfterConflict
<1>7. Kept(x, AfterUser(x, c, rest, a))
  <2>1. <<Call("newAdmin", c.of)>> \o rest \in Plans /\ <<Call("adminAgain", c.of)>> \o rest \in Plans
    BY <1>4 DEF Dos
  <2> QED BY <1>1, <1>2, <1>3, <2>1, StaysWell DEF AfterUser, AfterConflict
<1>8. Kept(x, AfterLink(x, c, rest, a))
  <2>1. Calls("activate", <<c.of>>) \o rest \in Plans
    <3>1. "activate" \in Dos
      BY DEF Dos, OpenCalls
    <3> QED BY <1>3, <1>4, <3>1, OneCall
  <2> QED BY <1>1, <1>2, <2>1, StaysWell DEF AfterLink
<1>9. Kept(x, AfterLogin(x, c, rest, a))
  <2>1. "link" \in Dos /\ "loginAgain" \in Dos /\ "borrow" \in Dos
    BY DEF Dos, OpenCalls
  <2>2. Calls("link", <<c.of>>) \o Calls("loginAgain", <<c.of>>) \o rest \in Plans
    <3>1. Calls("link", <<c.of>>) \in Plans /\ Calls("loginAgain", <<c.of>>) \in Plans
      <4>1. \A do \in Dos : <<Call(do, c.of)>> \in Plans
        BY <1>3, CallFacts DEF Plans
      <4> QED BY <1>3, <2>1, <4>1, OneCall
    <3>2. \A p, q \in Plans : p \o q \in Plans
      BY PlanBlock
    <3> QED BY <1>2, <3>1, <3>2
  <2>3. <<Call("borrow", c.of)>> \o rest \in Plans
    BY <1>4, <2>1
  <2> QED BY <1>1, <1>2, <1>3, <2>2, <2>3, StaysWell DEF AfterLogin
<1>10. Kept(x, AfterAccount(x, c, rest, a))
  BY <1>6, <1>7, <1>8, <1>9 DEF AfterAccount
<1>11. Kept(x, AfterDevice(x, c, rest, a))
  BY <1>1, <1>2, <1>3, StaysWell DEF AfterDevice
<1>12. Kept(x, AfterAsset(x, c, rest, a))
  <2>1. <<Call("newAsset", c.of)>> \o rest \in Plans /\ <<Call("plainAsset", c.of)>> \o rest \in Plans
    BY <1>4 DEF Dos, TenantCalls
  <2> QED BY <1>1, <1>2, <1>3, <2>1, StaysWell DEF AfterAsset, WithoutId
<1>13. Kept(x, AfterEntity(x, c, rest, a))
  <2>1. Kept(x, AfterRelation(x, rest)) /\ Kept(x, Fail(x))
    BY <1>1, <1>2, StaysWell DEF AfterRelation
  <2> QED BY <1>11, <1>12, <2>1 DEF AfterEntity
<1>14. Kept(x, AfterToken(x, c, rest, a))
  <2>1. <<Call("borrow", c.of)>> \o rest \in Plans
    BY <1>4 DEF Dos
  <2>2. <<Call("devices", c.of), Call("leave", c.of)>> \in Plans
    <3>1. Call("devices", c.of) \in CallSet /\ Call("leave", c.of) \in CallSet
      BY <1>3, CallFacts DEF Dos, TenantCalls
    <3> QED BY <3>1 DEF Plans
  <2>3. <<Call("devices", c.of), Call("leave", c.of)>> \o rest \in Plans
    BY <1>2, <2>2, PlanBlock
  <2> QED BY <1>1, <1>2, <1>3, <2>1, <2>3, StaysWell DEF AfterToken
<1>15. Kept(x, AfterExport(x, c, rest, a))
  <2>1. \A do \in Dos : Calls(do, SetToSeq(a.items)) \in Plans
    <3>1. a.items \subseteq Names /\ IsFiniteSet(a.items)
      BY DEF ReplyType
    <3> QED BY <3>1, ListFacts
  <2>2. Calls("users", SetToSeq(a.items)) \in Plans /\ Calls("credentials", SetToSeq(a.items)) \in Plans
    BY <2>1 DEF Dos, TenantCalls
  <2>3. Calls("credentials", SetToSeq(a.items)) \o rest \in Plans
    BY <1>2, <2>2, PlanBlock
  <2>4. Kept(x, Go(x, Calls("users", SetToSeq(a.items))))
        /\ Kept(x, Go(x, Calls("credentials", SetToSeq(a.items)) \o rest))
    BY <1>1, <2>2, <2>3, StaysWell
  <2>5. Kept(x, AfterCredentials(x, c, rest, a))
    BY <1>1, <1>2, <1>3, StaysWell DEF AfterCredentials
  <2> QED BY <1>14, <2>4, <2>5 DEF AfterExport, Listed
<1>16. x.cmd = "secure" =>
         Kept(x, AfterSecure(x, c, rest, a)) /\ c.do \in {"loginTarget", "loginVendor", "change"}
  <2> SUFFICES ASSUME x.cmd = "secure"
               PROVE  Kept(x, AfterSecure(x, c, rest, a)) /\ c.do \in {"loginTarget", "loginVendor", "change"}
    OBVIOUS
  <2>1. c.do \in {"loginTarget", "loginVendor", "change"}
    <3>1. <<c, ToSet(rest)>> \in Securing
      BY <1>1, <1>2
    <3>2. FitsSecure(c, ToSet(rest))
      BY <3>1 DEF Securing
    <3> QED BY <3>2 DEF FitsSecure
  <2>2. Kept(x, AfterChange(x, a))
    BY <1>1, StaysWell DEF AfterChange
  <2>3. CASE c.do = "loginTarget"
    BY <1>1, <1>2, <2>1, <2>3, StaysWell DEF AfterSecure
  <2>4. CASE c.do = "loginVendor"
    BY <1>1, <1>2, <1>3, <2>1, <2>4, StaysWell DEF AfterSecure
  <2>5. CASE c.do = "change"
    BY <2>1, <2>2, <2>5 DEF AfterSecure
  <2> QED BY <2>1, <2>3, <2>4, <2>5
<1>17. Kept(x, After(x, a))
  BY <1>5, <1>10, <1>13, <1>15, <1>16 DEF After, c, rest
<1>18. x.cmd = "secure" => After(x, a).todo \in {rest, <<>>}
  <2> SUFFICES ASSUME x.cmd = "secure" PROVE After(x, a).todo \in {rest, <<>>}
    OBVIOUS
  <2>1. c.do \in {"loginTarget", "loginVendor", "change"}
    BY <1>16
  <2>2. After(x, a) = AfterSecure(x, c, rest, a)
    BY <2>1 DEF After, c, rest, TenantCalls
  <2>3. Fail(x).todo = <<>> /\ Finish(x).todo = <<>>
    BY <1>1, EndedFacts DEF Fail, Finish
  <2>4. Go(x, rest).todo = rest
    BY <1>1, <1>2, GoFacts
  <2>5. Go(Enter(x, "sysadmin"), rest).todo = rest
    <3>1. Enter(x, "sysadmin") \in RunType
      BY <1>1, <1>3, EnterFacts
    <3> QED BY <1>2, <3>1, GoFacts
  <2> QED BY <2>1, <2>2, <2>3, <2>4, <2>5 DEF AfterSecure, AfterChange
<1>19. x.cmd = "secure" => InTurn(Securing, After(x, a).todo)
  BY <1>1, <1>2, <1>18, NoCalls
<1> QED BY <1>1, <1>17, <1>19 DEF WellFormed, Kept

(***************************************************************************)
(* The answers to a provisioning                                           *)
(***************************************************************************)

ProvisionStands(T, x, c, rest) ==
  /\ x \in RunType /\ x.cmd = "provision" /\ x.end = "none"
  /\ c \in CallSet /\ rest \in Plans /\ InTurn(Provisioning, rest)
  /\ FitsProvision(c, ToSet(rest)) /\ ProvisionOwes(T, {c} \cup ToSet(rest), x.seen, x.refused)
  /\ ProvisionSeat(c, x.token, x.inside)

\* What the calls left of a provisioning say of the first of them.
LEMMA ProvisionFollows ==
  ASSUME NEW p \in Plans, InTurn(Provisioning, p), p # <<>>
  PROVE  /\ Only(EntityDos, ToSet(p)) => Head(p).do \in EntityDos
         /\ Head(p).do \notin EntityDos \/ Only(EntityDos, ToSet(p))
         /\ Only(AccountDos \cup EntityDos, ToSet(p)) => Head(p).do # "login"
<1> DEFINE c == Head(p)
           R == ToSet(Tail(p))
<1>1. c \in CallSet /\ ToSet(p) = {c} \cup R /\ <<c, R>> \in Provisioning
  BY PlanPop
<1> HIDE DEF c, R
<1>2. FitsProvision(c, R)
  BY <1>1 DEF Provisioning
<1>3. Only(EntityDos, ToSet(p)) <=> c.do \in EntityDos /\ Only(EntityDos, R)
  BY <1>1, Selecting
<1>4. Only(AccountDos \cup EntityDos, ToSet(p)) => c.do \in AccountDos \cup EntityDos
  BY <1>1 DEF Only
<1>5. "login" \notin AccountDos \cup EntityDos
  BY DEF AccountDos, EntityDos, AssetDos, TenantDos, AdminDos, ActivationDos
<1>6. c.do \in EntityDos => Only(EntityDos, R)
  BY <1>2 DEF FitsProvision
<1> QED BY <1>3, <1>4, <1>5, <1>6 DEF c

\* The calls about the account, about entities and the login are distinct.
LEMMA Accounts ==
  /\ \A do \in AccountDos : do \notin EntityDos
  /\ "login" \notin AccountDos /\ "login" \notin EntityDos
BY DEF AccountDos, EntityDos, AssetDos, TenantDos, AdminDos, ActivationDos

\* A command that goes on with a plan of its rule is on its course.
LEMMA ProvisionGoes ==
  ASSUME NEW z \in RunType, NEW p \in Plans, NEW T, z.cmd = "provision", z.end = "none",
         InTurn(Provisioning, p), ProvisionOwes(T, ToSet(p), z.seen, z.refused),
         p # <<>> => ProvisionSeat(Head(p), z.token, z.inside)
  PROVE  Fine(T, Go(z, p))
<1> DEFINE y == Go(z, p)
<1>1. y.todo = p /\ y.cmd = "provision" /\ y.end = "none" /\ y.seen = z.seen /\ y.refused = z.refused
      /\ y.token = z.token /\ y.inside = z.inside
  BY GoFacts
<1> HIDE DEF y
<1>2. OnCourse(T, y)
  BY <1>1 DEF OnCourse
<1>3. Fine(T, y)
  BY <1>1, <1>2 DEF Fine
<1> QED BY <1>3 DEF y

\* The next call of the plan.
LEMMA ProvisionPopped ==
  ASSUME NEW T, NEW T2, NEW x, NEW c, NEW rest, NEW z, ProvisionStands(T, x, c, rest),
         z \in RunType, z.cmd = "provision", z.end = "none",
         ProvisionOwes(T2, ToSet(rest), z.seen, z.refused),
         \/ Only(EntityDos, ToSet(rest)) /\ z.inside /\ z.token = Own
         \/ ~Only(EntityDos, ToSet(rest)) /\ ~z.inside /\ z.token = "sysadmin"
  PROVE  Fine(T2, Go(z, rest))
<1>1. rest \in Plans /\ InTurn(Provisioning, rest) /\ Only(AccountDos \cup EntityDos, ToSet(rest))
  BY DEF ProvisionStands, FitsProvision
<1>2. rest # <<>> => ProvisionSeat(Head(rest), z.token, z.inside)
  BY <1>1, ProvisionFollows DEF ProvisionSeat
<1> QED BY <1>1, <1>2, ProvisionGoes

\* A call in the place of the one that was answered.
LEMMA ProvisionPushed ==
  ASSUME NEW T, NEW T2, NEW x, NEW c, NEW rest, NEW c2 \in CallSet,
         ProvisionStands(T, x, c, rest), T \subseteq T2,
         FitsProvision(c2, ToSet(rest)), ProvisionOwes(T2, {c2} \cup ToSet(rest), x.seen, x.refused),
         c.do # "login", c2.do # "login", c2.do \in EntityDos <=> c.do \in EntityDos
  PROVE  Fine(T2, Go(x, <<c2>> \o rest))
<1> DEFINE p == <<c2>> \o rest
<1>1. rest \in Plans /\ InTurn(Provisioning, rest) /\ x \in RunType /\ x.cmd = "provision" /\ x.end = "none"
  BY DEF ProvisionStands
<1>2. <<c2, ToSet(rest)>> \in Provisioning
  <2>1. ToSet(rest) \in SUBSET CallSet
    BY <1>1, PlanFacts
  <2> QED BY <2>1 DEF Provisioning, Rules
<1>3. p \in Plans /\ p # <<>> /\ Head(p) = c2 /\ ToSet(p) = {c2} \cup ToSet(rest) /\ InTurn(Provisioning, p)
  BY <1>1, <1>2, PlanPush
<1>4. ProvisionSeat(c2, x.token, x.inside)
  BY DEF ProvisionStands, ProvisionSeat
<1> HIDE DEF p
<1>5. Fine(T2, Go(x, p))
  BY <1>1, <1>3, <1>4, ProvisionGoes
<1> QED BY <1>5 DEF p

\* What the calls of a provisioning add.
LEMMA Additions ==
  ASSUME NEW T, NEW c \in CallSet
  PROVE  T \subseteq T \cup Adds(c) /\ InstalledIn(T \cup Adds(c)) = InstalledIn(T)
<1>1. \A d : <<d, "device">> \notin Adds(c)
  BY DEF Adds
<1> QED BY <1>1 DEF InstalledIn

(***************************************************************************)
(* Answers about the account                                               *)
(***************************************************************************)

\* The calls that make the account, each for Own.
LEMMA AnsweredTenant ==
  ASSUME NEW x, NEW c, NEW rest, ProvisionStands(there, x, c, rest), c.do \in TenantDos,
         Own \in Names,
         NEW a, a \in IF Permitted(c, x.token) THEN Answers(c) ELSE {Error},
         NEW T2, T2 = IF a = Ok THEN there \cup Adds(c) ELSE there
  PROVE  Fine(T2, AfterTenant(x, c, rest, a))
<1> DEFINE R == ToSet(rest)
<1>1. /\ x \in RunType /\ x.cmd = "provision" /\ x.end = "none" /\ c \in CallSet /\ rest \in Plans
      /\ FitsProvision(c, R) /\ ProvisionOwes(there, {c} \cup R, x.seen, x.refused)
      /\ x.token = "sysadmin" /\ ~x.inside /\ c.do # "login"
  BY DEF ProvisionStands, ProvisionSeat, TenantDos, EntityDos, AssetDos
<1>2. c.of = Own /\ Has({"admin"}, Own, R) /\ HasRelations(R) /\ Only(AccountDos \cup EntityDos, R)
  BY <1>1 DEF FitsProvision, AccountDos, TenantDos
<1>3. ~Only(EntityDos, R)
  BY <1>2 DEF Only, Has, EntityDos, AssetDos
<1>4. Permitted(c, x.token) /\ a \in Answers(c)
  <2>1. Permitted(c, x.token)
    BY <1>1 DEF Permitted, TenantDos, TenantCalls, OpenCalls
  <2> QED BY <2>1
<1>5. /\ there \subseteq T2 /\ InstalledIn(T2) = InstalledIn(there)
  BY <1>1, Additions
<1>6. Has({"tenantAgain"}, Own, {c} \cup R) => <<Own, "tenant">> \in there
  BY <1>1 DEF ProvisionOwes
<1>7. CASE a.is = "ok"
  <2>1. <<Own, "tenant">> \in T2
    <3>1. CASE c.do = "newTenant"
      BY <1>2, <1>4, <1>7, <3>1 DEF Answers, Unique, Adds, Ok, Conflict, Reply
    <3>2. CASE c.do \in {"tenant", "tenantAgain"}
      BY <1>2, <1>4, <1>5, <1>7, <3>2 DEF Answers, Unique, When, Ok, Error, Reply
    <3> QED BY <3>1, <3>2 DEF TenantDos
  <2>2. ProvisionOwes(T2, R, x.seen, x.refused)
    BY <1>1, <1>5, <2>1, ProvisionPops DEF TenantDos, AdminDos, ActivationDos, AssetDos
  <2>3. Fine(T2, Go(x, rest))
    BY <1>1, <1>3, <2>2, ProvisionPopped
  <2> QED BY <1>7, <2>3 DEF AfterTenant
<1>8. CASE a.is # "ok" /\ c.do = "tenant"
  <2> DEFINE c2 == Call("newTenant", Own)
  <2>1. c2 \in CallSet /\ c2.do = "newTenant" /\ c2.of = Own
    BY CallFacts DEF Dos
  <2> HIDE DEF c2
  <2>2. ProvisionOwes(T2, {c2} \cup R, x.seen, x.refused)
    BY <1>1, <1>2, <1>5, <1>8, <2>1, ProvisionReplaces DEF AssetDos, AdminDos, ActivationDos
  <2>3. FitsProvision(c2, R)
    BY <1>2, <2>1 DEF FitsProvision, AccountDos, TenantDos, AdminDos, ActivationDos, EntityDos, AssetDos
  <2>4. c2.do \notin EntityDos /\ c.do \notin EntityDos
    BY <1>8, <2>1 DEF EntityDos, AssetDos
  <2>5. Fine(T2, Go(x, <<c2>> \o rest))
    BY <1>1, <1>5, <2>1, <2>2, <2>3, <2>4, ProvisionPushed
  <2> QED BY <1>2, <1>8, <2>5 DEF AfterTenant, c2
<1>9. CASE a.is # "ok" /\ c.do = "newTenant"
  <2> DEFINE c2 == Call("tenantAgain", Own)
  <2>1. c2 \in CallSet /\ c2.do = "tenantAgain" /\ c2.of = Own
    BY CallFacts DEF Dos
  <2> HIDE DEF c2
  <2>2. a.is = "conflict" /\ <<Own, "tenant">> \in there
    BY <1>2, <1>4, <1>9 DEF Answers, Unique, Adds, Ok, Conflict, Reply
  <2>3. ProvisionOwes(T2, {c2} \cup R, x.seen, x.refused)
    BY <1>1, <1>2, <1>5, <1>9, <2>1, <2>2, ProvisionReplaces DEF AssetDos, AdminDos, ActivationDos
  <2>4. FitsProvision(c2, R)
    BY <1>2, <2>1 DEF FitsProvision, AccountDos, TenantDos, AdminDos, ActivationDos, EntityDos, AssetDos
  <2>5. c2.do \notin EntityDos /\ c.do \notin EntityDos
    BY <1>9, <2>1 DEF EntityDos, AssetDos
  <2>6. Fine(T2, Go(x, <<c2>> \o rest))
    BY <1>1, <1>5, <2>1, <2>3, <2>4, <2>5, ProvisionPushed
  <2> QED BY <1>2, <1>9, <2>2, <2>6 DEF AfterTenant, AfterConflict, c2
<1>10. CASE a.is # "ok" /\ c.do = "tenantAgain"
  <2>1. <<Own, "tenant">> \in there
    BY <1>2, <1>6, <1>10 DEF Has
  <2>2. a.is = "ok"
    BY <1>2, <1>4, <1>10, <2>1 DEF Answers, Unique, When, Ok, Error, Reply
  <2> QED BY <1>10, <2>2
<1> QED BY <1>7, <1>8, <1>9, <1>10 DEF TenantDos

\* create_user: found, created, or lost to a rival and found again.
LEMMA AnsweredUser ==
  ASSUME NEW x, NEW c, NEW rest, ProvisionStands(there, x, c, rest), c.do \in AdminDos,
         Own \in Names,
         NEW a, a \in IF Permitted(c, x.token) THEN Answers(c) ELSE {Error},
         NEW T2, T2 = IF a = Ok THEN there \cup Adds(c) ELSE there
  PROVE  Fine(T2, AfterUser(x, c, rest, a))
<1> DEFINE R == ToSet(rest)
<1>1. /\ x \in RunType /\ x.cmd = "provision" /\ x.end = "none" /\ c \in CallSet /\ rest \in Plans
      /\ FitsProvision(c, R) /\ ProvisionOwes(there, {c} \cup R, x.seen, x.refused)
      /\ x.token = "sysadmin" /\ ~x.inside /\ c.do # "login"
  BY DEF ProvisionStands, ProvisionSeat, AdminDos, EntityDos, AssetDos
<1>2. c.of = Own /\ Has({"loginAdmin"}, Own, R) /\ HasRelations(R) /\ Only(AccountDos \cup EntityDos, R)
  BY <1>1 DEF FitsProvision, AccountDos, AdminDos
<1>3. ~Only(EntityDos, R)
  BY <1>2 DEF Only, Has, EntityDos, AssetDos
<1>4. Permitted(c, x.token) /\ a \in Answers(c)
  <2>1. Permitted(c, x.token)
    BY <1>1 DEF Permitted, AdminDos, TenantCalls, OpenCalls
  <2> QED BY <2>1
<1>5. /\ there \subseteq T2 /\ InstalledIn(T2) = InstalledIn(there)
  BY <1>1, Additions
<1>6. Has({"adminAgain"}, Own, {c} \cup R) => <<Own, "admin">> \in there
  BY <1>1 DEF ProvisionOwes
<1>7. CASE a.is = "ok"
  <2> DEFINE z == Note(x, "user_id")
  <2>1. <<Own, "admin">> \in T2
    <3>1. CASE c.do = "newAdmin"
      BY <1>2, <1>4, <1>7, <3>1 DEF Answers, Unique, Adds, Ok, Conflict, Reply
    <3>2. CASE c.do \in {"admin", "adminAgain"}
      BY <1>2, <1>4, <1>5, <1>7, <3>2 DEF Answers, Unique, When, Ok, Error, Reply
    <3> QED BY <3>1, <3>2 DEF AdminDos
  <2>2. /\ z \in RunType /\ z.cmd = "provision" /\ z.end = "none" /\ z.seen = x.seen \cup {"user_id"}
        /\ z.refused = x.refused
        /\ ~z.inside /\ z.token = "sysadmin"
    BY <1>1, NoteFacts DEF Marks
  <2> HIDE DEF z
  <2>3. ProvisionOwes(T2, R, z.seen, z.refused)
    <3>1. x.seen \subseteq z.seen /\ "user_id" \in z.seen /\ x.refused \subseteq z.refused
      BY <2>2
    <3> QED BY <1>1, <1>2, <1>5, <2>1, <3>1, ProvisionPops DEF TenantDos, AdminDos, ActivationDos, AssetDos
  <2>4. Fine(T2, Go(z, rest))
    BY <1>1, <1>3, <2>2, <2>3, ProvisionPopped
  <2> QED BY <1>7, <2>4 DEF AfterUser, z
<1>8. CASE a.is # "ok" /\ c.do = "admin"
  <2> DEFINE c2 == Call("newAdmin", Own)
  <2>1. c2 \in CallSet /\ c2.do = "newAdmin" /\ c2.of = Own
    BY CallFacts DEF Dos
  <2> HIDE DEF c2
  <2>2. ProvisionOwes(T2, {c2} \cup R, x.seen, x.refused)
    BY <1>1, <1>2, <1>5, <1>8, <2>1, ProvisionReplaces DEF AssetDos, AdminDos, ActivationDos
  <2>3. FitsProvision(c2, R)
    BY <1>2, <2>1 DEF FitsProvision, AccountDos, TenantDos, AdminDos, ActivationDos, EntityDos, AssetDos
  <2>4. c2.do \notin EntityDos /\ c.do \notin EntityDos
    BY <1>8, <2>1 DEF EntityDos, AssetDos
  <2>5. Fine(T2, Go(x, <<c2>> \o rest))
    BY <1>1, <1>5, <2>1, <2>2, <2>3, <2>4, ProvisionPushed
  <2> QED BY <1>2, <1>8, <2>5 DEF AfterUser, c2
<1>9. CASE a.is # "ok" /\ c.do = "newAdmin"
  <2> DEFINE c2 == Call("adminAgain", Own)
  <2>1. c2 \in CallSet /\ c2.do = "adminAgain" /\ c2.of = Own
    BY CallFacts DEF Dos
  <2> HIDE DEF c2
  <2>2. a.is = "conflict" /\ <<Own, "admin">> \in there
    BY <1>2, <1>4, <1>9 DEF Answers, Unique, Adds, Ok, Conflict, Reply
  <2>3. ProvisionOwes(T2, {c2} \cup R, x.seen, x.refused)
    BY <1>1, <1>2, <1>5, <1>9, <2>1, <2>2, ProvisionReplaces DEF AssetDos, AdminDos, ActivationDos
  <2>4. FitsProvision(c2, R)
    BY <1>2, <2>1 DEF FitsProvision, AccountDos, TenantDos, AdminDos, ActivationDos, EntityDos, AssetDos
  <2>5. c2.do \notin EntityDos /\ c.do \notin EntityDos
    BY <1>9, <2>1 DEF EntityDos, AssetDos
  <2>6. Fine(T2, Go(x, <<c2>> \o rest))
    BY <1>1, <1>5, <2>1, <2>3, <2>4, <2>5, ProvisionPushed
  <2> QED BY <1>2, <1>9, <2>2, <2>6 DEF AfterUser, AfterConflict, c2
<1>10. CASE a.is # "ok" /\ c.do = "adminAgain"
  <2>1. <<Own, "admin">> \in there
    BY <1>2, <1>6, <1>10 DEF Has
  <2>2. a.is = "ok"
    BY <1>2, <1>4, <1>10, <2>1 DEF Answers, Unique, When, Ok, Error, Reply
  <2> QED BY <1>10, <2>2
<1> QED BY <1>7, <1>8, <1>9, <1>10 DEF AdminDos

\* activate_user, whose failure only the login shows.
LEMMA AnsweredLink ==
  ASSUME NEW x, NEW c, NEW rest, ProvisionStands(there, x, c, rest), c.do \in {"link", "activate"},
         Own \in Names,
         NEW a, a \in IF Permitted(c, x.token) THEN Answers(c) ELSE {Error},
         NEW T2, T2 = IF a = Ok THEN there \cup Adds(c) ELSE there
  PROVE  Fine(T2, AfterLink(x, c, rest, a))
<1> DEFINE R == ToSet(rest)
<1>1. /\ x \in RunType /\ x.cmd = "provision" /\ x.end = "none" /\ c \in CallSet /\ rest \in Plans
      /\ FitsProvision(c, R) /\ ProvisionOwes(there, {c} \cup R, x.seen, x.refused)
      /\ x.token = "sysadmin" /\ ~x.inside /\ c.do # "login"
  BY DEF ProvisionStands, ProvisionSeat, EntityDos, AssetDos
<1>2. c.of = Own /\ Has({"loginAgain"}, Own, R) /\ Only(AccountDos \cup EntityDos, R)
  BY <1>1 DEF FitsProvision, AccountDos, ActivationDos
<1>3. ~Only(EntityDos, R)
  BY <1>2 DEF Only, Has, EntityDos, AssetDos
<1>4. Permitted(c, x.token) /\ a \in Answers(c)
  <2>1. Permitted(c, x.token)
    BY <1>1 DEF Permitted, TenantCalls, OpenCalls
  <2> QED BY <2>1
<1>5. /\ there \subseteq T2 /\ InstalledIn(T2) = InstalledIn(there)
  BY <1>1, Additions
<1>6. \/ a.is = "ok" /\ a = Ok
      \/ a.is # "ok" /\ <<Own, "active">> \in there
  <2>1. a = IF <<Own, "active">> \in there THEN Error ELSE Ok
    <3>1. CASE c.do = "link"
      BY <1>2, <1>4, <3>1 DEF Answers, Unique
    <3>2. CASE c.do = "activate"
      BY <1>2, <1>4, <3>2 DEF Answers, Unique
    <3> QED BY <3>1, <3>2
  <2>2. Error.is # "ok" /\ Ok.is = "ok"
    BY DEF Ok, Error, Reply
  <2> QED BY <2>1, <2>2
<1>7. ASSUME <<Own, "active">> \in T2 PROVE Fine(T2, Go(x, rest))
  <2>1. ProvisionOwes(T2, R, x.seen, x.refused)
    BY <1>1, <1>5, <1>7, ProvisionPops DEF TenantDos, AdminDos, ActivationDos, AssetDos
  <2> QED BY <1>1, <1>3, <2>1, ProvisionPopped
<1>8. CASE a.is # "ok"
  BY <1>5, <1>6, <1>7, <1>8 DEF AfterLink
<1>9. CASE a.is = "ok" /\ c.do = "activate"
  <2>1. <<Own, "active">> \in T2
    BY <1>2, <1>6, <1>9 DEF Adds
  <2>2. AfterLink(x, c, rest, a) = Go(x, rest)
    BY <1>9 DEF AfterLink
  <2> QED BY <1>7, <2>1, <2>2
<1>10. CASE a.is = "ok" /\ c.do = "link"
  <2> DEFINE c2 == Call("activate", Own)
  <2>1. "activate" \in Dos
    BY DEF Dos, OpenCalls
  <2>2. c2 \in CallSet /\ c2.do = "activate" /\ c2.of = Own /\ Calls("activate", <<Own>>) = <<c2>>
    BY <2>1, CallFacts, OneCall
  <2> HIDE DEF c2
  <2>3. ProvisionOwes(T2, {c2} \cup R, x.seen, x.refused)
    BY <1>1, <1>2, <1>5, <1>10, <2>2, ProvisionReplaces DEF AssetDos, AdminDos, ActivationDos
  <2>4. FitsProvision(c2, R)
    BY <1>2, <2>2 DEF FitsProvision, AccountDos, TenantDos, AdminDos, ActivationDos, EntityDos, AssetDos
  <2>5. c2.do \notin EntityDos /\ c.do \notin EntityDos
    BY <1>10, <2>2 DEF EntityDos, AssetDos
  <2>6. Fine(T2, Go(x, <<c2>> \o rest))
    BY <1>1, <1>5, <2>2, <2>3, <2>4, <2>5, ProvisionPushed
  <2> QED BY <1>2, <1>10, <2>2, <2>6 DEF AfterLink
<1> QED BY <1>8, <1>9, <1>10

\* The three ways to the administrator's token.
LEMMA AnsweredLogin ==
  ASSUME NEW x, NEW c, NEW rest, ProvisionStands(there, x, c, rest), c.do \in {"loginAdmin", "loginAgain"},
         Own \in Names,
         NEW a, a \in IF Permitted(c, x.token) THEN Answers(c) ELSE {Error},
         NEW T2, T2 = IF a = Ok THEN there \cup Adds(c) ELSE there
  PROVE  Fine(T2, AfterLogin(x, c, rest, a))
<1> DEFINE R == ToSet(rest)
<1>1. /\ x \in RunType /\ x.cmd = "provision" /\ x.end = "none" /\ c \in CallSet /\ rest \in Plans
      /\ FitsProvision(c, R) /\ ProvisionOwes(there, {c} \cup R, x.seen, x.refused) /\ InTurn(Provisioning, rest)
      /\ x.token = "sysadmin" /\ ~x.inside /\ c.do # "login"
  BY DEF ProvisionStands, ProvisionSeat, EntityDos, AssetDos
<1>2. c.of = Own /\ Only(EntityDos, R)
  BY <1>1 DEF FitsProvision, AccountDos, ActivationDos
<1>3. Permitted(c, x.token) /\ a \in Answers(c)
  <2>1. Permitted(c, x.token)
    BY <1>1 DEF Permitted, TenantCalls, OpenCalls
  <2> QED BY <2>1
<1>4. /\ there \subseteq T2 /\ InstalledIn(T2) = InstalledIn(there)
  BY <1>1, Additions
<1>5. a.is = "ok" <=> <<Own, "active">> \in there
  BY <1>2, <1>3 DEF Answers, Unique, When, Ok, Error, Reply
<1>6. CASE a.is = "ok"
  <2> DEFINE z == Enter(x, Own)
  <2>1. /\ z \in RunType /\ z.cmd = "provision" /\ z.end = "none" /\ z.seen = x.seen
        /\ z.refused = x.refused /\ z.inside /\ z.token = Own
    BY <1>1, EnterFacts
  <2> HIDE DEF z
  <2>2. ProvisionOwes(T2, R, z.seen, z.refused)
    BY <1>1, <1>4, <1>5, <1>6, <2>1, ProvisionPops DEF TenantDos, AdminDos, ActivationDos, AssetDos
  <2>3. Fine(T2, Go(z, rest))
    BY <1>2, <2>1, <2>2, ProvisionPopped
  <2> QED BY <1>2, <1>6, <2>3 DEF AfterLogin, z
<1>7. CASE a.is # "ok" /\ c.do = "loginAgain"
  <2>1. Has(ActivationDos, Own, {c} \cup R)
    BY <1>1, <1>5, <1>7 DEF ProvisionOwes
  <2> QED BY <1>2, <1>7, <2>1 DEF Has, Only, ActivationDos, EntityDos, AssetDos
<1>8. CASE a.is # "ok" /\ c.do = "loginAdmin"
  <2>1. "user_id" \in x.seen
    <3>1. "user_id" \in x.seen \/ Has(AdminDos, Own, {c} \cup R)
      BY <1>1 DEF ProvisionOwes
    <3> QED BY <1>2, <1>8, <3>1 DEF Has, Only, AdminDos, EntityDos, AssetDos
  <2> DEFINE c2 == Call("link", Own)
             c3 == Call("loginAgain", Own)
             q == <<c3>> \o rest
             p == <<c2>> \o q
  <2>2. "link" \in Dos /\ "loginAgain" \in Dos
    BY DEF Dos, OpenCalls
  <2>3. /\ c2 \in CallSet /\ c2.do = "link" /\ c2.of = Own /\ Calls("link", <<Own>>) = <<c2>>
        /\ c3 \in CallSet /\ c3.do = "loginAgain" /\ c3.of = Own /\ Calls("loginAgain", <<Own>>) = <<c3>>
    BY <2>2, CallFacts, OneCall
  <2> HIDE DEF c2, c3
  <2>4. R \subseteq CallSet
    BY <1>1, PlanFacts
  <2>5. <<c3, R>> \in Provisioning
    <3>1. FitsProvision(c3, R)
      <4>1. Only(AccountDos \cup EntityDos, R)
        BY <1>2 DEF Only
      <4> QED BY <1>2, <2>3, <4>1 DEF FitsProvision, AccountDos, TenantDos, AdminDos, ActivationDos, EntityDos, AssetDos
    <3> QED BY <2>3, <2>4, <3>1 DEF Provisioning, Rules
  <2>6. q \in Plans /\ ToSet(q) = {c3} \cup R /\ InTurn(Provisioning, q)
    BY <1>1, <2>3, <2>5, PlanPush
  <2> HIDE DEF q
  <2>7. <<c2, ToSet(q)>> \in Provisioning
    <3>1. Has({"loginAgain"}, Own, ToSet(q))
      BY <2>3, <2>6 DEF Has
    <3>2. Only(AccountDos \cup EntityDos, ToSet(q))
      BY <1>2, <2>3, <2>6 DEF Only, AccountDos
    <3>3. FitsProvision(c2, ToSet(q))
      BY <2>3, <3>1, <3>2 DEF FitsProvision, AccountDos, TenantDos, AdminDos, ActivationDos, EntityDos, AssetDos
    <3> QED BY <2>3, <2>4, <2>6, <3>3 DEF Provisioning, Rules
  <2>8. p \in Plans /\ p # <<>> /\ Head(p) = c2 /\ ToSet(p) = {c2} \cup ToSet(q) /\ InTurn(Provisioning, p)
    BY <2>3, <2>6, <2>7, PlanPush
  <2> HIDE DEF p
  <2>9. ProvisionOwes(T2, ToSet(p), x.seen, x.refused)
    <3>1. ProvisionOwes(there, {c3} \cup ({c} \cup R), x.seen, x.refused)
      BY <1>1, <2>3, ProvisionAdds
    <3>2. {c3} \cup ({c} \cup R) = {c} \cup ToSet(q)
      BY <2>6
    <3>3. ProvisionOwes(there, {c} \cup ToSet(q), x.seen, x.refused)
      BY <3>1, <3>2
    <3>4. ProvisionOwes(T2, {c2} \cup ToSet(q), x.seen, x.refused)
      BY <1>1, <1>2, <1>4, <1>8, <2>3, <3>3, ProvisionReplaces DEF AssetDos, AdminDos, ActivationDos
    <3> QED BY <2>8, <3>4
  <2>10. ProvisionSeat(Head(p), x.token, x.inside)
    BY <1>1, <2>3, <2>8 DEF ProvisionSeat, EntityDos, AssetDos
  <2>11. Fine(T2, Go(x, p))
    BY <1>1, <2>8, <2>9, <2>10, ProvisionGoes
  <2>12. <<c2>> \o <<c3>> \o rest = p
    <3>1. \A u, v, w \in Plans : u \o v \o w = u \o (v \o w)
      BY ConcatAssociative DEF Plans
    <3>2. <<c2>> \in Plans /\ <<c3>> \in Plans
      BY <2>3 DEF Plans
    <3> QED BY <1>1, <3>1, <3>2 DEF p, q
  <2> QED BY <1>2, <1>8, <2>1, <2>3, <2>11, <2>12 DEF AfterLogin
<1> QED BY <1>6, <1>7, <1>8

(***************************************************************************)
(* Answers about the entities                                              *)
(***************************************************************************)

\* The entities are names.
LEMMA TurbineNames ==
  /\ \A d \in ToSet(Turbines) : d \in Devices /\ Home[d] = Own
  /\ Own \in Tenants /\ Own \in Names
<1>1. \A i \in DOMAIN Turbines : Turbines[i] \in {d \in Devices : Home[d] = Own}
  BY AdminAssumption, LenProperties, ElementOfSeq
<1> QED BY <1>1, AdminAssumption DEF ToSet, Names

\* _get_or_create_asset: the asset is there, or one more call will make it.
LEMMA AnsweredAsset ==
  ASSUME NEW x, NEW c, NEW rest, ProvisionStands(there, x, c, rest), c.do \in AssetDos,
         Own \in Tenants,
         NEW a, a \in IF Permitted(c, x.token) THEN Answers(c) ELSE {Error},
         NEW T2, T2 = IF a = Ok THEN there \cup Adds(c) ELSE there
  PROVE  Fine(T2, AfterAsset(x, c, rest, a))
<1> DEFINE R == ToSet(rest)
<1>1. /\ x \in RunType /\ x.cmd = "provision" /\ x.end = "none" /\ c \in CallSet /\ rest \in Plans
      /\ FitsProvision(c, R) /\ ProvisionOwes(there, {c} \cup R, x.seen, x.refused)
      /\ x.token = Own /\ x.inside /\ c.do # "login"
  BY DEF ProvisionStands, ProvisionSeat, EntityDos, AssetDos
<1>2. /\ Only(EntityDos, R) /\ Only(AccountDos \cup EntityDos, R) /\ c.of \in Names /\ c.of \in Marks
      /\ IF c.of = Rig THEN HasRelations(R) ELSE Has({"relation"}, c.of, R)
  BY <1>1 DEF FitsProvision, EntityDos, CallSet, Marks
<1>3. Permitted(c, x.token) /\ a \in Answers(c)
  <2>1. Permitted(c, x.token)
    BY <1>1 DEF Permitted, TenantCalls, OpenCalls, AssetDos
  <2> QED BY <2>1
<1>4. /\ there \subseteq T2 /\ InstalledIn(T2) = InstalledIn(there)
  BY <1>1, Additions
<1>5. ASSUME NEW z \in RunType, <<c.of, "asset">> \in T2 \/ c.of \in z.refused,
             z.cmd = "provision", z.end = "none", x.refused \subseteq z.refused,
             z.inside, z.token = Own, z.seen \in {x.seen, x.seen \cup {c.of}}
      PROVE  Fine(T2, Go(z, rest))
  <2>1. /\ c.do \notin {"device", "relation", "tenant", "newTenant"} \cup AdminDos \cup ActivationDos
        /\ x.seen \subseteq z.seen /\ \A m \in z.seen \ x.seen : c.do \in AssetDos /\ m = c.of
    BY <1>5 DEF TenantDos, AdminDos, ActivationDos, AssetDos
  <2>2. ProvisionOwes(T2, R, z.seen, z.refused)
    <3>1. c \in CallSet /\ FitsProvision(c, R) /\ ProvisionOwes(there, {c} \cup R, x.seen, x.refused)
      BY <1>1
    <3>2. <<c.of, "asset">> \in T2 \/ c.of \in z.refused
      BY <1>5
    <3>3. x.refused \subseteq z.refused
      BY <1>5
    <3> HIDE DEF R
    <3> QED BY <1>4, <2>1, <3>1, <3>2, <3>3, ProvisionPops
  <2> QED BY <1>2, <1>5, <2>2, ProvisionPopped
<1>6. ASSUME NEW do \in {"newAsset", "plainAsset"}
      PROVE  Fine(T2, Go(x, <<Call(do, c.of)>> \o rest))
  <2> DEFINE c2 == Call(do, c.of)
  <2>1. do \in Dos
    BY DEF Dos, TenantCalls
  <2>2. c2 \in CallSet /\ c2.do = do /\ c2.of = c.of
    BY <1>2, <2>1, CallFacts
  <2> HIDE DEF c2
  <2>3. ProvisionOwes(T2, {c2} \cup R, x.seen, x.refused)
    BY <1>1, <1>4, <2>2, ProvisionReplaces DEF AssetDos, TenantDos, AdminDos, ActivationDos
  <2>4. FitsProvision(c2, R)
    BY <1>2, <2>2 DEF FitsProvision, AccountDos, TenantDos, AdminDos, ActivationDos, EntityDos, AssetDos
  <2>5. c2.do \in EntityDos /\ c.do \in EntityDos /\ c2.do # "login"
    BY <2>2 DEF EntityDos, AssetDos
  <2>6. Fine(T2, Go(x, <<c2>> \o rest))
    BY <1>1, <1>4, <2>2, <2>3, <2>4, <2>5, ProvisionPushed
  <2> QED BY <2>6 DEF c2
<1>7. CASE a.is = "ok"
  <2> DEFINE z == Note(x, c.of)
  <2>1. <<c.of, "asset">> \in T2
    <3>1. CASE c.do = "asset"
      BY <1>3, <1>4, <1>7, <3>1 DEF Answers, Unique, When, Ok, Error, Reply
    <3>2. CASE c.do \in {"newAsset", "plainAsset"}
      <4>1. a = Ok
        BY <1>3, <1>7, <3>2 DEF Answers, Unique, Ok, Error, Conflict, Reply
      <4> QED BY <3>2, <4>1 DEF Adds
    <3> QED BY <3>1, <3>2 DEF AssetDos
  <2>2. /\ z \in RunType /\ z.cmd = "provision" /\ z.end = "none" /\ z.seen = x.seen \cup {c.of}
        /\ z.refused = x.refused /\ z.inside /\ z.token = Own
    BY <1>1, <1>2, NoteFacts
  <2> HIDE DEF z
  <2>3. Fine(T2, Go(z, rest))
    BY <1>5, <2>1, <2>2
  <2> QED BY <1>7, <2>3 DEF AfterAsset, z
<1>8. CASE a.is # "ok" /\ c.do = "asset"
  <2>1. AfterAsset(x, c, rest, a) = Go(x, <<Call("newAsset", c.of)>> \o rest)
    BY <1>8 DEF AfterAsset
  <2> QED BY <1>6, <2>1
<1>9. CASE a.is = "conflict" /\ c.do = "newAsset"
  <2>1. AfterAsset(x, c, rest, a) = Go(x, <<Call("plainAsset", c.of)>> \o rest)
    BY <1>9 DEF AfterAsset, WithoutId
  <2> QED BY <1>6, <2>1
<1>10. CASE a.is = "conflict" /\ c.do = "plainAsset"
  <2>1. <<c.of, "asset">> \in there
    <3>1. Adds(c) = {<<c.of, "asset">>}
      BY <1>10 DEF Adds
    <3> QED BY <1>3, <1>10, <3>1 DEF Answers, Unique, Ok, Error, Conflict, Reply
  <2>2. AfterAsset(x, c, rest, a) = Go(x, rest)
    BY <1>10 DEF AfterAsset
  <2> QED BY <1>1, <1>4, <1>5, <2>1, <2>2
<1>11. CASE a.is = "error" /\ c.do \in {"newAsset", "plainAsset"}
  <2> DEFINE z == [x EXCEPT !.refused = @ \cup {c.of}]
  <2>1. AfterAsset(x, c, rest, a) = Go(z, rest)
    BY <1>11 DEF AfterAsset
  <2>2. /\ z \in RunType /\ z.cmd = "provision" /\ z.end = "none" /\ z.seen = x.seen
        /\ z.refused = x.refused \cup {c.of} /\ z.inside /\ z.token = Own
    BY <1>1, <1>2, RefusedFacts
  <2> HIDE DEF z
  <2>3. Fine(T2, Go(z, rest))
    BY <1>5, <2>2
  <2> QED BY <2>1, <2>3
<1>12. c.do \in {"newAsset", "plainAsset"} => a.is \in {"ok", "conflict", "error"}
  BY <1>3 DEF Answers, Unique, Ok, Error, Conflict, Reply
<1> QED BY <1>7, <1>8, <1>9, <1>10, <1>11, <1>12 DEF AssetDos

\* Every call inside the block of run_provision_entities.
LEMMA AnsweredEntity ==
  ASSUME NEW x, NEW c, NEW rest, ProvisionStands(there, x, c, rest), c.do \in EntityDos,
         Own \in Tenants,
         NEW a, a \in IF Permitted(c, x.token) THEN Answers(c) ELSE {Error},
         NEW T2, T2 = IF a = Ok THEN there \cup Adds(c) ELSE there
  PROVE  Fine(T2, AfterEntity(x, c, rest, a))
<1> DEFINE R == ToSet(rest)
<1>1. /\ x \in RunType /\ x.cmd = "provision" /\ x.end = "none" /\ c \in CallSet /\ rest \in Plans
      /\ FitsProvision(c, R) /\ ProvisionOwes(there, {c} \cup R, x.seen, x.refused)
      /\ x.token = Own /\ x.inside /\ c.do # "login"
  BY DEF ProvisionStands, ProvisionSeat, EntityDos, AssetDos
<1>2. /\ Only(EntityDos, R) /\ c.of \in Names /\ c.of \in Marks
  BY <1>1 DEF FitsProvision, CallSet, Marks
<1>3. Permitted(c, x.token) /\ a \in Answers(c)
  <2>1. Permitted(c, x.token)
    BY <1>1 DEF Permitted, TenantCalls, OpenCalls, EntityDos, AssetDos
  <2> QED BY <2>1
<1>4. /\ there \subseteq T2 /\ InstalledIn(T2) = InstalledIn(there)
  BY <1>1, Additions
<1>5. CASE c.do = "device"
  <2>1. c.of \in ToSet(Turbines) /\ HasRelations(R)
    BY <1>1, <1>5 DEF FitsProvision
  <2>2. a.is = "ok" <=> <<c.of, "device">> \in there
    BY <1>3, <1>5 DEF Answers, Unique, When, Ok, Error, Reply
  <2>3. CASE a.is = "ok"
    <3> DEFINE z == Note(x, c.of)
    <3>1. /\ z \in RunType /\ z.cmd = "provision" /\ z.end = "none" /\ z.seen = x.seen \cup {c.of}
          /\ z.refused = x.refused /\ z.inside /\ z.token = Own
      BY <1>1, <1>2, NoteFacts
    <3> HIDE DEF z
    <3>2. c.of \in InstalledIn(there)
      <4>1. c.of \in Devices
        BY <2>1, TurbineNames
      <4> QED BY <2>2, <2>3, <4>1 DEF InstalledIn
    <3>3. ProvisionOwes(T2, R, z.seen, z.refused)
      BY <1>1, <1>4, <1>5, <2>1, <3>1, <3>2, ProvisionPops DEF TenantDos, AdminDos, ActivationDos, AssetDos
    <3>4. Fine(T2, Go(z, rest))
      BY <1>2, <3>1, <3>3, ProvisionPopped
    <3> QED BY <1>5, <2>3, <3>4 DEF AfterEntity, AfterDevice, z
  <2>4. CASE a.is # "ok"
    <3> DEFINE z == Fail(x)
    <3>1. AfterEntity(x, c, rest, a) = z
      BY <1>5, <2>4 DEF AfterEntity, AfterDevice
    <3>2. z.end = "failed" /\ z.cmd = "provision"
      BY <1>1, EndedFacts DEF Fail
    <3> HIDE DEF z
    <3>3. ~(ToSet(Turbines) \subseteq InstalledIn(there))
      BY <2>1, <2>2, <2>4 DEF InstalledIn
    <3>4. Account \subseteq there
      <4>1. <<Own, "tenant">> \in there /\ <<Own, "admin">> \in there /\ <<Own, "active">> \in there
        <5>1. \A dos : Has(dos, Own, {c} \cup R) => \E do \in dos : do \in EntityDos
          BY <1>2, <1>5 DEF Has, Only, EntityDos
        <5>2. /\ ~Has({"tenant", "newTenant"}, Own, {c} \cup R)
              /\ ~Has(AdminDos, Own, {c} \cup R) /\ ~Has(ActivationDos, Own, {c} \cup R)
          BY <5>1 DEF EntityDos, AssetDos, AdminDos, ActivationDos
        <5>3. ProvisionOwes(there, {c} \cup R, x.seen, x.refused)
          BY <1>1
        <5> QED BY <5>2, <5>3 DEF ProvisionOwes
      <4> QED BY <4>1 DEF Account
    <3>5. Failed(T2, z)
      BY <1>4, <3>2, <3>3, <3>4 DEF Failed
    <3>6. Fine(T2, z)
      BY <3>2, <3>5 DEF Fine
    <3> QED BY <3>1, <3>6
  <2> QED BY <2>3, <2>4
<1>6. CASE c.do = "relation"
  <2>1. a = Ok
    BY <1>3, <1>6 DEF Answers, Unique
  <2>2. a.is # "raised"
    BY <2>1 DEF Ok, Reply
  <2>3. <<c.of, "related">> \in T2
    BY <1>6, <2>1 DEF Adds
  <2>4. ProvisionOwes(T2, R, x.seen, x.refused)
    BY <1>1, <1>4, <1>6, <2>3, ProvisionPops DEF TenantDos, AdminDos, ActivationDos, AssetDos
  <2>5. Fine(T2, Go(x, rest))
    BY <1>1, <1>2, <2>4, ProvisionPopped
  <2> QED BY <1>6, <2>2, <2>5 DEF AfterEntity, AfterRelation
<1>7. CASE c.do \in AssetDos
  <2>1. a.is # "raised"
    <3>1. c.do \notin {"tenants", "devices"}
      BY <1>7 DEF AssetDos
    <3> QED BY <1>3, <1>7 DEF Answers, Unique, When, Ok, Error, Conflict, Reply, AssetDos
  <2>2. AfterEntity(x, c, rest, a) = AfterAsset(x, c, rest, a)
    BY <1>7, <2>1 DEF AfterEntity, AssetDos
  <2>3. Fine(T2, AfterAsset(x, c, rest, a))
    BY <1>7, AnsweredAsset
  <2> QED BY <2>2, <2>3
<1> QED BY <1>5, <1>6, <1>7 DEF EntityDos

(***************************************************************************)
(* The answers to an export                                                *)
(***************************************************************************)
Exports(x) == x \in RunType /\ x.cmd \in {"export", "check"} /\ x.end = "none"

ExportStands(T, x, c, rest) ==
  /\ Exports(x)
  /\ c \in CallSet /\ rest \in Plans /\ InTurn(Exporting, rest)
  /\ FitsExport(c, ToSet(rest)) /\ ExportOwes(T, {c} \cup ToSet(rest), x.seen)
  /\ ExportSeat(c, x.token, x.inside, x.saved)

\* What the calls left of an export say of the first of them.
LEMMA ExportFollows ==
  ASSUME NEW p \in Plans, InTurn(Exporting, p), p # <<>>
  PROVE  /\ Only({"users"}, ToSet(p)) => Head(p).do = "users"
         /\ Only({"tenants"}, ToSet(p)) => Head(p).do = "tenants"
         /\ Only({"credentials", "leave", "users"}, ToSet(p)) /\ Some({"leave"}, ToSet(p)) =>
              Head(p).do \in {"credentials", "leave"}
<1> DEFINE c == Head(p)
           R == ToSet(Tail(p))
<1>1. c \in CallSet /\ ToSet(p) = {c} \cup R /\ <<c, R>> \in Exporting
  BY PlanPop
<1> HIDE DEF c, R
<1>2. FitsExport(c, R)
  BY <1>1 DEF Exporting
<1>3. c.do = "users" => ~Some({"leave"}, ToSet(p))
  BY <1>1, <1>2 DEF FitsExport, Some, Only
<1>4. /\ Only({"users"}, ToSet(p)) => c.do = "users"
      /\ Only({"tenants"}, ToSet(p)) => c.do = "tenants"
      /\ Only({"credentials", "leave", "users"}, ToSet(p)) => c.do \in {"credentials", "leave", "users"}
  BY <1>1 DEF Only
<1> QED BY <1>3, <1>4 DEF c

\* An export that goes on with a plan of its rule is on its course.
LEMMA ExportGoes ==
  ASSUME NEW z, Exports(z), NEW p \in Plans, NEW T,
         InTurn(Exporting, p), ExportOwes(T, ToSet(p), z.seen),
         p # <<>> => ExportSeat(Head(p), z.token, z.inside, z.saved)
  PROVE  Fine(T, Go(z, p))
<1> DEFINE y == Go(z, p)
<1>1. y.todo = p /\ y.cmd = z.cmd /\ y.end = "none" /\ y.seen = z.seen
      /\ y.token = z.token /\ y.inside = z.inside /\ y.saved = z.saved
  BY GoFacts DEF Exports
<1> HIDE DEF y
<1>2. OnCourse(T, y)
  BY <1>1 DEF OnCourse, Exports
<1>3. Fine(T, y)
  BY <1>1, <1>2 DEF Fine
<1> QED BY <1>3 DEF y

\* The list of the tenants, once the token is the administrator's.
LEMMA AnsweredTenants ==
  ASSUME NEW x, NEW c, NEW rest, ExportStands(there, x, c, rest), c.do = "tenants", World(there),
         NEW a, a \in IF Permitted(c, x.token) THEN Answers(c) ELSE {Error}
  PROVE  Fine(there, AfterExport(x, c, rest, a))
<1> DEFINE ts == {t \in Tenants : <<t, "tenant">> \in there}
           p == Calls("users", SetToSeq(ts))
<1>1. /\ Exports(x) /\ x \in RunType
      /\ ExportOwes(there, {c} \cup ToSet(rest), x.seen)
      /\ x.token = "sysadmin" /\ ~x.inside
  BY DEF ExportStands, ExportSeat, BlockDos, Exports
<1>2. a = Reply("ok", ts)
  <2>1. Permitted(c, x.token)
    BY <1>1 DEF Permitted, TenantCalls, OpenCalls
  <2> QED BY <2>1 DEF Answers, Unique
<1>3. AfterExport(x, c, rest, a) = Go(x, p)
  <2>1. a.items = ts
    BY <1>2 DEF Reply
  <2> QED BY <2>1 DEF AfterExport, Listed
<1>4. IsFiniteSet(ts) /\ ts \subseteq Tenants /\ ts \subseteq Names
  BY AdminAssumption, FS_Subset DEF Names
<1>5. /\ p \in Plans
      /\ \A i \in 1..Len(p) : p[i].do = "users" /\ p[i].of \in ts
      /\ ToSet(p) = {Call("users", t) : t \in ts}
  <2>1. "users" \in Dos
    BY DEF Dos
  <2> QED BY <1>4, <2>1, ListFacts
<1>6. \A t \in ts : Call("users", t).do = "users" /\ Call("users", t).of = t
  BY DEF Call
<1>7. \A d \in InstalledIn(there) : Home[d] \in ts
  BY AdminAssumption DEF World, InstalledIn
<1> HIDE DEF ts, p
<1>8. InTurn(Exporting, p)
  <2> SUFFICES ASSUME NEW i \in 1..Len(p) PROVE <<p[i], Behind(p, i)>> \in Exporting
    BY DEF InTurn
  <2>1. p[i] \in CallSet /\ Behind(p, i) \subseteq CallSet /\ Only({"users"}, Behind(p, i))
    <3>1. Len(p) \in Nat /\ \A j \in 1..Len(p) : p[j] \in CallSet
      BY <1>5, PlanFacts
    <3>2. \A j \in (i + 1)..Len(p) : j \in 1..Len(p)
      BY <3>1
    <3> QED BY <1>5, <3>1, <3>2 DEF Behind, Only
  <2>2. FitsExport(p[i], Behind(p, i))
    BY <1>4, <1>5, <2>1 DEF FitsExport, BlockDos
  <2> QED BY <2>1, <2>2 DEF Exporting, Rules
<1>9. ExportOwes(there, ToSet(p), x.seen)
  <2>1. \A dos, of : Has(dos, of, ToSet(p)) <=> "users" \in dos /\ of \in ts
    BY <1>5, <1>6 DEF Has
  <2>2. x.seen \subseteq InstalledIn(there)
    BY <1>1 DEF ExportOwes
  <2> QED BY <1>7, <2>1, <2>2 DEF ExportOwes
<1>10. p # <<>> => ExportSeat(Head(p), x.token, x.inside, x.saved)
  <2> SUFFICES ASSUME p # <<>> PROVE ExportSeat(Head(p), x.token, x.inside, x.saved)
    OBVIOUS
  <2>1. Head(p) \in ToSet(p)
    BY <1>5, PlanPop
  <2>2. Head(p).do = "users"
    BY <1>5, <1>6, <2>1
  <2> QED BY <1>1, <2>2 DEF ExportSeat, BlockDos
<1>11. Fine(there, Go(x, p))
  BY <1>1, <1>5, <1>8, <1>9, <1>10, ExportGoes
<1> QED BY <1>3, <1>11

\* Two calls, one after the other.
LEMMA TwoCalls ==
  ASSUME NEW c \in CallSet, NEW d \in CallSet
  PROVE  <<c>> \o <<d>> = <<c, d>>
<1> DEFINE u == <<c>>
           v == <<d>>
           w == <<c, d>>
<1>1. /\ u \in Seq(CallSet) /\ Len(u) = 1 /\ u[1] = c
      /\ v \in Seq(CallSet) /\ Len(v) = 1 /\ v[1] = d
      /\ w \in Seq(CallSet) /\ Len(w) = 2 /\ w[1] = c /\ w[2] = d
  OBVIOUS
<1> HIDE DEF u, v, w
<1>2. u \o v \in Seq(CallSet) /\ Len(u \o v) = 2 /\ (u \o v)[1] = c /\ (u \o v)[2] = d
  BY <1>1, ConcatProperties
<1>3. \A i \in 1..2 : (u \o v)[i] = w[i]
  BY <1>1, <1>2
<1>4. u \o v = w
  BY <1>1, <1>2, <1>3, SeqEqual
<1> QED BY <1>4 DEF u, v, w

\* The user of a tenant, and the token that is borrowed from it.
LEMMA AnsweredToken ==
  ASSUME NEW x, NEW c, NEW rest, ExportStands(there, x, c, rest), c.do \in {"users", "borrow"},
         World(there),
         NEW a, a \in IF Permitted(c, x.token) THEN Answers(c) ELSE {Error}
  PROVE  Fine(there, AfterToken(x, c, rest, a))
<1> DEFINE R == ToSet(rest)
<1>1. /\ Exports(x) /\ x \in RunType
      /\ c \in CallSet /\ rest \in Plans /\ InTurn(Exporting, rest)
      /\ ExportOwes(there, {c} \cup R, x.seen)
      /\ x.token = "sysadmin" /\ ~x.inside
      /\ Only({"users"}, R) /\ c.of \in Tenants /\ c.of \in Names /\ R \subseteq CallSet
  <2>1. rest \in Plans /\ R \subseteq CallSet
    BY PlanFacts DEF ExportStands
  <2> QED BY <2>1 DEF ExportStands, Exports, ExportSeat, BlockDos, FitsExport, Names
<1>2. a \in {Ok, Error} /\ (a = Ok <=> <<c.of, "admin">> \in there)
  <2>1. Permitted(c, x.token)
    BY <1>1 DEF Permitted, TenantCalls, OpenCalls
  <2>2. Ok # Error
    BY DEF Ok, Error, Reply
  <2> QED BY <2>1, <2>2 DEF Answers, Unique, When
<1>3. Ok.is = "ok" /\ Error.is = "error"
  BY DEF Ok, Error, Reply
<1>4. rest # <<>> => Head(rest).do = "users"
  BY <1>1, ExportFollows
<1>5. CASE a = Error
  <2>1. AfterToken(x, c, rest, a) = Go(x, rest)
    BY <1>3, <1>5 DEF AfterToken
  <2>2. \A d \in InstalledIn(there) : c.of # Home[d]
    BY <1>2, <1>3, <1>5 DEF World
  <2>3. ExportOwes(there, R, x.seen)
    BY <1>1, <2>2, ExportPops
  <2>4. rest # <<>> => ExportSeat(Head(rest), x.token, x.inside, x.saved)
    BY <1>1, <1>4 DEF ExportSeat, BlockDos
  <2>5. Fine(there, Go(x, rest))
    BY <1>1, <2>3, <2>4, ExportGoes
  <2> QED BY <2>1, <2>5
<1>6. CASE a = Ok /\ c.do = "users"
  <2> DEFINE c2 == Call("borrow", c.of)
             p == <<c2>> \o rest
  <2>1. AfterToken(x, c, rest, a) = Go(x, p)
    BY <1>3, <1>6 DEF AfterToken
  <2>2. "borrow" \in Dos
    BY DEF Dos
  <2>3. c2 \in CallSet /\ c2.do = "borrow" /\ c2.of = c.of
    BY <1>1, <2>2, CallFacts
  <2> HIDE DEF c2
  <2>4. <<c2, R>> \in Exporting
    BY <1>1, <2>3 DEF Exporting, Rules, FitsExport, BlockDos
  <2>5. p \in Plans /\ p # <<>> /\ Head(p) = c2 /\ ToSet(p) = {c2} \cup R /\ InTurn(Exporting, p)
    BY <1>1, <2>3, <2>4, PlanPush
  <2> HIDE DEF p
  <2>6. ExportOwes(there, {c2} \cup R, x.seen)
    BY <1>1, <1>6, <2>3, Selecting DEF ExportOwes
  <2>7. ExportSeat(c2, x.token, x.inside, x.saved)
    BY <1>1, <2>3 DEF ExportSeat, BlockDos
  <2>8. Fine(there, Go(x, p))
    <3>1. ExportOwes(there, ToSet(p), x.seen) /\ ExportSeat(Head(p), x.token, x.inside, x.saved)
      BY <2>5, <2>6, <2>7
    <3> QED BY <1>1, <2>5, <3>1, ExportGoes
  <2> QED BY <2>1, <2>8
<1>7. CASE a = Ok /\ c.do = "borrow"
  <2> DEFINE c2 == Call("devices", c.of)
             c3 == Call("leave", c.of)
             q == <<c3>> \o rest
             p == <<c2>> \o q
             z == Enter(x, c.of)
  <2>1. AfterToken(x, c, rest, a) = Go(z, <<c2, c3>> \o rest)
    BY <1>3, <1>7 DEF AfterToken
  <2>2. "devices" \in Dos /\ "leave" \in Dos
    BY DEF Dos, TenantCalls
  <2>3. /\ c2 \in CallSet /\ c2.do = "devices" /\ c2.of = c.of
        /\ c3 \in CallSet /\ c3.do = "leave" /\ c3.of = c.of
    BY <1>1, <2>2, CallFacts
  <2>4. /\ Exports(z) /\ z.seen = x.seen
        /\ z.inside /\ z.token \in Tenants /\ z.saved = "sysadmin"
    BY <1>1, EnterFacts DEF Exports
  <2> HIDE DEF c2, c3, z
  <2>5. <<c2, c3>> \o rest = p
    <3>1. \A u, v, w \in Plans : u \o v \o w = u \o (v \o w)
      BY ConcatAssociative DEF Plans
    <3>2. <<c2>> \in Plans /\ <<c3>> \in Plans
      BY <2>3 DEF Plans
    <3>3. <<c2>> \o <<c3>> = <<c2, c3>>
      BY <2>3, TwoCalls
    <3>4. <<c2>> \o <<c3>> \o rest = <<c2>> \o (<<c3>> \o rest)
      BY <1>1, <3>1, <3>2
    <3> QED BY <3>3, <3>4 DEF p, q
  <2>6. <<c3, R>> \in Exporting
    BY <1>1, <2>3 DEF Exporting, Rules, FitsExport, BlockDos
  <2>7. q \in Plans /\ ToSet(q) = {c3} \cup R /\ InTurn(Exporting, q)
    BY <1>1, <2>3, <2>6, PlanPush
  <2> HIDE DEF q
  <2>8. <<c2, ToSet(q)>> \in Exporting
    <3>1. Only({"credentials", "leave", "users"}, ToSet(q)) /\ Some({"leave"}, ToSet(q))
      BY <1>1, <2>3, <2>7 DEF Only, Some
    <3>2. FitsExport(c2, ToSet(q))
      BY <1>1, <2>3, <3>1 DEF FitsExport, BlockDos
    <3> QED BY <1>1, <2>3, <2>7, <3>2 DEF Exporting, Rules
  <2>9. p \in Plans /\ p # <<>> /\ Head(p) = c2 /\ ToSet(p) = {c2} \cup ToSet(q) /\ InTurn(Exporting, p)
    BY <2>3, <2>7, <2>8, PlanPush
  <2> HIDE DEF p
  <2>10. ExportOwes(there, ToSet(p), z.seen)
    <3>1. ToSet(p) = {c2} \cup ({c3} \cup R)
      BY <2>7, <2>9
    <3>2. /\ \A dos : Some(dos, ToSet(p)) <=> "devices" \in dos \/ "leave" \in dos \/ Some(dos, R)
          /\ \A dos, of : Has(dos, of, ToSet(p)) <=>
               ("devices" \in dos /\ c.of = of) \/ ("leave" \in dos /\ c.of = of) \/ Has(dos, of, R)
      BY <2>3, <3>1 DEF Some, Has
    <3> QED BY <1>1, <1>7, <2>4, <3>2, Selecting DEF ExportOwes
  <2>11. ExportSeat(c2, z.token, z.inside, z.saved)
    BY <2>3, <2>4 DEF ExportSeat, BlockDos
  <2>12. Fine(there, Go(z, p))
    <3>1. ExportSeat(Head(p), z.token, z.inside, z.saved)
      BY <2>9, <2>11
    <3> QED BY <2>4, <2>9, <2>10, <3>1, ExportGoes
  <2> QED BY <2>1, <2>5, <2>12
<1> QED BY <1>2, <1>5, <1>6, <1>7

\* The devices of a tenant.
LEMMA AnsweredDevices ==
  ASSUME NEW x, NEW c, NEW rest, ExportStands(there, x, c, rest), c.do = "devices",
         NEW a, a \in IF Permitted(c, x.token) THEN Answers(c) ELSE {Error}
  PROVE  Fine(there, AfterExport(x, c, rest, a))
<1> DEFINE R == ToSet(rest)
           ds == {d \in Installed : Home[d] = c.of}
           s == Calls("credentials", SetToSeq(ds))
           p == s \o rest
<1>1. /\ Exports(x) /\ x \in RunType
      /\ c \in CallSet /\ rest \in Plans /\ InTurn(Exporting, rest)
      /\ ExportOwes(there, {c} \cup R, x.seen)
      /\ x.token \in Tenants /\ x.inside /\ x.saved = "sysadmin" /\ R \subseteq CallSet
  <2>1. rest \in Plans /\ R \subseteq CallSet
    BY PlanFacts DEF ExportStands
  <2> QED BY <2>1 DEF ExportStands, ExportSeat, BlockDos, Exports
<1>2. Only({"credentials", "leave", "users"}, R) /\ Some({"leave"}, R)
  BY DEF ExportStands, FitsExport
<1>3. a = Reply("ok", ds)
  <2>1. Permitted(c, x.token)
    BY <1>1 DEF Permitted, TenantCalls, OpenCalls
  <2> QED BY <2>1 DEF Answers, Unique
<1>4. AfterExport(x, c, rest, a) = Go(x, p)
  <2>1. a.items = ds
    BY <1>3 DEF Reply
  <2> QED BY <2>1 DEF AfterExport, Listed
<1>5. IsFiniteSet(ds) /\ ds \subseteq Devices /\ ds \subseteq Names /\ ds \subseteq InstalledIn(there)
      /\ \A d \in InstalledIn(there) : Home[d] = c.of => d \in ds
  BY AdminAssumption, FS_Subset DEF Names, Installed, InstalledIn
<1>6. /\ s \in Plans
      /\ \A i \in 1..Len(s) : s[i].do = "credentials" /\ s[i].of \in ds
      /\ ToSet(s) = {Call("credentials", d) : d \in ds}
  <2>1. "credentials" \in Dos
    BY DEF Dos, TenantCalls
  <2> QED BY <1>5, <2>1, ListFacts
<1>7. \A d \in ds : Call("credentials", d).do = "credentials" /\ Call("credentials", d).of = d
  BY DEF Call
<1> HIDE DEF ds, s
<1>8. ASSUME NEW i \in 1..Len(s) PROVE <<s[i], Behind(s, i) \cup R>> \in Exporting
  <2>1. s[i] \in CallSet /\ Behind(s, i) \subseteq CallSet /\ Only({"credentials"}, Behind(s, i))
    <3>1. Len(s) \in Nat /\ \A j \in 1..Len(s) : s[j] \in CallSet
      BY <1>6, PlanFacts
    <3>2. \A j \in (i + 1)..Len(s) : j \in 1..Len(s)
      BY <3>1
    <3> QED BY <1>6, <3>1, <3>2 DEF Behind, Only
  <2> DEFINE B == Behind(s, i) \cup R
  <2>2. B \subseteq CallSet /\ Only({"credentials", "leave", "users"}, B) /\ Some({"leave"}, B)
    BY <1>1, <1>2, <2>1 DEF Only, Some
  <2> HIDE DEF B
  <2>3. FitsExport(s[i], B)
    BY <1>5, <1>6, <2>2 DEF FitsExport, BlockDos
  <2>4. <<s[i], B>> \in Exporting
    BY <2>1, <2>2, <2>3 DEF Exporting, Rules
  <2> QED BY <2>4 DEF B
<1>9. p \in Plans /\ ToSet(p) = ToSet(s) \cup R /\ InTurn(Exporting, p)
  BY <1>1, <1>6, <1>8, PlanBlock
<1> HIDE DEF p
<1>10. ExportOwes(there, ToSet(p), x.seen)
  <2>1. \A dos, of : Has(dos, of, ToSet(p)) <=> ("credentials" \in dos /\ of \in ds) \/ Has(dos, of, R)
    BY <1>6, <1>7, <1>9 DEF Has
  <2>2. \A dos : Some(dos, R) => Some(dos, ToSet(p))
    BY <1>9 DEF Some
  <2>3. \A d \in Devices : Has({"credentials"}, d, ToSet(p)) => d \in InstalledIn(there)
    <3>1. \A d \in Devices : Has({"credentials"}, d, R) => d \in InstalledIn(there)
      BY <1>1, Selecting DEF ExportOwes
    <3> QED BY <1>5, <2>1, <3>1
  <2>4. ASSUME NEW d \in InstalledIn(there)
        PROVE  \/ d \in x.seen \/ Some({"tenants"}, ToSet(p)) \/ Has({"credentials"}, d, ToSet(p))
               \/ Has({"users", "borrow", "devices"}, Home[d], ToSet(p))
    <3>1. \/ d \in x.seen \/ Some({"tenants"}, {c} \cup R) \/ Has({"credentials"}, d, {c} \cup R)
          \/ Has({"users", "borrow", "devices"}, Home[d], {c} \cup R)
      BY <1>1 DEF ExportOwes
    <3>2. \/ d \in x.seen \/ Some({"tenants"}, R) \/ Has({"credentials"}, d, R)
          \/ Home[d] = c.of \/ Has({"users", "borrow", "devices"}, Home[d], R)
      BY <3>1, Selecting
    <3>3. d \in ds => Has({"credentials"}, d, ToSet(p))
      BY <2>1
    <3> QED BY <1>5, <2>1, <2>2, <3>2, <3>3
  <2> QED BY <1>1, <2>3, <2>4 DEF ExportOwes
<1>11. p # <<>> => ExportSeat(Head(p), x.token, x.inside, x.saved)
  <2> SUFFICES ASSUME p # <<>> PROVE ExportSeat(Head(p), x.token, x.inside, x.saved)
    OBVIOUS
  <2>1. Only({"credentials", "leave", "users"}, ToSet(p)) /\ Some({"leave"}, ToSet(p))
    BY <1>2, <1>6, <1>7, <1>9 DEF Only, Some
  <2>2. Head(p).do \in {"credentials", "leave"}
    BY <1>9, <2>1, ExportFollows
  <2> QED BY <1>1, <2>2 DEF ExportSeat, BlockDos
<1>12. Fine(there, Go(x, p))
  BY <1>1, <1>9, <1>10, <1>11, ExportGoes
<1> QED BY <1>4, <1>12

\* The token of a device.
LEMMA AnsweredCredentials ==
  ASSUME NEW x, NEW c, NEW rest, ExportStands(there, x, c, rest), c.do = "credentials",
         NEW a, a \in IF Permitted(c, x.token) THEN Answers(c) ELSE {Error}
  PROVE  Fine(there, AfterCredentials(x, c, rest, a))
<1> DEFINE R == ToSet(rest)
           z == Note(x, c.of)
<1>1. /\ Exports(x) /\ x \in RunType
      /\ c \in CallSet /\ rest \in Plans /\ InTurn(Exporting, rest)
      /\ ExportOwes(there, {c} \cup R, x.seen)
      /\ x.token \in Tenants /\ x.inside /\ x.saved = "sysadmin"
      /\ Only({"credentials", "leave", "users"}, R) /\ Some({"leave"}, R)
      /\ c.of \in Devices /\ c.of \in Marks
  BY DEF ExportStands, ExportSeat, BlockDos, Exports, FitsExport, Marks, Names
<1>2. a.is = "ok"
  <2>1. Permitted(c, x.token)
    BY <1>1 DEF Permitted, TenantCalls, OpenCalls
  <2>2. a = Ok
    BY <2>1 DEF Answers, Unique
  <2> QED BY <2>2 DEF Ok, Reply
<1>3. AfterCredentials(x, c, rest, a) = Go(z, rest)
  BY <1>2 DEF AfterCredentials
<1>4. /\ Exports(z) /\ z.seen = x.seen \cup {c.of}
      /\ z.inside /\ z.token = x.token /\ z.saved = x.saved
  BY <1>1, NoteFacts DEF Exports
<1> HIDE DEF z
<1>5. ExportOwes(there, R, z.seen)
  BY <1>1, <1>4, ExportPops
<1>6. rest # <<>> => ExportSeat(Head(rest), z.token, z.inside, z.saved)
  <2> SUFFICES ASSUME rest # <<>> PROVE ExportSeat(Head(rest), z.token, z.inside, z.saved)
    OBVIOUS
  <2>1. Head(rest).do \in {"credentials", "leave"}
    BY <1>1, ExportFollows
  <2> QED BY <1>1, <1>4, <2>1 DEF ExportSeat, BlockDos
<1>7. Fine(there, Go(z, rest))
  BY <1>1, <1>4, <1>5, <1>6, ExportGoes
<1> QED BY <1>3, <1>7

(***************************************************************************)
(* The answers to a login and to a rotation                                *)
(***************************************************************************)
\* A command that was not let in has nothing to answer for.
LEMMA RefusedIsFine ==
  ASSUME NEW x \in RunType, NEW T
  PROVE  Fine(T, Ended(x, "refused"))
<1>1. Ended(x, "refused").end = "refused"
  BY EndedFacts
<1> QED BY <1>1 DEF Fine

\* authenticate, with which a provisioning or an export begins.
LEMMA AnsweredAuthenticate ==
  ASSUME NEW x, NEW c, NEW rest, NEW a, c.do = "login",
         ProvisionStands(there, x, c, rest) \/ ExportStands(there, x, c, rest)
  PROVE  Fine(there, AfterAuthenticate(x, rest, a))
<1> DEFINE z == [x EXCEPT !.token = "sysadmin"]
           R == ToSet(rest)
<1>1. x \in RunType
  BY DEF ProvisionStands, ExportStands, Exports
<1>2. CASE a.is # "ok"
  BY <1>1, <1>2, RefusedIsFine DEF AfterAuthenticate
<1>3. CASE a.is = "ok" /\ ProvisionStands(there, x, c, rest)
  <2>1. /\ x.cmd = "provision" /\ x.end = "none" /\ c \in CallSet /\ rest \in Plans
        /\ FitsProvision(c, R) /\ ProvisionOwes(there, {c} \cup R, x.seen, x.refused) /\ ~x.inside
        /\ Has({"tenant"}, Own, R)
    BY <1>3 DEF ProvisionStands, ProvisionSeat, EntityDos, AssetDos, FitsProvision
  <2>2. ~Only(EntityDos, R)
    BY <2>1 DEF Only, Has, EntityDos, AssetDos
  <2>3. z \in RunType /\ z.cmd = "provision" /\ z.end = "none" /\ z.token = "sysadmin" /\ ~z.inside
        /\ z.seen = x.seen /\ z.refused = x.refused
    BY <1>1, <2>1, TokenFacts
  <2> HIDE DEF z
  <2>4. ProvisionOwes(there, R, z.seen, z.refused)
    BY <2>1, <2>3, ProvisionPops DEF TenantDos, AdminDos, ActivationDos, AssetDos
  <2>5. Fine(there, Go(z, rest))
    BY <1>3, <2>2, <2>3, <2>4, ProvisionPopped
  <2> QED BY <1>3, <2>5 DEF AfterAuthenticate, z
<1>4. CASE a.is = "ok" /\ ExportStands(there, x, c, rest)
  <2>1. /\ Exports(x) /\ c \in CallSet /\ rest \in Plans /\ InTurn(Exporting, rest)
        /\ ExportOwes(there, {c} \cup R, x.seen) /\ ~x.inside /\ Only({"tenants"}, R)
    BY <1>4 DEF ExportStands, ExportSeat, BlockDos, FitsExport
  <2>2. Exports(z) /\ z.token = "sysadmin" /\ ~z.inside /\ z.seen = x.seen
    BY <1>1, <2>1, TokenFacts DEF Exports
  <2> HIDE DEF z
  <2>3. ExportOwes(there, R, z.seen)
    BY <2>1, <2>2, ExportPops
  <2>4. rest # <<>> => ExportSeat(Head(rest), z.token, z.inside, z.saved)
    <3> SUFFICES ASSUME rest # <<>> PROVE ExportSeat(Head(rest), z.token, z.inside, z.saved)
      OBVIOUS
    <3>1. Head(rest).do = "tenants"
      BY <2>1, ExportFollows
    <3> QED BY <2>2, <3>1 DEF ExportSeat, BlockDos
  <2>5. Fine(there, Go(z, rest))
    BY <2>1, <2>2, <2>3, <2>4, ExportGoes
  <2> QED BY <1>4, <2>5 DEF AfterAuthenticate, z
<1> QED BY <1>2, <1>3, <1>4

SecureStands(x, c, rest) ==
  /\ x \in RunType /\ x.cmd = "secure" /\ x.end = "none"
  /\ c \in CallSet /\ rest \in Plans /\ InTurn(Securing, rest)
  /\ FitsSecure(c, ToSet(rest)) /\ SecureSeat(c, x.token, x.inside)

\* What the calls left of a rotation say of the first of them.
LEMMA SecureFollows ==
  ASSUME NEW p \in Plans, InTurn(Securing, p), p # <<>>
  PROVE  /\ Some({"loginVendor"}, ToSet(p)) => Head(p).do # "change"
         /\ Only({"change"}, ToSet(p)) => Head(p).do = "change"
<1> DEFINE c == Head(p)
           R == ToSet(Tail(p))
<1>1. c \in CallSet /\ ToSet(p) = {c} \cup R /\ <<c, R>> \in Securing
  BY PlanPop
<1> HIDE DEF c, R
<1>2. FitsSecure(c, R)
  BY <1>1 DEF Securing
<1>3. c.do = "change" => ~Some({"loginVendor"}, ToSet(p))
  BY <1>1, <1>2 DEF FitsSecure, Some
<1>4. Only({"change"}, ToSet(p)) => c.do = "change"
  BY <1>1 DEF Only
<1> QED BY <1>3, <1>4 DEF c

\* run_secure_admin.
LEMMA AnsweredSecure ==
  ASSUME NEW x, NEW c, NEW rest, SecureStands(x, c, rest),
         NEW a, a \in IF Permitted(c, x.token) THEN Answers(c) ELSE {Error},
         NEW T2, there \subseteq T2
  PROVE  Fine(T2, AfterSecure(x, c, rest, a))
<1> DEFINE R == ToSet(rest)
<1>1. /\ x \in RunType /\ x.cmd = "secure" /\ x.end = "none" /\ rest \in Plans /\ InTurn(Securing, rest)
      /\ FitsSecure(c, R) /\ SecureSeat(c, x.token, x.inside)
      /\ c.do \in {"loginTarget", "loginVendor", "change"}
  BY DEF SecureStands, FitsSecure
<1>2. Permitted(c, x.token) /\ a \in Answers(c)
  <2>1. Permitted(c, x.token)
    BY <1>1 DEF Permitted, TenantCalls, OpenCalls, SecureSeat
  <2> QED BY <2>1
<1>3. c.do \in {"loginVendor", "change"} /\ a.is # "ok" => Fine(T2, Fail(x))
  <2> SUFFICES ASSUME c.do \in {"loginVendor", "change"}, a.is # "ok" PROVE Fine(T2, Fail(x))
    OBVIOUS
  <2>1. <<"sysadmin", "secured">> \in there
    <3>1. a = IF Secured THEN Error ELSE Ok
      BY <1>2 DEF Answers, Unique
    <3>2. Ok.is = "ok"
      BY DEF Ok, Reply
    <3> QED BY <3>1, <3>2 DEF Secured
  <2> DEFINE z == Fail(x)
  <2>2. z.end = "failed" /\ z.cmd = "secure"
    BY <1>1, EndedFacts DEF Fail
  <2> HIDE DEF z
  <2>3. Fine(T2, z)
    BY <2>1, <2>2 DEF Fine, Failed
  <2> QED BY <2>3 DEF z
<1>4. Fine(T2, Finish(x))
  <2> DEFINE z == Finish(x)
  <2>1. z.end = "ok" /\ z.cmd = "secure"
    BY <1>1, EndedFacts DEF Finish
  <2> HIDE DEF z
  <2>2. Fine(T2, z)
    BY <2>1 DEF Fine, Complete
  <2> QED BY <2>2 DEF z
<1>5. ASSUME NEW z \in RunType, z.cmd = "secure", z.end = "none",
             rest # <<>> => SecureSeat(Head(rest), z.token, z.inside)
      PROVE  Fine(T2, Go(z, rest))
  <2> DEFINE y == Go(z, rest)
  <2>1. y.todo = rest /\ y.cmd = "secure" /\ y.end = "none" /\ y.token = z.token /\ y.inside = z.inside
    BY <1>1, <1>5, GoFacts
  <2> HIDE DEF y
  <2>2. Fine(T2, y)
    BY <1>5, <2>1 DEF Fine, OnCourse
  <2> QED BY <2>2 DEF y
<1>6. CASE c.do = "loginTarget"
  <2>1. AfterSecure(x, c, rest, a) = IF a.is = "ok" THEN Finish(x) ELSE Go(x, rest)
    BY <1>6 DEF AfterSecure
  <2>2. rest # <<>> => SecureSeat(Head(rest), x.token, x.inside)
    BY <1>1, <1>6, SecureFollows DEF FitsSecure, SecureSeat
  <2>3. Fine(T2, Go(x, rest))
    BY <1>1, <1>5, <2>2
  <2> QED BY <1>4, <2>1, <2>3
<1>7. CASE c.do = "loginVendor"
  <2> DEFINE z == Enter(x, "sysadmin")
  <2>1. AfterSecure(x, c, rest, a) = IF a.is = "ok" THEN Go(z, rest) ELSE Fail(x)
    BY <1>7 DEF AfterSecure
  <2>2. z \in RunType /\ z.cmd = "secure" /\ z.end = "none" /\ z.inside /\ z.token = "sysadmin"
    BY <1>1, EnterFacts DEF Names
  <2> HIDE DEF z
  <2>3. rest # <<>> => SecureSeat(Head(rest), z.token, z.inside)
    BY <1>1, <1>7, <2>2, SecureFollows DEF FitsSecure, SecureSeat
  <2>4. Fine(T2, Go(z, rest))
    BY <1>5, <2>2, <2>3
  <2> QED BY <1>3, <1>7, <2>1, <2>4
<1>8. CASE c.do = "change"
  <2>1. AfterSecure(x, c, rest, a) = IF a.is = "ok" THEN Finish(x) ELSE Fail(x)
    BY <1>8 DEF AfterSecure, AfterChange
  <2> QED BY <1>3, <1>4, <1>8, <2>1
<1> QED BY <1>1, <1>6, <1>7, <1>8

(***************************************************************************)
(* Every answer                                                            *)
(***************************************************************************)

\* The server gives replies.
LEMMA AnswersType ==
  ASSUME NEW c, NEW a \in Answers(c)
  PROVE  a \in ReplyType
<1>1. \A is \in {"ok", "error", "conflict"} : \A S : S \subseteq Names /\ IsFiniteSet(S) => Reply(is, S) \in ReplyType
  BY DEF Reply, ReplyType
<1>2. IsFiniteSet({}) /\ {} \subseteq Names
  BY FS_EmptySet
<1>3. Ok \in ReplyType /\ Error \in ReplyType /\ Conflict \in ReplyType
  BY <1>1, <1>2 DEF Ok, Error, Conflict
<1>4. Reply("ok", {t \in Tenants : <<t, "tenant">> \in there}) \in ReplyType
  <2> DEFINE S == {t \in Tenants : <<t, "tenant">> \in there}
  <2>1. S \subseteq Names /\ IsFiniteSet(S)
    BY AdminAssumption, FS_Subset DEF Names
  <2> QED BY <1>1, <2>1
<1>5. Reply("ok", {d \in Installed : Home[d] = c.of}) \in ReplyType
  <2> DEFINE S == {d \in Installed : Home[d] = c.of}
  <2>1. S \subseteq Names /\ IsFiniteSet(S)
    BY AdminAssumption, FS_Subset DEF Names, Installed
  <2> QED BY <1>1, <2>1
<1>6. \A fact : When(fact) \in ReplyType
  BY <1>3 DEF When
<1> HIDE DEF Ok, Error, Conflict, Reply, When, ReplyType
<1> QED BY <1>3, <1>4, <1>5, <1>6 DEF Answers

\* A call that only asks adds nothing to the server.
LEMMA AddsNothing ==
  ASSUME NEW c, c.do \in {"login", "tenants", "users", "borrow", "devices", "credentials"}
  PROVE  Adds(c) = {}
BY DEF Adds

\* An answer leaves a command sound.
LEMMA AnswerIsSound ==
  ASSUME NEW x, World(there), Sound(there, x), x.todo # <<>>, Head(x.todo).do # "leave",
         NEW a, a \in IF Permitted(Head(x.todo), x.token) THEN Answers(Head(x.todo)) ELSE {Error},
         NEW T2, T2 = IF a = Ok THEN there \cup Adds(Head(x.todo)) ELSE there
  PROVE  Sound(T2, After(x, a))
<1> DEFINE c == Head(x.todo)
           rest == Tail(x.todo)
           R == ToSet(rest)
<1>1. WellFormed(x) /\ Fine(there, x)
  BY DEF Sound
<1>2. /\ x \in RunType /\ x.end = "none" /\ x.cmd \in {"secure", "provision", "export", "check"}
      /\ x.cmd = "secure" => InTurn(Securing, x.todo)
  BY <1>1 DEF WellFormed, RunType
<1>3. a \in ReplyType
  <2>1. Error \in ReplyType
    BY FS_EmptySet DEF Error, Reply, ReplyType
  <2> QED BY <2>1, AnswersType
<1>4. WellFormed(After(x, a)) /\ (x.excused => After(x, a).excused)
  BY <1>1, <1>3, AfterKeeps DEF Kept
<1>5. CASE x.excused
  BY <1>4, <1>5 DEF Sound, Fine
<1>6. CASE ~x.excused
  <2>1. OnCourse(there, x)
    BY <1>1, <1>2, <1>6 DEF Fine
  <2>2. /\ c \in CallSet /\ rest \in Plans /\ ToSet(x.todo) = {c} \cup R
        /\ \A rule : InTurn(rule, x.todo) => InTurn(rule, rest) /\ <<c, R>> \in rule
    <3>1. x.todo \in Plans
      BY <1>2 DEF RunType
    <3> QED BY <3>1, PlanPop
  <2>3. there \subseteq T2
    OBVIOUS
  <2>4. CASE x.cmd = "provision"
    <3>1. ProvisionStands(there, x, c, rest)
      <4>1. /\ InTurn(Provisioning, x.todo) /\ ProvisionOwes(there, ToSet(x.todo), x.seen, x.refused)
            /\ ProvisionSeat(c, x.token, x.inside)
        BY <2>1, <2>4 DEF OnCourse
      <4>2. InTurn(Provisioning, rest) /\ FitsProvision(c, R)
        BY <2>2, <4>1 DEF Provisioning
      <4>3. ProvisionOwes(there, {c} \cup R, x.seen, x.refused)
        BY <2>2, <4>1
      <4> HIDE DEF c, rest
      <4> QED BY <1>2, <2>2, <2>4, <4>1, <4>2, <4>3 DEF ProvisionStands
    <3> HIDE DEF c, rest
    <3>2. c.do \in AccountDos \cup EntityDos \cup {"login"}
      BY <3>1 DEF ProvisionStands, FitsProvision
    <3>3. a \in IF Permitted(c, x.token) THEN Answers(c) ELSE {Error}
      BY DEF c
    <3>4. T2 = IF a = Ok THEN there \cup Adds(c) ELSE there
      BY DEF c
    <3>5. CASE c.do = "login"
      <4>1. T2 = there
        BY <3>4, <3>5, AddsNothing
      <4>2. After(x, a) = AfterAuthenticate(x, rest, a)
        BY <3>5 DEF After, c, rest
      <4> QED BY <1>4, <3>1, <3>5, <4>1, <4>2, AnsweredAuthenticate DEF Sound
    <3>6. CASE c.do \in EntityDos
      <4>1. After(x, a) = AfterEntity(x, c, rest, a)
        BY <2>4, <3>6 DEF After, c, rest, EntityDos, AssetDos, TenantCalls
      <4>2. Fine(T2, AfterEntity(x, c, rest, a))
        BY <3>1, <3>3, <3>4, <3>6, TurbineNames, AnsweredEntity
      <4> QED BY <1>4, <4>1, <4>2 DEF Sound
    <3>7. CASE c.do \in AccountDos
      <4>1. After(x, a) = AfterAccount(x, c, rest, a)
        BY <2>4, <3>7 DEF After, c, rest, AccountDos, TenantDos, AdminDos, ActivationDos, TenantCalls
      <4>2. CASE c.do \in TenantDos
        <5>1. AfterAccount(x, c, rest, a) = AfterTenant(x, c, rest, a)
          BY <4>2 DEF AfterAccount, TenantDos
        <5>2. Fine(T2, AfterTenant(x, c, rest, a))
          BY <3>1, <3>3, <3>4, <4>2, TurbineNames, AnsweredTenant
        <5> QED BY <5>1, <5>2, <4>1, <1>4 DEF Sound
      <4>3. CASE c.do \in AdminDos
        <5>1. AfterAccount(x, c, rest, a) = AfterUser(x, c, rest, a)
          BY <4>3 DEF AfterAccount, AdminDos
        <5>2. Fine(T2, AfterUser(x, c, rest, a))
          BY <3>1, <3>3, <3>4, <4>3, TurbineNames, AnsweredUser
        <5> QED BY <5>1, <5>2, <4>1, <1>4 DEF Sound
      <4>4. CASE c.do \in {"link", "activate"}
        <5>1. AfterAccount(x, c, rest, a) = AfterLink(x, c, rest, a)
          BY <4>4 DEF AfterAccount
        <5>2. Fine(T2, AfterLink(x, c, rest, a))
          BY <3>1, <3>3, <3>4, <4>4, TurbineNames, AnsweredLink
        <5> QED BY <5>1, <5>2, <4>1, <1>4 DEF Sound
      <4>5. CASE c.do \in {"loginAdmin", "loginAgain"}
        <5>1. AfterAccount(x, c, rest, a) = AfterLogin(x, c, rest, a)
          BY <4>5 DEF AfterAccount
        <5>2. Fine(T2, AfterLogin(x, c, rest, a))
          BY <3>1, <3>3, <3>4, <4>5, TurbineNames, AnsweredLogin
        <5> QED BY <5>1, <5>2, <4>1, <1>4 DEF Sound
      <4> QED BY <3>7, <4>2, <4>3, <4>4, <4>5 DEF AccountDos, ActivationDos
    <3> QED BY <3>2, <3>5, <3>6, <3>7
  <2>5. CASE x.cmd \in {"export", "check"}
    <3>1. ExportStands(there, x, c, rest)
      <4>1. /\ InTurn(Exporting, x.todo) /\ ExportOwes(there, ToSet(x.todo), x.seen)
            /\ ExportSeat(c, x.token, x.inside, x.saved)
        BY <2>1, <2>5 DEF OnCourse
      <4>2. InTurn(Exporting, rest) /\ FitsExport(c, R)
        BY <2>2, <4>1 DEF Exporting
      <4>3. ExportOwes(there, {c} \cup R, x.seen)
        BY <2>2, <4>1
      <4> HIDE DEF c, rest
      <4>4. Exports(x)
        BY <1>2, <2>5 DEF Exports
      <4> QED BY <2>2, <4>1, <4>2, <4>3, <4>4 DEF ExportStands
    <3>2. c.do # "leave"
      OBVIOUS
    <3>3. a \in IF Permitted(c, x.token) THEN Answers(c) ELSE {Error}
      OBVIOUS
    <3>4. T2 = IF a = Ok THEN there \cup Adds(c) ELSE there
      OBVIOUS
    <3>5. x.cmd \notin {"provision", "secure"}
      BY <2>5
    <3>6. c.do # "login" => After(x, a) = AfterExport(x, c, rest, a)
      BY <2>5, <3>5 DEF After
    <3>7. c.do = "login" => After(x, a) = AfterAuthenticate(x, rest, a)
      BY DEF After
    <3> HIDE DEF c, rest
    <3>8. c.do \in {"login", "tenants", "users", "borrow", "devices", "credentials"}
      BY <3>1, <3>2 DEF ExportStands, FitsExport, BlockDos
    <3>9. T2 = there
      BY <3>4, <3>8, AddsNothing
    <3>10. CASE c.do = "login"
      BY <1>4, <3>1, <3>7, <3>9, <3>10, AnsweredAuthenticate DEF Sound
    <3>11. CASE c.do = "tenants"
      <4>1. Fine(there, AfterExport(x, c, rest, a))
        BY <3>1, <3>3, <3>11, AnsweredTenants
      <4> QED BY <1>4, <3>6, <3>9, <3>11, <4>1 DEF Sound
    <3>12. CASE c.do = "devices"
      <4>1. Fine(there, AfterExport(x, c, rest, a))
        BY <3>1, <3>3, <3>12, AnsweredDevices
      <4> QED BY <1>4, <3>6, <3>9, <3>12, <4>1 DEF Sound
    <3>13. CASE c.do = "credentials"
      <4>1. Fine(there, AfterCredentials(x, c, rest, a))
        BY <3>1, <3>3, <3>13, AnsweredCredentials
      <4>2. AfterExport(x, c, rest, a) = AfterCredentials(x, c, rest, a)
        BY <3>13 DEF AfterExport
      <4> QED BY <1>4, <3>6, <3>9, <3>13, <4>1, <4>2 DEF Sound
    <3>14. CASE c.do \in {"users", "borrow"}
      <4>1. Fine(there, AfterToken(x, c, rest, a))
        BY <3>1, <3>3, <3>14, AnsweredToken
      <4>2. AfterExport(x, c, rest, a) = AfterToken(x, c, rest, a)
        BY <3>14 DEF AfterExport
      <4> QED BY <1>4, <3>6, <3>9, <3>14, <4>1, <4>2 DEF Sound
    <3> QED BY <3>8, <3>10, <3>11, <3>12, <3>13, <3>14
  <2>6. CASE x.cmd = "secure"
    <3>1. SecureStands(x, c, rest)
      <4>1. InTurn(Securing, x.todo) /\ SecureSeat(c, x.token, x.inside)
        BY <1>2, <2>1, <2>6 DEF OnCourse
      <4>2. InTurn(Securing, rest) /\ FitsSecure(c, R)
        BY <2>2, <4>1 DEF Securing
      <4> HIDE DEF c, rest
      <4> QED BY <1>2, <2>2, <2>6, <4>1, <4>2 DEF SecureStands
    <3>2. a \in IF Permitted(c, x.token) THEN Answers(c) ELSE {Error}
      OBVIOUS
    <3>3. c.do # "login"
      BY <3>1 DEF SecureStands, FitsSecure
    <3>4. After(x, a) = AfterSecure(x, c, rest, a)
      BY <2>6, <3>3 DEF After
    <3> HIDE DEF c, rest
    <3>5. Fine(T2, AfterSecure(x, c, rest, a))
      BY <2>3, <3>1, <3>2, AnsweredSecure
    <3> QED BY <1>4, <3>4, <3>5 DEF Sound
  <2> QED BY <1>2, <2>4, <2>5, <2>6
<1> QED BY <1>5, <1>6

(***************************************************************************)
(* The steps of one operator                                               *)
(***************************************************************************)

\* What one operator adds takes nothing from another one.
LEMMA SoundGrows ==
  ASSUME NEW T, NEW T2, T \subseteq T2, InstalledIn(T2) = InstalledIn(T)
  PROVE  /\ World(T) => World(T2)
         /\ \A x : Sound(T, x) => Sound(T2, x)
<1>1. World(T) => World(T2)
  BY DEF World
<1>2. ASSUME NEW x, Sound(T, x) PROVE Sound(T2, x)
  <2>1. WellFormed(x) /\ Fine(T, x)
    BY <1>2 DEF Sound
  <2>2. Failed(T, x) => Failed(T2, x)
    BY DEF Failed
  <2>3. Complete(T, x) => Complete(T2, x)
    BY DEF Complete
  <2>4. OnCourse(T, x) => OnCourse(T2, x)
    BY OwesGrow DEF OnCourse
  <2>5. Fine(T2, x)
    BY <2>1, <2>2, <2>3, <2>4 DEF Fine
  <2> QED BY <2>1, <2>5 DEF Sound
<1> QED BY <1>1, <1>2

\* A step of one operator.
LEMMA OneRun ==
  ASSUME AdmInv, NEW o \in Operators, NEW y, Sound(there', y),
         run' = [run EXCEPT ![o] = y],
         there \subseteq there', InstalledIn(there') = InstalledIn(there)
  PROVE  AdmInv'
<1>1. run \in [Operators -> RunType] /\ World(there) /\ \A p \in Operators : Sound(there, run[p])
  BY DEF AdmInv
<1>2. y \in RunType
  BY DEF Sound, WellFormed
<1>3. run' \in [Operators -> RunType] /\ run'[o] = y /\ \A p \in Operators \ {o} : run'[p] = run[p]
  BY <1>1, <1>2
<1>4. World(there')
  BY <1>1, SoundGrows
<1>5. ASSUME NEW p \in Operators PROVE Sound(there', run'[p])
  <2>1. CASE p = o
    BY <1>3, <2>1
  <2>2. CASE p # o
    <3>1. Sound(there, run[p])
      BY <1>1
    <3>2. Sound(there', run[p])
      BY <3>1, SoundGrows
    <3> QED BY <1>3, <2>2, <3>2
  <2> QED BY <2>1, <2>2
<1>6. World(there)' /\ \A p \in Operators : Sound(there, run[p])'
  BY <1>4, <1>5
<1> QED BY <1>3, <1>6 DEF AdmInv

\* What the invariant says of one run.
LEMMA RunFacts ==
  ASSUME AdmInv, NEW o \in Operators
  PROVE  /\ Sound(there, run[o]) /\ run[o] \in RunType /\ World(there)
         /\ \A y : [run EXCEPT ![o] = y][o] = y
         /\ run[o].todo # <<>> => run[o].end = "none" /\ run[o].cmd # "none"
BY DEF AdmInv, Sound, WellFormed

\* The invariant is kept when the server answers,
LEMMA AnsweredStep ==
  ASSUME AdmInv, NEW o \in Operators, Answered(o)
  PROVE  AdmInv'
<1> DEFINE x == run[o]
           c == Head(x.todo)
<1>1. PICK a \in IF Permitted(c, x.token) THEN Answers(c) ELSE {Error} :
        /\ there' = IF a = Ok THEN there \cup Adds(c) ELSE there
        /\ run' = [run EXCEPT ![o] = After(x, a)]
  BY DEF Answered, Now
<1>2. x.todo # <<>> /\ c.do # "leave"
  BY DEF Answered, Trying, NoCall, Now
<1>3. Sound(there, x) /\ World(there) /\ x \in RunType
  BY RunFacts
<1>4. c \in CallSet
  <2>1. x.todo \in Plans
    BY <1>3 DEF RunType
  <2> QED BY <1>2, <2>1, PlanPop
<1> DEFINE T2 == IF a = Ok THEN there \cup Adds(c) ELSE there
<1>5. Sound(T2, After(x, a))
  BY <1>1, <1>2, <1>3, AnswerIsSound
<1>6. there \subseteq T2 /\ InstalledIn(T2) = InstalledIn(there)
  BY <1>4, Additions
<1>7. there' = T2
  BY <1>1
<1> HIDE DEF T2
<1> QED BY <1>1, <1>5, <1>6, <1>7, OneRun

\* A command that is excused is sound when it is well formed.
LEMMA ExcusedIsSound ==
  ASSUME NEW x \in RunType, WellFormed(x), x.todo # <<>>, NEW a \in ReplyType, NEW T,
         NEW y, y = [x EXCEPT !.excused = TRUE]
  PROVE  Sound(T, After(y, a))
<1>1. y \in RunType /\ y.excused /\ y.todo = x.todo /\ y.cmd = x.cmd /\ y.end = x.end
  <2>1. x \in RunType /\ TRUE \in BOOLEAN
    OBVIOUS
  <2>2. /\ y \in RunType /\ y.todo = x.todo /\ y.cmd = x.cmd /\ y.end = x.end
        /\ y.excused = TRUE
    BY <2>1, ExcusedFacts, Zenon
  <2> QED BY <2>2
<1>2. WellFormed(y)
  BY <1>1 DEF WellFormed
<1>3. Kept(y, After(y, a)) /\ WellFormed(After(y, a))
  BY <1>1, <1>2, AfterKeeps
<1>4. After(y, a).excused
  BY <1>1, <1>3 DEF Kept
<1> QED BY <1>3, <1>4 DEF Sound, Fine

\* A command that tries again, or is excused, is as sound as it was.
LEMMA SameIsSound ==
  ASSUME NEW T, NEW x, Sound(T, x), NEW y \in RunType,
         y.cmd = x.cmd, y.end = x.end, y.todo = x.todo, y.seen = x.seen, y.refused = x.refused,
         x.excused => y.excused,
         ~y.excused => /\ y.inside = x.inside /\ y.saved = x.saved
                       /\ y.token = x.token \/ (~x.inside /\ y.token = "sysadmin")
  PROVE  Sound(T, y)
<1>1. WellFormed(x) /\ Fine(T, x)
  BY DEF Sound
<1>2. WellFormed(y)
  BY <1>1 DEF WellFormed
<1>3. ASSUME ~y.excused PROVE Fine(T, y)
  <2>1. ~x.excused
    BY <1>3
  <2>2. Failed(T, x) => Failed(T, y)
    BY DEF Failed
  <2>3. Complete(T, x) => Complete(T, y)
    BY DEF Complete
  <2>4. OnCourse(T, x) => OnCourse(T, y)
    <3> SUFFICES ASSUME OnCourse(T, x) PROVE OnCourse(T, y)
      OBVIOUS
    <3>1. y.token = x.token => OnCourse(T, y)
      BY <1>3 DEF OnCourse
    <3>2. \A c : ~x.inside /\ ProvisionSeat(c, x.token, x.inside) => ProvisionSeat(c, "sysadmin", x.inside)
      BY DEF ProvisionSeat
    <3>3. \A c : ~x.inside /\ ExportSeat(c, x.token, x.inside, x.saved) =>
                   ExportSeat(c, "sysadmin", x.inside, x.saved)
      BY DEF ExportSeat
    <3>4. \A c : ~x.inside /\ SecureSeat(c, x.token, x.inside) => SecureSeat(c, "sysadmin", x.inside)
      BY DEF SecureSeat
    <3>5. ~x.inside /\ y.token = "sysadmin" => OnCourse(T, y)
      BY <1>3, <3>2, <3>3, <3>4 DEF OnCourse
    <3> QED BY <1>3, <3>1, <3>5
  <2> QED BY <1>1, <2>1, <2>2, <2>3, <2>4 DEF Fine
<1>4. Fine(T, y)
  BY <1>3 DEF Fine
<1> QED BY <1>2, <1>4 DEF Sound

\* A call tried again.
LEMMA AgainIsSound ==
  ASSUME NEW T, NEW x, Sound(T, x), x.todo # <<>>, NEW last \in {"raised", "error"}
  PROVE  Sound(T, Again(x, last))
<1>1. x \in RunType /\ WellFormed(x)
  BY DEF Sound, WellFormed
<1>2. CASE x.n <= MaxRetries
  <2> DEFINE z == [x EXCEPT !.n = @ + 1]
  <2>1. /\ z \in RunType /\ z.cmd = x.cmd /\ z.end = x.end /\ z.todo = x.todo /\ z.seen = x.seen
        /\ z.refused = x.refused /\ z.excused = x.excused
        /\ z.inside = x.inside /\ z.saved = x.saved /\ z.token = x.token
    BY <1>1 DEF RunType
  <2> HIDE DEF z
  <2>2. Sound(T, z)
    BY <2>1, SameIsSound
  <2> QED BY <1>2, <2>2 DEF Again, z
<1>3. CASE ~(x.n <= MaxRetries)
  <2>1. Reply(last, {}) \in ReplyType
    BY FS_EmptySet DEF Reply, ReplyType
  <2>2. Sound(T, After([x EXCEPT !.excused = TRUE], Reply(last, {})))
    BY <1>1, <2>1, ExcusedIsSound
  <2> QED BY <1>3, <2>2 DEF Again
<1> QED BY <1>2, <1>3

\* when a call or its reply is lost,
LEMMA LostStep ==
  ASSUME AdmInv, NEW o \in Operators, Lost(o)
  PROVE  AdmInv'
<1> DEFINE x == run[o]
           c == Head(x.todo)
<1>1. Sound(there, x) /\ x \in RunType /\ x.todo # <<>>
  BY RunFacts DEF Lost, Trying
<1>2. there \subseteq there' /\ InstalledIn(there') = InstalledIn(there)
  <2>1. x.todo \in Plans
    BY <1>1 DEF RunType
  <2>2. c \in CallSet
    BY <1>1, <2>1, PlanPop
  <2>3. there' = there \/ there' = there \cup Adds(c)
    BY DEF Lost, Now
  <2> QED BY <2>2, <2>3, Additions
<1>3. Sound(there', x)
  BY <1>1, <1>2, SoundGrows
<1>4. PICK last \in {"raised", "error"} : run' = [run EXCEPT ![o] = Again(x, last)]
  BY DEF Lost
<1>5. Sound(there', Again(x, last))
  BY <1>1, <1>3, AgainIsSound
<1> QED BY <1>2, <1>4, <1>5, OneRun

\* The recovery from a 401 that got no token is excused.
LEMMA NotRenewedIsSound ==
  ASSUME NEW T, NEW x, Sound(T, x), x.todo # <<>>
  PROVE  Sound(T, NotRenewed(x))
<1>1. x \in RunType /\ WellFormed(x)
  BY DEF Sound, WellFormed
<1>2. Error \in ReplyType
  BY FS_EmptySet DEF Error, Reply, ReplyType
<1> QED BY <1>1, <1>2, ExcusedIsSound DEF NotRenewed

\* when a token is refused,
LEMMA UnauthorizedStep ==
  ASSUME AdmInv, NEW o \in Operators, Unauthorized(o)
  PROVE  AdmInv'
<1> DEFINE x == run[o]
           y == Relogged(x)
<1>1. Sound(there, x) /\ x \in RunType /\ x.todo # <<>>
  BY RunFacts DEF Unauthorized, Expired, Trying
<1>2. there' = there /\ run' = [run EXCEPT ![o] =
        IF x.n <= MaxRetries /\ Secured THEN Again(y, "error") ELSE NotRenewed(x)]
  BY DEF Unauthorized
<1>3. /\ y \in RunType /\ y.cmd = x.cmd /\ y.end = x.end /\ y.todo = x.todo /\ y.seen = x.seen
      /\ y.refused = x.refused /\ y.excused = (x.excused \/ x.inside)
      /\ y.inside = x.inside /\ y.saved = x.saved /\ y.token = "sysadmin"
  BY <1>1 DEF Relogged, RunType, Names
<1> HIDE DEF y
<1>4. Sound(there, y)
  BY <1>1, <1>3, SameIsSound
<1>5. Sound(there, Again(y, "error")) /\ Sound(there, NotRenewed(x))
  BY <1>1, <1>3, <1>4, AgainIsSound, NotRenewedIsSound
<1> QED BY <1>2, <1>5, OneRun

\* when the login of the recovery is given up,
LEMMA ReloginFailsStep ==
  ASSUME AdmInv, NEW o \in Operators, ReloginFails(o)
  PROVE  AdmInv'
<1>1. Sound(there, run[o]) /\ run[o].todo # <<>>
  BY RunFacts DEF ReloginFails, Expired, Trying
<1>2. there' = there /\ run' = [run EXCEPT ![o] = NotRenewed(run[o])]
  BY DEF ReloginFails
<1>3. Sound(there, NotRenewed(run[o]))
  BY <1>1, NotRenewedIsSound
<1> QED BY <1>2, <1>3, OneRun

\* when a token expires,
LEMMA ExpireStep ==
  ASSUME AdmInv, NEW o \in Operators, Expire(o)
  PROVE  AdmInv'
<1> DEFINE x == run[o]
           y == [x EXCEPT !.good = FALSE]
<1>1. Sound(there, x) /\ x \in RunType /\ there' = there /\ run' = [run EXCEPT ![o] = y]
  BY RunFacts DEF Expire
<1>2. /\ y \in RunType /\ y.cmd = x.cmd /\ y.end = x.end /\ y.todo = x.todo /\ y.seen = x.seen
      /\ y.refused = x.refused /\ y.excused = x.excused
      /\ y.inside = x.inside /\ y.saved = x.saved /\ y.token = x.token
  BY <1>1 DEF RunType
<1> HIDE DEF y
<1>3. Sound(there, y)
  BY <1>1, <1>2, SameIsSound
<1> QED BY <1>1, <1>3, OneRun

\* when there is no call to make,
LEMMA SkipCallStep ==
  ASSUME AdmInv, NEW o \in Operators, SkipCall(o)
  PROVE  AdmInv'
<1> DEFINE x == run[o]
           c == Head(x.todo)
           rest == Tail(x.todo)
           R == ToSet(rest)
           g == Go(x, rest)
           y == IF c.do = "leave" THEN Leave(g) ELSE g
<1>1. Sound(there, x) /\ x \in RunType /\ x.todo # <<>> /\ WellFormed(x) /\ Fine(there, x)
      /\ x.end = "none" /\ x.cmd # "none"
  BY RunFacts DEF SkipCall, Trying, Sound
<1>2. there' = there /\ run' = [run EXCEPT ![o] = y]
  BY DEF SkipCall, Now
<1>3. c.do = "leave" \/ (c.do = "relation" /\ ~({Rig, c.of} \subseteq x.seen))
  BY DEF SkipCall, NoCall, Now
<1>4. /\ c \in CallSet /\ rest \in Plans /\ ToSet(x.todo) = {c} \cup R
      /\ \A rule : InTurn(rule, x.todo) => InTurn(rule, rest) /\ <<c, R>> \in rule
  <2>1. x.todo \in Plans
    BY <1>1 DEF RunType
  <2> QED BY <1>1, <2>1, PlanPop
<1> HIDE DEF c, rest
<1>5. /\ g \in RunType /\ g.todo = rest /\ g.cmd = x.cmd /\ g.end = "none"
      /\ g.token = x.token /\ g.saved = x.saved /\ g.inside = x.inside /\ g.seen = x.seen
      /\ g.refused = x.refused /\ g.excused = x.excused
  BY <1>1, <1>4, GoFacts
<1> HIDE DEF g
<1>6. /\ y \in RunType /\ y.todo = rest /\ y.cmd = x.cmd /\ y.end = "none"
      /\ y.seen = x.seen /\ y.refused = x.refused /\ y.excused = x.excused
      /\ c.do # "leave" => y.token = x.token /\ y.saved = x.saved /\ y.inside = x.inside
      /\ c.do = "leave" => y.inside = FALSE /\ (x.inside => y.token = x.saved)
  <2>1. CASE c.do = "leave"
    <3>1. y = Leave(g)
      BY <2>1
    <3> HIDE DEF y
    <3> QED BY <1>5, <2>1, <3>1, LeaveFacts
  <2>2. CASE c.do # "leave"
    BY <1>5, <2>2
  <2> QED BY <2>1, <2>2
<1> HIDE DEF y
<1>7. x.cmd = "secure" => InTurn(Securing, rest) /\ c.do \in {"loginTarget", "loginVendor", "change"}
  <2> SUFFICES ASSUME x.cmd = "secure"
               PROVE  InTurn(Securing, rest) /\ c.do \in {"loginTarget", "loginVendor", "change"}
    OBVIOUS
  <2>1. InTurn(Securing, rest) /\ <<c, R>> \in Securing
    BY <1>1, <1>4 DEF WellFormed
  <2>2. FitsSecure(c, R)
    BY <2>1 DEF Securing
  <2> QED BY <2>1, <2>2 DEF FitsSecure
<1>8. WellFormed(y)
  BY <1>1, <1>6, <1>7 DEF WellFormed
<1>9. ASSUME ~x.excused PROVE OnCourse(there, y)
  <2>1. OnCourse(there, x)
    BY <1>1, <1>9 DEF Fine
  <2>2. CASE x.cmd = "provision"
    <3>1. /\ InTurn(Provisioning, x.todo) /\ ProvisionOwes(there, ToSet(x.todo), x.seen, x.refused)
          /\ ProvisionSeat(c, x.token, x.inside)
      BY <1>1, <2>1, <2>2 DEF OnCourse, c
    <3>2. InTurn(Provisioning, rest) /\ FitsProvision(c, R)
      BY <1>4, <3>1 DEF Provisioning
    <3>3. ProvisionOwes(there, {c} \cup R, x.seen, x.refused)
      BY <1>4, <3>1
    <3>4. c.do = "relation" /\ ~({Rig, c.of} \subseteq x.seen)
      BY <1>3, <3>2 DEF FitsProvision, AccountDos, EntityDos, AssetDos, TenantDos, AdminDos, ActivationDos
    <3>5. ProvisionOwes(there, R, y.seen, y.refused)
      BY <1>4, <1>6, <3>2, <3>3, <3>4, ProvisionPops DEF TenantDos, AdminDos, ActivationDos, AssetDos
    <3>6. Only(EntityDos, R) /\ x.inside /\ x.token = Own
      BY <3>1, <3>2, <3>4 DEF FitsProvision, EntityDos, ProvisionSeat
    <3>7. rest # <<>> => ProvisionSeat(Head(rest), y.token, y.inside)
      BY <1>4, <1>6, <3>2, <3>4, <3>6, ProvisionFollows DEF ProvisionSeat
    <3> QED BY <1>6, <2>2, <3>2, <3>5, <3>7 DEF OnCourse
  <2>3. CASE x.cmd \in {"export", "check"}
    <3>1. /\ InTurn(Exporting, x.todo) /\ ExportOwes(there, ToSet(x.todo), x.seen)
          /\ ExportSeat(c, x.token, x.inside, x.saved)
      BY <1>1, <2>1, <2>3 DEF OnCourse, c
    <3>2. InTurn(Exporting, rest) /\ FitsExport(c, R)
      BY <1>4, <3>1 DEF Exporting
    <3>3. ExportOwes(there, {c} \cup R, x.seen)
      BY <1>4, <3>1
    <3>4. c.do = "leave"
      BY <1>3, <3>2 DEF FitsExport, BlockDos
    <3>5. Only({"users"}, R) /\ ~y.inside /\ y.token = "sysadmin"
      BY <1>6, <3>1, <3>2, <3>4 DEF FitsExport, ExportSeat, BlockDos
    <3>6. ExportOwes(there, R, y.seen)
      BY <1>4, <1>6, <3>3, <3>4, ExportPops
    <3>7. rest # <<>> => ExportSeat(Head(rest), y.token, y.inside, y.saved)
      BY <1>4, <3>2, <3>5, ExportFollows DEF ExportSeat, BlockDos
    <3>8. y.cmd # "provision" /\ y.cmd # "secure"
      BY <1>6, <2>3
    <3> QED BY <1>6, <3>2, <3>6, <3>7, <3>8 DEF OnCourse
  <2>4. CASE x.cmd = "secure"
    BY <1>3, <1>7, <2>4
  <2> QED BY <1>1, <2>2, <2>3, <2>4 DEF RunType
<1>10. Sound(there, y)
  BY <1>6, <1>8, <1>9 DEF Sound, Fine
<1> QED BY <1>2, <1>10, OneRun

\* A command whose calls are all done has what it came for.
LEMMA Done ==
  ASSUME NEW x \in RunType, WellFormed(x), Fine(there, x), x.end = "none", x.todo = <<>>
  PROVE  /\ ~x.excused => Complete(there, x)
         /\ ~x.excused /\ x.cmd \in {"export", "check"} => x.seen = InstalledIn(there)
<1>1. ToSet(x.todo) = {}
  BY NoCalls
<1>2. ASSUME ~x.excused PROVE OnCourse(there, x)
  BY <1>2 DEF Fine
<1>3. ASSUME ~x.excused, x.cmd = "provision" PROVE Complete(there, x)
  <2>1. ProvisionOwes(there, {}, x.seen, x.refused)
    BY <1>1, <1>2, <1>3 DEF OnCourse
  <2> QED BY <2>1, NoneSelected DEF ProvisionOwes, Complete, Account
<1>4. ASSUME ~x.excused, x.cmd # "provision" PROVE Complete(there, x)
  BY <1>4 DEF Complete
<1>5. ASSUME ~x.excused, x.cmd \in {"export", "check"} PROVE x.seen = InstalledIn(there)
  <2>1. ExportOwes(there, {}, x.seen)
    BY <1>1, <1>2, <1>5 DEF OnCourse
  <2> QED BY <2>1, NoneSelected DEF ExportOwes
<1> QED BY <1>3, <1>4, <1>5

\* How a command ends.
LEMMA EndIsSound ==
  ASSUME NEW x \in RunType, x.cmd # "none", NEW end \in {"ok", "failed"}, NEW T,
         ~x.excused => IF end = "ok" THEN Complete(T, x) ELSE Failed(T, x)
  PROVE  Sound(T, Ended(x, end))
<1> DEFINE y == Ended(x, end)
<1>1. /\ y \in RunType /\ y.todo = <<>> /\ y.cmd = x.cmd /\ y.end = end /\ y.seen = x.seen
      /\ y.refused = x.refused /\ y.excused = x.excused
  <2>1. end \in {"ok", "failed", "refused"}
    OBVIOUS
  <2> QED BY <2>1, EndedFacts
<1> HIDE DEF y
<1>2. WellFormed(y)
  BY <1>1, NoCalls DEF WellFormed
<1>3. Complete(T, x) => Complete(T, y)
  BY <1>1 DEF Complete
<1>4. Failed(T, x) => Failed(T, y)
  BY <1>1 DEF Failed
<1>5. Fine(T, y)
  BY <1>1, <1>3, <1>4 DEF Fine
<1>6. Sound(T, y)
  BY <1>2, <1>5 DEF Sound
<1> QED BY <1>6 DEF y

\* when a command ends,
LEMMA ConcludeStep ==
  ASSUME AdmInv, NEW o \in Operators, Conclude(o)
  PROVE  AdmInv'
<1> DEFINE x == run[o]
<1>1. /\ x \in RunType /\ WellFormed(x) /\ Fine(there, x) /\ x.todo = <<>> /\ x.end = "none"
      /\ x.cmd # "none" /\ there' = there
  BY RunFacts DEF Conclude, Trying, Sound
<1>2. ~x.excused => Complete(there, x)
  BY <1>1, Done
<1>3. CASE x.cmd = "provision" /\ run' = [run EXCEPT ![o] = Finish(Leave(x))]
  <2> DEFINE z == Leave(x)
  <2>1. z \in RunType /\ z.cmd = x.cmd /\ z.seen = x.seen /\ z.excused = x.excused
        /\ z.refused = x.refused
    BY <1>1, LeaveFacts
  <2> HIDE DEF z
  <2>2. ~z.excused => Complete(there, z)
    BY <1>2, <2>1 DEF Complete
  <2>3. Sound(there, Ended(z, "ok"))
    BY <1>1, <2>1, <2>2, EndIsSound
  <2>4. Sound(there, Finish(Leave(x)))
    BY <2>3 DEF Finish, z
  <2> QED BY <1>1, <1>3, <2>4, OneRun
<1>4. CASE run' = [run EXCEPT ![o] = Finish(x)]
  <2>1. Sound(there, Ended(x, "ok"))
    BY <1>1, <1>2, EndIsSound
  <2>2. Sound(there, Finish(x))
    BY <2>1 DEF Finish
  <2> QED BY <1>1, <1>4, <2>2, OneRun
<1>5. CASE /\ \/ x.cmd \in {"export", "check"} /\ x.seen = {}
              \/ x.cmd = "check" /\ tokenMap # x.seen
           /\ run' = [run EXCEPT ![o] = Fail(x)]
  <2>1. ~x.excused => Failed(there, x)
    <3> SUFFICES ASSUME ~x.excused PROVE Failed(there, x)
      OBVIOUS
    <3>1. x.cmd \in {"export", "check"} /\ (x.cmd = "export" => x.seen = {})
      BY <1>5
    <3>2. x.seen = InstalledIn(there)
      BY <1>1, <3>1, Done
    <3> QED BY <3>1, <3>2 DEF Failed
  <2>2. Sound(there, Ended(x, "failed"))
    BY <1>1, <2>1, EndIsSound
  <2>3. Sound(there, Fail(x))
    BY <2>2 DEF Fail
  <2> QED BY <1>1, <1>5, <2>3, OneRun
<1> QED BY <1>3, <1>4, <1>5 DEF Conclude

\* A run that does nothing is sound.
LEMMA NewRunFacts ==
  /\ NewRun \in RunType /\ NewRun.cmd = "none" /\ NewRun.end = "none" /\ NewRun.todo = <<>>
  /\ \A T : Sound(T, NewRun)
<1>1. <<>> \in Plans
  BY NoCalls
<1>2. NewRun \in RunType
  BY <1>1 DEF NewRun, RunType
<1>3. /\ NewRun.cmd = "none" /\ NewRun.end = "none" /\ NewRun.todo = <<>>
  BY DEF NewRun
<1>4. \A T : Sound(T, NewRun)
  BY <1>2, <1>3 DEF Sound, WellFormed, Fine, OnCourse
<1> QED BY <1>2, <1>3, <1>4

\* when it is killed,
LEMMA KillStep ==
  ASSUME AdmInv, NEW o \in Operators, Kill(o)
  PROVE  AdmInv'
BY NewRunFacts, OneRun DEF Kill

(***************************************************************************)
(* The plans                                                               *)
(***************************************************************************)

\* The numbers by which SubsystemPlan interleaves.
LEMMA Halves ==
  ASSUME NEW L \in Nat
  PROVE  /\ \A k \in 1..(2 * L) : (k + 1) \div 2 \in 1..L /\ k % 2 \in {0, 1}
         /\ \A k \in 1..(2 * L) : k % 2 = 1 =>
              k + 1 \in 1..(2 * L) /\ (k + 1) % 2 = 0 /\ ((k + 1) + 1) \div 2 = (k + 1) \div 2
         /\ \A j \in 1..L :
              /\ 2 * j - 1 \in 1..(2 * L) /\ (2 * j - 1) % 2 = 1 /\ ((2 * j - 1) + 1) \div 2 = j
              /\ 2 * j \in 1..(2 * L) /\ (2 * j) % 2 = 0 /\ (2 * j + 1) \div 2 = j
<1>1. \A k \in 1..(2 * L) : (k + 1) \div 2 \in 1..L
  OBVIOUS
<1>2. \A k \in 1..(2 * L) : k % 2 \in {0, 1}
  OBVIOUS
<1>3. \A k \in 1..(2 * L) : k % 2 = 1 =>
              k + 1 \in 1..(2 * L) /\ (k + 1) % 2 = 0 /\ ((k + 1) + 1) \div 2 = (k + 1) \div 2
  OBVIOUS
<1>4. \A j \in 1..L :
              /\ 2 * j - 1 \in 1..(2 * L) /\ (2 * j - 1) % 2 = 1 /\ ((2 * j - 1) + 1) \div 2 = j
              /\ 2 * j \in 1..(2 * L) /\ (2 * j) % 2 = 0 /\ (2 * j + 1) \div 2 = j
  OBVIOUS
<1> QED BY <1>1, <1>2, <1>3, <1>4

\* What provisioning relates are subsystems and turbines, none of them the rig.
LEMMA Entities ==
  /\ Turbines \in Seq(Names) /\ Subsystems \in Seq(Names)
  /\ Len(Turbines) \in Nat /\ Len(Subsystems) \in Nat
  /\ \A i \in 1..Len(Turbines) : Turbines[i] \in Names /\ Turbines[i] \in ToSet(Turbines)
  /\ \A i \in 1..Len(Subsystems) : Subsystems[i] \in Names /\ Subsystems[i] # Rig
  /\ ToSet(Turbines) = {Turbines[i] : i \in 1..Len(Turbines)}
  /\ ToSet(Subsystems) = {Subsystems[i] : i \in 1..Len(Subsystems)}
  /\ Related = ToSet(Subsystems) \cup ToSet(Turbines)
  /\ Rig \in Names
<1>1. /\ Len(Turbines) \in Nat /\ DOMAIN Turbines = 1..Len(Turbines)
      /\ Len(Subsystems) \in Nat /\ DOMAIN Subsystems = 1..Len(Subsystems)
      /\ Turbines = [i \in 1..Len(Turbines) |-> Turbines[i]]
      /\ Subsystems = [i \in 1..Len(Subsystems) |-> Subsystems[i]]
  BY AdminAssumption, LenProperties
<1>2. /\ ToSet(Turbines) = {Turbines[i] : i \in 1..Len(Turbines)}
      /\ ToSet(Subsystems) = {Subsystems[i] : i \in 1..Len(Subsystems)}
  BY <1>1 DEF ToSet
<1>3. ToSet(Turbines) \subseteq Names /\ ToSet(Subsystems) \subseteq Names /\ Rig \in Names
      /\ Rig \notin ToSet(Subsystems)
  BY TurbineNames, AdminAssumption DEF Names, Assets
<1>4. /\ \A i \in 1..Len(Turbines) : Turbines[i] \in Names /\ Turbines[i] \in ToSet(Turbines)
      /\ \A i \in 1..Len(Subsystems) : Subsystems[i] \in Names /\ Subsystems[i] # Rig
  BY <1>2, <1>3
<1>5. Turbines \in Seq(Names) /\ Subsystems \in Seq(Names)
  <2>1. Turbines \in [1..Len(Turbines) -> Names] /\ Subsystems \in [1..Len(Subsystems) -> Names]
    BY <1>1, <1>4
  <2> QED BY <1>1, <2>1, SeqDef
<1>6. Related = ToSet(Subsystems) \cup ToSet(Turbines)
  <2> DEFINE m == Len(Subsystems)
             n == Len(Turbines)
             q == Subsystems \o Turbines
  <2>1. /\ q \in Seq(Names) /\ Len(q) = m + n
        /\ \A i \in 1..(m + n) : q[i] = IF i <= m THEN Subsystems[i] ELSE Turbines[i - m]
    BY <1>5, ConcatProperties
  <2>2. DOMAIN q = 1..(m + n)
    BY <2>1, LenProperties
  <2> HIDE DEF q
  <2>3. ToSet(q) = {q[i] : i \in 1..(m + n)}
    BY <2>2 DEF ToSet
  <2>4. ASSUME NEW i \in 1..(m + n) PROVE q[i] \in ToSet(Subsystems) \cup ToSet(Turbines)
    <3>1. CASE i <= m
      BY <1>1, <1>2, <2>1, <3>1
    <3>2. CASE ~(i <= m)
      <4>1. i - m \in 1..n
        BY <1>1, <3>2
      <4> QED BY <1>2, <2>1, <3>2, <4>1
    <3> QED BY <3>1, <3>2
  <2>5. ASSUME NEW i \in 1..m PROVE Subsystems[i] \in ToSet(q)
    <3>1. i \in 1..(m + n) /\ i <= m
      BY <1>1
    <3>2. q[i] = Subsystems[i]
      BY <2>1, <3>1
    <3> QED BY <2>3, <3>1, <3>2
  <2>6. ASSUME NEW i \in 1..n PROVE Turbines[i] \in ToSet(q)
    <3>1. m + i \in 1..(m + n) /\ ~(m + i <= m) /\ (m + i) - m = i
      BY <1>1
    <3>2. q[m + i] = Turbines[i]
      BY <2>1, <3>1
    <3> QED BY <2>3, <3>1, <3>2
  <2>7. ToSet(q) = ToSet(Subsystems) \cup ToSet(Turbines)
    BY <1>2, <2>3, <2>4, <2>5, <2>6
  <2> QED BY <2>7 DEF Related, q
<1> QED BY <1>1, <1>2, <1>3, <1>4, <1>5, <1>6

\* The calls for the turbines.
LEMMA TurbineCalls ==
  ASSUME NEW do \in Dos
  PROVE  LET s == Calls(do, Turbines) IN
         /\ s \in Plans
         /\ \A i \in 1..Len(s) : s[i].do = do /\ s[i].of \in ToSet(Turbines)
         /\ \A d \in ToSet(Turbines) : \E c \in ToSet(s) : c.do = do /\ c.of = d
<1> DEFINE n == Len(Turbines)
           s == Calls(do, Turbines)
<1>1. DOMAIN Turbines = 1..n
  BY Entities, LenProperties
<1>2. s = [k \in 1..n |-> Call(do, Turbines[k])]
  BY <1>1 DEF Calls
<1>3. n \in Nat
  BY Entities
<1>4. \A i \in 1..n : s[i] = Call(do, Turbines[i]) /\ s[i] \in CallSet /\ s[i].do = do /\ s[i].of = Turbines[i]
  BY <1>2, Entities, CallFacts
<1>5. s \in Plans /\ Len(s) = n
  <2>1. s \in [1..n -> CallSet]
    BY <1>2, <1>4
  <2> QED BY <1>3, <2>1, SeqDef, LenProperties DEF Plans
<1>6. ToSet(s) = {s[i] : i \in 1..n}
  BY <1>5, PlanFacts
<1> HIDE DEF s
<1>7. \A d \in ToSet(Turbines) : \E c \in ToSet(s) : c.do = do /\ c.of = d
  BY <1>4, <1>6, Entities
<1>8. \A i \in 1..Len(s) : s[i].do = do /\ s[i].of \in ToSet(Turbines)
  BY <1>4, <1>5, Entities
<1> QED BY <1>5, <1>7, <1>8 DEF s

\* The calls for the subsystems.
LEMMA SubsystemCalls ==
  /\ SubsystemPlan \in Plans
  /\ \A i \in 1..Len(SubsystemPlan) :
       \/ SubsystemPlan[i].do = "relation"
       \/ /\ SubsystemPlan[i].do = "asset" /\ SubsystemPlan[i].of # Rig
          /\ Has({"relation"}, SubsystemPlan[i].of, Behind(SubsystemPlan, i))
  /\ \A e \in ToSet(Subsystems) :
       Has({"asset"}, e, ToSet(SubsystemPlan)) /\ Has({"relation"}, e, ToSet(SubsystemPlan))
<1> DEFINE L == Len(Subsystems)
           s == SubsystemPlan
           kind(k) == IF k % 2 = 1 THEN "asset" ELSE "relation"
           name(k) == Subsystems[(k + 1) \div 2]
<1>1. L \in Nat /\ s = [k \in 1..(2 * L) |-> Call(kind(k), name(k))]
  BY Entities DEF SubsystemPlan
<1>2. "asset" \in Dos /\ "relation" \in Dos
  BY DEF Dos, TenantCalls
<1>3. ASSUME NEW k \in 1..(2 * L)
      PROVE  s[k] \in CallSet /\ s[k].do = kind(k) /\ s[k].of = name(k) /\ name(k) # Rig
  <2>1. (k + 1) \div 2 \in 1..L
    BY <1>1, Halves
  <2>2. name(k) \in Names /\ name(k) # Rig /\ kind(k) \in Dos
    BY <1>2, <2>1, Entities
  <2>3. s[k] = Call(kind(k), name(k))
    BY <1>1
  <2> HIDE DEF kind, name
  <2> QED BY <2>2, <2>3, CallFacts
<1>4. s \in Plans /\ Len(s) = 2 * L
  <2>1. s \in [1..(2 * L) -> CallSet] /\ 2 * L \in Nat
    BY <1>1, <1>3
  <2> HIDE DEF s
  <2> QED BY <2>1, SeqDef, LenProperties DEF Plans
<1>5. ToSet(s) = {s[i] : i \in 1..(2 * L)}
  BY <1>4, PlanFacts
<1> HIDE DEF s
<1>6. ASSUME NEW k \in 1..(2 * L)
      PROVE  \/ s[k].do = "relation"
             \/ /\ s[k].do = "asset" /\ s[k].of # Rig
                /\ Has({"relation"}, s[k].of, Behind(s, k))
  <2>1. CASE k % 2 = 1
    <3>1. k + 1 \in 1..(2 * L) /\ (k + 1) % 2 # 1 /\ ((k + 1) + 1) \div 2 = (k + 1) \div 2
      BY <1>1, <2>1, Halves
    <3>2. kind(k) = "asset" /\ kind(k + 1) = "relation" /\ name(k + 1) = name(k)
      BY <2>1, <3>1
    <3> HIDE DEF kind, name
    <3>3. s[k + 1].do = "relation" /\ s[k + 1].of = s[k].of /\ s[k].do = "asset" /\ s[k].of # Rig
      BY <1>3, <3>1, <3>2
    <3>4. s[k + 1] \in Behind(s, k)
      <4>1. k + 1 \in (k + 1)..Len(s)
        BY <1>4, <3>1
      <4> QED BY <4>1 DEF Behind
    <3> QED BY <3>3, <3>4 DEF Has
  <2>2. CASE k % 2 # 1
    BY <1>3, <2>2
  <2> QED BY <2>1, <2>2
<1>7. ASSUME NEW e \in ToSet(Subsystems)
      PROVE  Has({"asset"}, e, ToSet(s)) /\ Has({"relation"}, e, ToSet(s))
  <2>1. PICK j \in 1..L : e = Subsystems[j]
    BY Entities
  <2>2. /\ 2 * j - 1 \in 1..(2 * L) /\ (2 * j - 1) % 2 = 1 /\ ((2 * j - 1) + 1) \div 2 = j
        /\ 2 * j \in 1..(2 * L) /\ (2 * j) % 2 # 1 /\ (2 * j + 1) \div 2 = j
    BY <1>1, Halves
  <2>3. kind(2 * j - 1) = "asset" /\ name(2 * j - 1) = e /\ kind(2 * j) = "relation" /\ name(2 * j) = e
    BY <2>1, <2>2
  <2> HIDE DEF kind, name
  <2>4. s[2 * j - 1].do = "asset" /\ s[2 * j - 1].of = e /\ s[2 * j].do = "relation" /\ s[2 * j].of = e
    BY <1>3, <2>2, <2>3
  <2>5. s[2 * j - 1] \in ToSet(s) /\ s[2 * j] \in ToSet(s)
    BY <1>5, <2>2
  <2> QED BY <2>4, <2>5 DEF Has
<1> QED BY <1>4, <1>6, <1>7 DEF s

\* The plan of a rotation keeps its rule.
LEMMA SecurePlan ==
  /\ Plan("secure") \in Plans /\ InTurn(Securing, Plan("secure"))
  /\ Head(Plan("secure")).do = "loginTarget"
<1> DEFINE c1 == Call("loginTarget", "sysadmin")
           c2 == Call("loginVendor", "sysadmin")
           c3 == Call("change", "sysadmin")
           p == <<c1, c2, c3>>
<1>1. /\ c1 \in CallSet /\ c1.do = "loginTarget" /\ c2 \in CallSet /\ c2.do = "loginVendor"
      /\ c3 \in CallSet /\ c3.do = "change"
  <2>1. "loginTarget" \in Dos /\ "loginVendor" \in Dos /\ "change" \in Dos /\ "sysadmin" \in Names
    BY DEF Dos, OpenCalls, Names
  <2> QED BY <2>1, CallFacts
<1> HIDE DEF c1, c2, c3
<1>2. p \in Plans /\ Len(p) = 3 /\ p[1] = c1 /\ p[2] = c2 /\ p[3] = c3 /\ Head(p) = c1
  BY <1>1 DEF Plans
<1> HIDE DEF p
<1>3. Behind(p, 1) = {c2, c3} /\ Behind(p, 2) = {c3} /\ Behind(p, 3) = {}
  <2>1. (1 + 1)..3 = {2, 3} /\ (2 + 1)..3 = {3} /\ (3 + 1)..3 = {}
    OBVIOUS
  <2> QED BY <1>2, <2>1 DEF Behind
<1>4. FitsSecure(c1, {c2, c3}) /\ FitsSecure(c2, {c3}) /\ FitsSecure(c3, {})
  BY <1>1 DEF FitsSecure, Some, Only
<1>5. <<c1, {c2, c3}>> \in Securing /\ <<c2, {c3}>> \in Securing /\ <<c3, {}>> \in Securing
  BY <1>1, <1>4 DEF Securing, Rules
<1>6. InTurn(Securing, p)
  <2> SUFFICES ASSUME NEW i \in 1..3 PROVE <<p[i], Behind(p, i)>> \in Securing
    BY <1>2 DEF InTurn
  <2>1. i = 1 \/ i = 2 \/ i = 3
    OBVIOUS
  <2> QED BY <1>2, <1>3, <1>5, <2>1
<1> QED BY <1>1, <1>2, <1>6 DEF p, c1, c2, c3, Plan

\* The plan of an export keeps its rule, and owes every device.
LEMMA ExportPlan ==
  ASSUME NEW cmd \in {"export", "check"}
  PROVE  /\ Plan(cmd) \in Plans /\ InTurn(Exporting, Plan(cmd))
         /\ Plan(cmd) # <<>> /\ Head(Plan(cmd)).do = "login"
         /\ \A T : ExportOwes(T, ToSet(Plan(cmd)), {})
<1> DEFINE c1 == Call("login", "sysadmin")
           c2 == Call("tenants", "sysadmin")
           p == <<c1, c2>>
<1>1. c1 \in CallSet /\ c1.do = "login" /\ c2 \in CallSet /\ c2.do = "tenants"
  <2>1. "login" \in Dos /\ "tenants" \in Dos /\ "sysadmin" \in Names
    BY DEF Dos, OpenCalls, Names
  <2> QED BY <2>1, CallFacts
<1> HIDE DEF c1, c2
<1>2. p \in Plans /\ Len(p) = 2 /\ p[1] = c1 /\ p[2] = c2 /\ Head(p) = c1 /\ p # <<>>
  BY <1>1 DEF Plans
<1> HIDE DEF p
<1>3. Behind(p, 1) = {c2} /\ Behind(p, 2) = {}
  <2>1. (1 + 1)..2 = {2} /\ (2 + 1)..2 = {}
    OBVIOUS
  <2> QED BY <1>2, <2>1 DEF Behind
<1>4. FitsExport(c1, {c2}) /\ FitsExport(c2, {})
  BY <1>1 DEF FitsExport, Some, Only, BlockDos
<1>5. <<c1, {c2}>> \in Exporting /\ <<c2, {}>> \in Exporting
  BY <1>1, <1>4 DEF Exporting, Rules
<1>6. InTurn(Exporting, p)
  <2> SUFFICES ASSUME NEW i \in 1..2 PROVE <<p[i], Behind(p, i)>> \in Exporting
    BY <1>2 DEF InTurn
  <2>1. i = 1 \/ i = 2
    OBVIOUS
  <2> QED BY <1>2, <1>3, <1>5, <2>1
<1>7. ToSet(p) = {c1, c2}
  <2>1. 1..2 = {1, 2}
    OBVIOUS
  <2>2. ToSet(p) = {p[i] : i \in 1..2}
    BY <1>2, PlanFacts
  <2> QED BY <1>2, <2>1, <2>2
<1>8. \A T : ExportOwes(T, ToSet(p), {})
  BY <1>1, <1>7 DEF ExportOwes, Has, Some
<1> QED BY <1>1, <1>2, <1>6, <1>8 DEF p, c1, c2, Plan

Cat(u, v) == u \o v

\* Putting plans together is associative.
LEMMA Concatenation ==
  /\ \A u, v \in Plans : Cat(u, v) \in Plans
  /\ \A u, v, w \in Plans : Cat(Cat(u, v), w) = Cat(u, Cat(v, w))
<1>1. ASSUME NEW u \in Plans, NEW v \in Plans PROVE Cat(u, v) \in Plans
  BY ConcatProperties DEF Plans, Cat
<1>2. ASSUME NEW u \in Plans, NEW v \in Plans, NEW w \in Plans
      PROVE  Cat(Cat(u, v), w) = Cat(u, Cat(v, w))
  BY ConcatAssociative DEF Plans, Cat
<1> QED BY <1>1, <1>2

\* The plan of a provisioning keeps its rule, and owes everything it is there for.
LEMMA ProvisionPlan ==
  /\ Plan("provision") \in Plans /\ InTurn(Provisioning, Plan("provision"))
  /\ Plan("provision") # <<>> /\ Head(Plan("provision")).do = "login"
  /\ \A T : ProvisionOwes(T, ToSet(Plan("provision")), {}, {})
<1> DEFINE rel == Calls("relation", Turbines)
           p2 == SubsystemPlan \o rel
           cr == Call("asset", Rig)
           p3 == <<cr>> \o p2
           dev == Calls("device", Turbines)
           p4 == dev \o p3
           c4 == Call("loginAdmin", Own)
           p5 == <<c4>> \o p4
           c3 == Call("admin", Own)
           p6 == <<c3>> \o p5
           c2 == Call("tenant", Own)
           p7 == <<c2>> \o p6
           c1 == Call("login", "sysadmin")
           p8 == <<c1>> \o p7
<1> USE DEF Rules
<1>1. /\ "relation" \in Dos /\ "asset" \in Dos /\ "device" \in Dos /\ "loginAdmin" \in Dos
      /\ "admin" \in Dos /\ "tenant" \in Dos /\ "login" \in Dos /\ "sysadmin" \in Names
  BY DEF Dos, OpenCalls, TenantCalls, Names
<1>2. /\ cr \in CallSet /\ cr.do = "asset" /\ cr.of = Rig
      /\ c4 \in CallSet /\ c4.do = "loginAdmin" /\ c4.of = Own
      /\ c3 \in CallSet /\ c3.do = "admin" /\ c3.of = Own
      /\ c2 \in CallSet /\ c2.do = "tenant" /\ c2.of = Own
      /\ c1 \in CallSet /\ c1.do = "login"
  BY <1>1, TurbineNames, Entities, CallFacts
<1>3. /\ rel \in Plans
      /\ \A i \in 1..Len(rel) : rel[i].do = "relation"
      /\ \A d \in ToSet(Turbines) : Has({"relation"}, d, ToSet(rel))
      /\ dev \in Plans
      /\ \A i \in 1..Len(dev) : dev[i].do = "device" /\ dev[i].of \in ToSet(Turbines)
      /\ \A d \in ToSet(Turbines) : Has({"device"}, d, ToSet(dev))
  BY <1>1, TurbineCalls DEF Has
<1> HIDE DEF rel, dev, c1, c2, c3, c4, cr
<1>4. \A s \in Plans : \A i \in 1..Len(s) : s[i] \in CallSet /\ Behind(s, i) \subseteq ToSet(s)
                                            /\ Behind(s, i) \subseteq CallSet
  <2> TAKE s \in Plans
  <2>1. Len(s) \in Nat /\ ToSet(s) = {s[j] : j \in 1..Len(s)} /\ ToSet(s) \subseteq CallSet
        /\ \A j \in 1..Len(s) : s[j] \in CallSet
    BY PlanFacts
  <2> TAKE i \in 1..Len(s)
  <2>2. \A j \in (i + 1)..Len(s) : j \in 1..Len(s)
    BY <2>1
  <2>3. Behind(s, i) \subseteq ToSet(s)
    BY <2>1, <2>2 DEF Behind
  <2> QED BY <2>1, <2>3
<1>5. Only(EntityDos, ToSet(rel)) /\ InTurn(Provisioning, rel)
  <2>1. ToSet(rel) = {rel[i] : i \in 1..Len(rel)}
    BY <1>3, PlanFacts
  <2>2. \A S : S \subseteq ToSet(rel) => Only(EntityDos, S) /\ Only(AccountDos \cup EntityDos, S)
    BY <1>3, <2>1 DEF Only, EntityDos
  <2>3. ASSUME NEW i \in 1..Len(rel) PROVE <<rel[i], Behind(rel, i)>> \in Provisioning
    <3>1. FitsProvision(rel[i], Behind(rel, i))
      BY <1>3, <1>4, <2>2 DEF FitsProvision, AccountDos, TenantDos, AdminDos, ActivationDos, EntityDos, AssetDos
    <3> QED BY <1>3, <1>4, <3>1 DEF Provisioning
  <2> QED BY <2>2, <2>3 DEF InTurn
<1>6. /\ p2 \in Plans /\ InTurn(Provisioning, p2) /\ Only(EntityDos, ToSet(p2)) /\ HasRelations(ToSet(p2))
      /\ ToSet(SubsystemPlan) \subseteq ToSet(p2)
      /\ \A dos, of : dos \subseteq {"tenantAgain", "adminAgain"} => ~Has(dos, of, ToSet(p2))
  <2> DEFINE s == SubsystemPlan
  <2>1. /\ s \in Plans /\ ToSet(s) = {s[i] : i \in 1..Len(s)} /\ ToSet(s) \subseteq CallSet
        /\ ToSet(rel) \subseteq CallSet
    BY <1>3, SubsystemCalls, PlanFacts
  <2>2. \A i \in 1..Len(s) : s[i].do \in {"asset", "relation"}
    BY SubsystemCalls
  <2>3. Only(EntityDos, ToSet(s))
    BY <2>1, <2>2 DEF Only, EntityDos, AssetDos
  <2>4. ASSUME NEW i \in 1..Len(s) PROVE <<s[i], Behind(s, i) \cup ToSet(rel)>> \in Provisioning
    <3> DEFINE B == Behind(s, i) \cup ToSet(rel)
    <3>1. Only(EntityDos, B) /\ Only(AccountDos \cup EntityDos, B) /\ B \subseteq CallSet
      BY <1>4, <1>5, <2>1, <2>3 DEF Only
    <3>2. \/ s[i].do = "relation"
          \/ s[i].do = "asset" /\ s[i].of # Rig /\ Has({"relation"}, s[i].of, B)
      BY SubsystemCalls DEF Has
    <3> HIDE DEF B
    <3>3. FitsProvision(s[i], B)
      BY <3>1, <3>2 DEF FitsProvision, AccountDos, TenantDos, AdminDos, ActivationDos, EntityDos, AssetDos
    <3>4. s[i] \in CallSet
      BY <1>4, <2>1
    <3>5. <<s[i], B>> \in Provisioning
      BY <3>1, <3>3, <3>4 DEF Provisioning
    <3> QED BY <3>5 DEF B
  <2>5. p2 \in Plans /\ ToSet(p2) = ToSet(s) \cup ToSet(rel) /\ InTurn(Provisioning, p2)
    BY <1>3, <1>5, <2>1, <2>4, PlanBlock
  <2> HIDE DEF p2
  <2>6. Only(EntityDos, ToSet(p2))
    BY <1>5, <2>3, <2>5 DEF Only
  <2>7. HasRelations(ToSet(p2))
    <3>1. \A e \in ToSet(Subsystems) : Has({"relation"}, e, ToSet(s))
      BY SubsystemCalls
    <3>2. \A e \in Related : e \in ToSet(Subsystems) \/ e \in ToSet(Turbines)
      BY Entities
    <3> HIDE DEF s
    <3> QED BY <1>3, <2>5, <3>1, <3>2 DEF HasRelations, Has
  <2>8. \A dos, of : dos \subseteq {"tenantAgain", "adminAgain"} => ~Has(dos, of, ToSet(p2))
    BY <2>6 DEF Has, Only, EntityDos, AssetDos
  <2> QED BY <2>5, <2>6, <2>7, <2>8
<1> HIDE DEF p2
<1>7. p3 \in Plans /\ InTurn(Provisioning, p3) /\ Only(EntityDos, ToSet(p3)) /\ HasRelations(ToSet(p3))
      /\ ToSet(p3) = {cr} \cup ToSet(p2)
  <2>1. ToSet(p2) \subseteq CallSet
    BY <1>6, PlanFacts
  <2>2. FitsProvision(cr, ToSet(p2))
    <3>1. Only(AccountDos \cup EntityDos, ToSet(p2))
      BY <1>6 DEF Only
    <3> QED BY <1>2, <1>6, <3>1 DEF FitsProvision, AccountDos, TenantDos, AdminDos, ActivationDos, EntityDos, AssetDos
  <2>3. <<cr, ToSet(p2)>> \in Provisioning
    BY <1>2, <2>1, <2>2 DEF Provisioning
  <2>4. p3 \in Plans /\ InTurn(Provisioning, p3) /\ ToSet(p3) = {cr} \cup ToSet(p2)
    BY <1>2, <1>6, <2>3, PlanPush
  <2> HIDE DEF p3
  <2>5. Only(EntityDos, ToSet(p3))
    BY <1>2, <1>6, <2>4 DEF Only, EntityDos, AssetDos
  <2>6. HasRelations(ToSet(p3))
    BY <1>6, <2>4 DEF HasRelations, Has
  <2> QED BY <2>4, <2>5, <2>6
<1> HIDE DEF p3
<1>8. p4 \in Plans /\ InTurn(Provisioning, p4) /\ Only(EntityDos, ToSet(p4)) /\ HasRelations(ToSet(p4))
      /\ ToSet(p4) = ToSet(dev) \cup ToSet(p3)
  <2>1. ToSet(p3) \subseteq CallSet /\ ToSet(dev) = {dev[i] : i \in 1..Len(dev)}
    BY <1>3, <1>7, PlanFacts
  <2>2. Only(EntityDos, ToSet(dev))
    BY <1>3, <2>1 DEF Only, EntityDos
  <2>3. ASSUME NEW i \in 1..Len(dev) PROVE <<dev[i], Behind(dev, i) \cup ToSet(p3)>> \in Provisioning
    <3> DEFINE B == Behind(dev, i) \cup ToSet(p3)
    <3>1. Only(EntityDos, B) /\ Only(AccountDos \cup EntityDos, B) /\ B \subseteq CallSet
      BY <1>3, <1>4, <1>7, <2>1, <2>2 DEF Only
    <3>2. HasRelations(B)
      BY <1>7 DEF HasRelations, Has
    <3> HIDE DEF B
    <3>3. FitsProvision(dev[i], B)
      BY <1>3, <3>1, <3>2 DEF FitsProvision, AccountDos, TenantDos, AdminDos, ActivationDos, EntityDos, AssetDos
    <3>4. dev[i] \in CallSet
      BY <1>3, <1>4
    <3>5. <<dev[i], B>> \in Provisioning
      BY <3>1, <3>3, <3>4 DEF Provisioning
    <3> QED BY <3>5 DEF B
  <2>4. p4 \in Plans /\ InTurn(Provisioning, p4) /\ ToSet(p4) = ToSet(dev) \cup ToSet(p3)
    BY <1>3, <1>7, <2>3, PlanBlock
  <2> HIDE DEF p4
  <2>5. Only(EntityDos, ToSet(p4))
    BY <1>7, <2>2, <2>4 DEF Only
  <2>6. HasRelations(ToSet(p4))
    BY <1>7, <2>4 DEF HasRelations, Has
  <2> QED BY <2>4, <2>5, <2>6
<1> HIDE DEF p4
<1>9. p5 \in Plans /\ InTurn(Provisioning, p5) /\ Only(AccountDos \cup EntityDos, ToSet(p5))
      /\ HasRelations(ToSet(p5)) /\ ToSet(p5) = {c4} \cup ToSet(p4)
  <2>1. ToSet(p4) \subseteq CallSet /\ Only(AccountDos \cup EntityDos, ToSet(p4))
    BY <1>8, PlanFacts DEF Only
  <2>2. FitsProvision(c4, ToSet(p4))
    BY <1>2, <1>8, <2>1 DEF FitsProvision, AccountDos, TenantDos, AdminDos, ActivationDos, EntityDos, AssetDos
  <2>3. <<c4, ToSet(p4)>> \in Provisioning
    BY <1>2, <2>1, <2>2 DEF Provisioning
  <2>4. p5 \in Plans /\ InTurn(Provisioning, p5) /\ ToSet(p5) = {c4} \cup ToSet(p4)
    BY <1>2, <1>8, <2>3, PlanPush
  <2> HIDE DEF p5
  <2>5. Only(AccountDos \cup EntityDos, ToSet(p5))
    BY <1>2, <2>1, <2>4 DEF Only, AccountDos, ActivationDos
  <2>6. HasRelations(ToSet(p5))
    BY <1>8, <2>4 DEF HasRelations, Has
  <2> QED BY <2>4, <2>5, <2>6
<1> HIDE DEF p5
<1>10. p6 \in Plans /\ InTurn(Provisioning, p6) /\ Only(AccountDos \cup EntityDos, ToSet(p6))
      /\ HasRelations(ToSet(p6)) /\ ToSet(p6) = {c3} \cup ToSet(p5)
  <2>1. ToSet(p5) \subseteq CallSet /\ Has({"loginAdmin"}, Own, ToSet(p5))
    BY <1>2, <1>9, PlanFacts DEF Has
  <2>2. FitsProvision(c3, ToSet(p5))
    BY <1>2, <1>9, <2>1 DEF FitsProvision, AccountDos, TenantDos, AdminDos, ActivationDos, EntityDos, AssetDos
  <2>3. <<c3, ToSet(p5)>> \in Provisioning
    BY <1>2, <2>1, <2>2 DEF Provisioning
  <2>4. p6 \in Plans /\ InTurn(Provisioning, p6) /\ ToSet(p6) = {c3} \cup ToSet(p5)
    BY <1>2, <1>9, <2>3, PlanPush
  <2> HIDE DEF p6
  <2>5. Only(AccountDos \cup EntityDos, ToSet(p6))
    BY <1>2, <1>9, <2>4 DEF Only, AccountDos, AdminDos
  <2>6. HasRelations(ToSet(p6))
    BY <1>9, <2>4 DEF HasRelations, Has
  <2> QED BY <2>4, <2>5, <2>6
<1> HIDE DEF p6
<1>11. p7 \in Plans /\ InTurn(Provisioning, p7) /\ Only(AccountDos \cup EntityDos, ToSet(p7))
      /\ HasRelations(ToSet(p7)) /\ ToSet(p7) = {c2} \cup ToSet(p6)
  <2>1. ToSet(p6) \subseteq CallSet /\ Has({"admin"}, Own, ToSet(p6))
    BY <1>2, <1>10, PlanFacts DEF Has
  <2>2. FitsProvision(c2, ToSet(p6))
    BY <1>2, <1>10, <2>1 DEF FitsProvision, AccountDos, TenantDos, AdminDos, ActivationDos, EntityDos, AssetDos
  <2>3. <<c2, ToSet(p6)>> \in Provisioning
    BY <1>2, <2>1, <2>2 DEF Provisioning
  <2>4. p7 \in Plans /\ InTurn(Provisioning, p7) /\ ToSet(p7) = {c2} \cup ToSet(p6)
    BY <1>2, <1>10, <2>3, PlanPush
  <2> HIDE DEF p7
  <2>5. Only(AccountDos \cup EntityDos, ToSet(p7))
    BY <1>2, <1>10, <2>4 DEF Only, AccountDos, TenantDos
  <2>6. HasRelations(ToSet(p7))
    BY <1>10, <2>4 DEF HasRelations, Has
  <2> QED BY <2>4, <2>5, <2>6
<1> HIDE DEF p7
<1>12. p8 \in Plans /\ p8 # <<>> /\ Head(p8) = c1 /\ InTurn(Provisioning, p8)
       /\ ToSet(p8) = {c1} \cup ToSet(p7)
  <2>1. ToSet(p7) \subseteq CallSet /\ Has({"tenant"}, Own, ToSet(p7))
    BY <1>2, <1>11, PlanFacts DEF Has
  <2>2. FitsProvision(c1, ToSet(p7))
    BY <1>2, <1>11, <2>1 DEF FitsProvision, AccountDos, TenantDos, AdminDos, ActivationDos, EntityDos, AssetDos
  <2>3. <<c1, ToSet(p7)>> \in Provisioning
    BY <1>2, <2>1, <2>2 DEF Provisioning
  <2> QED BY <1>2, <1>11, <2>3, PlanPush
<1> HIDE DEF p8
<1>13. ASSUME NEW T PROVE ProvisionOwes(T, ToSet(p8), {}, {})
  <2>1. ToSet(p8) = {c1, c2, c3, c4, cr} \cup ToSet(dev) \cup ToSet(p2)
    BY <1>7, <1>8, <1>9, <1>10, <1>11, <1>12
  <2>2. \A d \in ToSet(Turbines) : Has({"device"}, d, ToSet(p8))
    BY <1>3, <2>1 DEF Has
  <2>3. \A e \in Assets : Has(AssetDos, e, ToSet(p8))
    <3>1. \A e \in ToSet(Subsystems) : Has({"asset"}, e, ToSet(SubsystemPlan))
      BY SubsystemCalls
    <3>2. \A e \in ToSet(Subsystems) : Has({"asset"}, e, ToSet(p8))
      BY <1>6, <2>1, <3>1 DEF Has
    <3>3. Has({"asset"}, Rig, ToSet(p8))
      BY <1>2, <2>1 DEF Has
    <3>4. \A e : Has({"asset"}, e, ToSet(p8)) => Has(AssetDos, e, ToSet(p8))
      BY DEF Has, AssetDos
    <3> QED BY <3>2, <3>3, <3>4 DEF Assets
  <2>4. Has({"tenant", "newTenant"}, Own, ToSet(p8)) /\ Has(AdminDos, Own, ToSet(p8))
        /\ Has(ActivationDos, Own, ToSet(p8))
    <3>1. c2 \in ToSet(p8) /\ c3 \in ToSet(p8) /\ c4 \in ToSet(p8)
      BY <2>1
    <3> QED BY <1>2, <3>1 DEF Has, AdminDos, ActivationDos
  <2>5. ~Has({"tenantAgain"}, Own, ToSet(p8)) /\ ~Has({"adminAgain"}, Own, ToSet(p8))
    <3>1. \A c \in ToSet(dev) : c.do = "device"
      <4>1. ToSet(dev) = {dev[i] : i \in 1..Len(dev)}
        BY <1>3, PlanFacts
      <4> QED BY <1>3, <4>1
    <3>2. \A c \in ToSet(p2) : c.do \notin {"tenantAgain", "adminAgain"}
      BY <1>6 DEF Only, EntityDos, AssetDos
    <3>3. \A c \in ToSet(p8) : c.do \notin {"tenantAgain", "adminAgain"}
      BY <1>2, <2>1, <3>1, <3>2
    <3> QED BY <3>3 DEF Has
  <2> QED BY <2>2, <2>3, <2>4, <2>5 DEF ProvisionOwes
<1>14. Plan("provision") = p8
  <2>1. <<c1>> \in Plans /\ <<c2>> \in Plans /\ <<c3>> \in Plans /\ <<c4>> \in Plans /\ <<cr>> \in Plans
    BY <1>2 DEF Plans
  <2>2. <<c1, c2, c3, c4>> = <<c1>> \o (<<c2>> \o (<<c3>> \o <<c4>>))
    OBVIOUS
  <2>3. SubsystemPlan \in Plans
    BY SubsystemCalls
  <2>4. <<c1, c2, c3, c4>> \o dev \o <<cr>> \o SubsystemPlan \o rel = p8
    <3> DEFINE q1 == <<c1>>
               q2 == <<c2>>
               q3 == <<c3>>
               q4 == <<c4>>
               q5 == <<cr>>
    <3>1. q1 \in Plans /\ q2 \in Plans /\ q3 \in Plans /\ q4 \in Plans /\ q5 \in Plans
          /\ dev \in Plans /\ SubsystemPlan \in Plans /\ rel \in Plans
      BY <1>3, <2>1, <2>3
    <3> HIDE DEF q1, q2, q3, q4, q5
    <3>2. PICK sub \in Plans : sub = SubsystemPlan
      BY <3>1
    <3>3. PICK turbines \in Plans : turbines = dev
      BY <3>1
    <3>4. PICK last \in Plans : last = rel
      BY <3>1
    <3>5. Cat(Cat(Cat(Cat(Cat(q1, Cat(q2, Cat(q3, q4))), turbines), q5), sub), last)
          = Cat(q1, Cat(q2, Cat(q3, Cat(q4, Cat(turbines, Cat(q5, Cat(sub, last)))))))
      <4>0. /\ q1 \in Plans /\ q2 \in Plans /\ q3 \in Plans /\ q4 \in Plans /\ q5 \in Plans
            /\ sub \in Plans /\ turbines \in Plans /\ last \in Plans
        BY <3>1
      <4>1. PICK C \in Plans : C = Cat(q3, q4)
        BY <4>0, Concatenation
      <4>2. PICK B \in Plans : B = Cat(q2, C)
        BY <4>0, Concatenation
      <4>3. PICK A \in Plans : A = Cat(q1, B)
        BY <4>0, Concatenation
      <4>4. PICK H \in Plans : H = Cat(sub, last)
        BY <4>0, Concatenation
      <4>5. PICK F \in Plans : F = Cat(q5, H)
        BY <4>0, Concatenation
      <4>6. PICK E \in Plans : E = Cat(turbines, F)
        BY <4>0, Concatenation
      <4>7. Cat(Cat(Cat(Cat(A, turbines), q5), sub), last) = Cat(A, E)
        <5>1. Cat(A, turbines) \in Plans /\ Cat(Cat(A, turbines), q5) \in Plans
          BY <4>0, Concatenation
        <5>2. Cat(Cat(Cat(Cat(A, turbines), q5), sub), last) = Cat(Cat(Cat(A, turbines), q5), H)
          BY <4>4, <5>1, <4>0, Concatenation
        <5>3. Cat(Cat(Cat(A, turbines), q5), H) = Cat(Cat(A, turbines), F)
          BY <4>5, <5>1, <4>0, Concatenation
        <5>4. Cat(Cat(A, turbines), F) = Cat(A, E)
          BY <4>6, <4>0, Concatenation
        <5> QED BY <5>2, <5>3, <5>4
      <4>8. Cat(A, E) = Cat(q1, Cat(B, E))
        BY <4>3, <4>0, Concatenation
      <4>9. Cat(B, E) = Cat(q2, Cat(C, E))
        BY <4>2, <4>0, Concatenation
      <4>10. Cat(C, E) = Cat(q3, Cat(q4, E))
        BY <4>1, <4>0, Concatenation
      <4> QED BY <4>1, <4>2, <4>3, <4>4, <4>5, <4>6, <4>7, <4>8, <4>9, <4>10
    <3> QED BY <2>2, <3>2, <3>3, <3>4, <3>5, Zenon DEF Cat, q1, q2, q3, q4, q5, p2, p3, p4, p5, p6, p7, p8
  <2>5. Plan("provision") = <<c1, c2, c3, c4>> \o dev \o <<cr>> \o SubsystemPlan \o rel
    BY DEF Plan, AssetPlan, c1, c2, c3, c4, cr, dev, rel
  <2> QED BY <2>4, <2>5
<1> QED BY <1>2, <1>12, <1>13, <1>14

\* and when it begins.
LEMMA StartStep ==
  ASSUME AdmInv, NEW o \in Operators, NEW cmd \in Duties[o], Start(o, cmd)
  PROVE  AdmInv'
<1> DEFINE p == Plan(cmd)
           y == [NewRun EXCEPT !.cmd = cmd, !.todo = p]
<1>1. cmd \in {"secure", "provision", "export", "check"}
  BY AdminAssumption
<1>2. there' = there /\ run' = [run EXCEPT ![o] = y]
  BY DEF Start
<1>3. /\ p \in Plans
      /\ cmd = "secure" => InTurn(Securing, p) /\ Head(p).do = "loginTarget"
      /\ cmd = "provision" => InTurn(Provisioning, p) /\ Head(p).do = "login"
                              /\ ProvisionOwes(there, ToSet(p), {}, {})
      /\ cmd \in {"export", "check"} => InTurn(Exporting, p) /\ Head(p).do = "login"
                                        /\ ExportOwes(there, ToSet(p), {})
  <2>1. CASE cmd = "secure"
    BY <2>1, SecurePlan
  <2>2. CASE cmd = "provision"
    BY <2>2, ProvisionPlan
  <2>3. CASE cmd \in {"export", "check"}
    BY <2>3, ExportPlan
  <2> QED BY <1>1, <2>1, <2>2, <2>3
<1> HIDE DEF p
<1>4. /\ y \in RunType /\ y.cmd = cmd /\ y.todo = p /\ y.end = "none" /\ y.seen = {} /\ y.refused = {}
      /\ y.inside = FALSE /\ y.excused = FALSE
  <2>1. p \in Plans
    BY <1>3
  <2> QED BY <1>1, <2>1 DEF NewRun, RunType
<1> HIDE DEF y
<1>5. WellFormed(y)
  BY <1>1, <1>3, <1>4 DEF WellFormed
<1>6. OnCourse(there, y)
  <2>1. Head(p).do = "loginTarget" => SecureSeat(Head(p), y.token, y.inside)
    BY <1>4 DEF SecureSeat
  <2>2. Head(p).do = "login" => /\ ProvisionSeat(Head(p), y.token, y.inside)
                                /\ ExportSeat(Head(p), y.token, y.inside, y.saved)
    BY <1>4 DEF ProvisionSeat, ExportSeat, EntityDos, AssetDos, BlockDos
  <2> QED BY <1>1, <1>3, <1>4, <2>1, <2>2 DEF OnCourse
<1>7. Sound(there, y)
  BY <1>4, <1>5, <1>6 DEF Sound, Fine
<1> QED BY <1>2, <1>7, OneRun

\* The inductive invariant.
LEMMA AdmInvHolds == Spec => []AdmInv
<1>1. Init => AdmInv
  <2> SUFFICES ASSUME Init PROVE AdmInv
    OBVIOUS
  <2>1. PICK devices \in SUBSET Devices, ready \in SUBSET Tenants, secured \in BOOLEAN :
          /\ {Home[d] : d \in devices} \subseteq ready
          /\ there = (devices \X {"device"}) \cup (ready \X {"tenant", "admin", "active"})
                       \cup (IF secured THEN {<<"sysadmin", "secured">>} ELSE {})
    BY DEF Init
  <2>2. World(there)
    <3> SUFFICES ASSUME NEW d \in Devices, <<d, "device">> \in there
                 PROVE  {Home[d]} \X {"tenant", "admin", "active"} \subseteq there
      BY DEF World, InstalledIn
    <3>1. d \in devices
      BY <2>1
    <3>2. Home[d] \in ready
      BY <2>1, <3>1
    <3>3. {Home[d]} \X {"tenant", "admin", "active"} \subseteq ready \X {"tenant", "admin", "active"}
      BY <3>2
    <3> QED BY <2>1, <3>3
  <2>3. run = [o \in Operators |-> NewRun]
    BY DEF Init
  <2>4. run \in [Operators -> RunType] /\ \A o \in Operators : Sound(there, run[o])
    BY <2>3, NewRunFacts
  <2> QED BY <2>2, <2>4 DEF AdmInv
<1>2. AdmInv /\ [Next]_vars => AdmInv'
  <2> SUFFICES ASSUME AdmInv, [Next]_vars PROVE AdmInv'
    OBVIOUS
  <2>1. ASSUME NEW o \in Operators, NEW cmd \in Duties[o], Start(o, cmd) PROVE AdmInv'
    BY <2>1, StartStep
  <2>2. ASSUME NEW o \in Operators, SkipCall(o) PROVE AdmInv'
    BY <2>2, SkipCallStep
  <2>3. ASSUME NEW o \in Operators, Answered(o) PROVE AdmInv'
    BY <2>3, AnsweredStep
  <2>4. ASSUME NEW o \in Operators, Unauthorized(o) PROVE AdmInv'
    BY <2>4, UnauthorizedStep
  <2>5. ASSUME NEW o \in Operators, Conclude(o) PROVE AdmInv'
    BY <2>5, ConcludeStep
  <2>6. ASSUME NEW o \in Operators, Lost(o) PROVE AdmInv'
    BY <2>6, LostStep
  <2>7. ASSUME NEW o \in Operators, Expire(o) PROVE AdmInv'
    BY <2>7, ExpireStep
  <2>8. ASSUME NEW o \in Operators, ReloginFails(o) PROVE AdmInv'
    BY <2>8, ReloginFailsStep
  <2>9. ASSUME NEW o \in Operators, Kill(o) PROVE AdmInv'
    BY <2>9, KillStep
  <2>10. CASE UNCHANGED vars
    <3>1. there' = there /\ run' = run
      BY <2>10 DEF vars
    <3> QED BY <3>1 DEF AdmInv
  <2> QED BY <2>1, <2>2, <2>3, <2>4, <2>5, <2>6, <2>7, <2>8, <2>9, <2>10 DEF Next, Step
<1> QED BY <1>1, <1>2, PTL DEF Spec

\* Of a command that was let in, whose calls got through in the end and whose token
\* lasted: a provisioning fails only over a turbine without a device, its tenant and
\* administrator ready, and an export only when there is no device, whatever rivals do
\* and however often a reply is lost and the call sent again (thingsboard_client.py:
\* create_tenant, create_user, activate_user).  A rotation fails only when the password
\* has been rotated already, by a rival or by its own call, done and repeated.
THEOREM FailuresAreExplained == Spec => []FailureIsExplained
<1>1. AdmInv => FailureIsExplained
  <2> SUFFICES ASSUME AdmInv, NEW o \in Operators, run[o].end = "failed", ~run[o].excused
               PROVE  /\ run[o].cmd = "provision" =>
                           /\ {Own} \X {"tenant", "admin", "active"} \subseteq there
                           /\ ~(ToSet(Turbines) \subseteq Installed)
                      /\ run[o].cmd = "export" => Installed = {}
                      /\ run[o].cmd = "secure" => Secured
    BY DEF FailureIsExplained
  <2>1. Failed(there, run[o])
    BY RunFacts DEF Sound, Fine
  <2> QED BY <2>1 DEF Failed, Account, Installed, InstalledIn, Secured
<1> QED BY <1>1, AdmInvHolds, PTL

\* A provisioning that reports SUCCESS, its calls got through and its token lasted, has
\* left the tenant, its administrator, the devices, every asset but those the server
\* refused, and the relations between the entities it found or created itself
\* (run_provision_entities).
THEOREM SuccessIsAlwaysComplete == Spec => []SuccessIsComplete
<1>1. AdmInv => SuccessIsComplete
  <2> SUFFICES ASSUME AdmInv, NEW o \in Operators, run[o] = Ended(run[o], "ok"),
                      run[o].cmd = "provision", ~run[o].excused
               PROVE  /\ {Own} \X {"tenant", "admin", "active"} \subseteq there
                      /\ ToSet(Turbines) \subseteq Installed
                      /\ (Assets \ run[o].refused) \X {"asset"} \subseteq there
                      /\ \A e \in Related : {Rig, e} \subseteq run[o].seen => <<e, "related">> \in there
    BY DEF SuccessIsComplete, Related
  <2>1. run[o] \in RunType /\ Sound(there, run[o])
    BY RunFacts
  <2>2. run[o].end = "ok"
    <3>1. Ended(run[o], "ok").end = "ok"
      BY <2>1, EndedFacts
    <3> QED BY <3>1
  <2>3. Complete(there, run[o])
    BY <2>1, <2>2 DEF Sound, Fine
  <2> QED BY <2>3 DEF Complete, Account, Installed, InstalledIn
<1> QED BY <1>1, AdmInvHolds, PTL

\* The token map that replaces device-tokens.json is complete unless a call of the export
\* was given up or a borrowed token ran out (_collect_devices and the token that
\* impersonate() gives back after each tenant).
THEOREM ExportIsAlwaysComplete == Spec => []ExportIsComplete
<1>1. AdmInv => ExportIsComplete
  <2> SUFFICES ASSUME AdmInv, NEW o \in Operators, AboutToWrite(o), ~run[o].excused
               PROVE  run[o].seen = Installed
    BY DEF ExportIsComplete
  <2>1. /\ run[o] \in RunType /\ WellFormed(run[o]) /\ Fine(there, run[o])
        /\ run[o].end = "none" /\ run[o].todo = <<>> /\ run[o].cmd = "export"
    BY RunFacts DEF AboutToWrite, Sound
  <2>2. run[o].seen = InstalledIn(there)
    BY <2>1, Done
  <2> QED BY <2>2 DEF Installed, InstalledIn
<1> QED BY <1>1, AdmInvHolds, PTL
===============================================================================
