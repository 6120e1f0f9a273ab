----------------------------- MODULE AccountsProofs -----------------------------
(***************************************************************************)
(* The accounts of the services, for any set of plans that follow the         *)
(* declarations and any sequence of setups, each cut short between any two   *)
(* statements.                                                               *)
(***************************************************************************)
EXTENDS Accounts, SequenceTheorems, TLAPS

--------------------------------------------------------------------------------
(***************************************************************************)
(* What the proofs know of the setups' calls.                                *)
(***************************************************************************)
Kinds == {"database", "db_user", "grant", "broker", "permissions", "vhost", "db_sync", "bootstrap",
          "domain", "project", "role", "user", "admin", "domain_role", "service", "endpoints",
          "connect"}
Names == {"openstack", "Default", "service", "_member_", "keystone", "glance", "placement",
          "cinder", "neutron", "nova", "nova_api", "nova_cell0", "heat", "heat-cfn",
          "heat_admin", "heat_stack_owner", "heat_stack_user"}
Calls == Kinds \X Names

\* A user of mysql is granted its rights by the next call.
GrantFollows(s) ==
  \A n \in 1..Len(s) : s[n][1] = "db_user" =>
    n + 1 \in 1..Len(s) /\ s[n + 1] = << "grant", s[n][2] >>

\* A sequence of calls none of which goes back to its own service's API.
Plain(s) == s \in Seq(Calls) /\ GrantFollows(s) /\ \A n \in 1..Len(s) : s[n][1] # "connect"

\* One that does has its endpoints first.
EndpointsFirst(s) ==
  \A n \in 1..Len(s) : s[n][1] = "connect" =>
    \E k \in 1..n - 1 : s[k] = << "endpoints", s[n][2] >>

\* Plain sequences one after the other are plain.
LEMMA PlainConcat ==
  ASSUME NEW s, NEW t, Plain(s), Plain(t)
  PROVE  Plain(s \o t)
<1>1. s \in Seq(Calls) /\ t \in Seq(Calls)  BY DEF Plain
<1>2. /\ s \o t \in Seq(Calls) /\ Len(s \o t) = Len(s) + Len(t)
      /\ Len(s) \in Nat /\ Len(t) \in Nat
  BY <1>1, ConcatProperties, LenProperties
<1>4. \A n \in 1..Len(s) : (s \o t)[n] = s[n]  BY <1>1, <1>2, ConcatProperties
<1>5. \A n \in 1..Len(t) : (s \o t)[Len(s) + n] = t[n]
  <2> SUFFICES ASSUME NEW n \in 1..Len(t) PROVE (s \o t)[Len(s) + n] = t[n]
    OBVIOUS
  <2>1. Len(s) + n \in 1..Len(s) + Len(t) /\ ~(Len(s) + n <= Len(s)) /\ (Len(s) + n) - Len(s) = n
    BY <1>2
  <2> QED  BY <1>1, <2>1, ConcatProperties
<1>3. ASSUME NEW n \in 1..Len(s \o t)
      PROVE  /\ (s \o t)[n][1] # "connect"
             /\ (s \o t)[n][1] = "db_user" =>
                  n + 1 \in 1..Len(s \o t) /\ (s \o t)[n + 1] = << "grant", (s \o t)[n][2] >>
  <2> DEFINE r == s \o t
  <2>1. CASE n \in 1..Len(s)
    <3>1. r[n] = s[n] /\ (n + 1 \in 1..Len(s) => r[n + 1] = s[n + 1])  BY <1>2, <1>4, <2>1
    <3> QED  BY <1>2, <2>1, <3>1 DEF Plain, GrantFollows
  <2>2. CASE n \notin 1..Len(s)
    <3> DEFINE k == n - Len(s)
    <3>1. k \in 1..Len(t) /\ n = Len(s) + k /\ n + 1 = Len(s) + (k + 1)  BY <1>2, <2>2
    <3>2. r[n] = t[k] /\ (k + 1 \in 1..Len(t) => r[n + 1] = t[k + 1])  BY <1>5, <3>1
    <3>3. k + 1 \in 1..Len(t) => n + 1 \in 1..Len(r)  BY <1>2, <3>1
    <3> HIDE DEF k, r
    <3> QED  BY <3>1, <3>2, <3>3 DEF Plain, GrantFollows, r
  <2> QED  BY <2>1, <2>2
<1> QED  BY <1>2, <1>3 DEF Plain, GrantFollows

\* What a call's statements fail without, as calls that have gone before.
RestsOn(call) ==
  CASE call[1] = "grant" -> {<< "db_user", call[2] >>}
    [] call[1] = "db_sync" -> {<< "database", call[2] >>, << "grant", call[2] >>}
    [] call[1] = "permissions" -> {<< "broker", call[2] >>, << "vhost", "openstack" >>}
    [] call[1] = "bootstrap" -> {<< "db_sync", "keystone" >>}
    [] call[1] \in {"domain", "role", "service"} -> {<< "bootstrap", "Default" >>}
    [] call[1] \in {"project", "user"} -> {<< "domain", DomainOf(call[2]) >>}
    [] call[1] = "admin" -> {<< "user", call[2] >>, << "project", "service" >>}
    [] call[1] = "domain_role" -> {<< "user", call[2] >>}
    [] call[1] = "endpoints" -> {<< "service", call[2] >>}
    [] OTHER -> {}

\* What other setups leave for a service's.
FromKeystone == {<< "bootstrap", "Default" >>, << "domain", "service" >>, << "project", "service" >>}
FromRabbitmq == {<< "vhost", "openstack" >>}

\* What a service's db_sync rests on.
Tables(who) == {<< "database", who >>, << "grant", who >>}

\* A sequence of calls that can be made once those of G have been.
Rests(s, G) ==
  \A n \in 1..Len(s) : \A c \in RestsOn(s[n]) : c \in G \/ \E k \in 1..n - 1 : s[k] = c

\* One that makes those of P.
Holds(s, P) == \A c \in P : \E k \in 1..Len(s) : s[k] = c

Piece(s, G, P) == Plain(s) /\ Rests(s, G) /\ Holds(s, P)

\* Where a concatenation has what it has.
LEMMA ConcatAt ==
  ASSUME NEW s \in Seq(Calls), NEW t \in Seq(Calls)
  PROVE  /\ Len(s) \in Nat /\ Len(t) \in Nat /\ Len(s \o t) = Len(s) + Len(t)
         /\ \A n \in 1..Len(s) : n \in 1..Len(s \o t) /\ (s \o t)[n] = s[n]
         /\ \A n \in 1..Len(t) : Len(s) + n \in 1..Len(s \o t) /\ (s \o t)[Len(s) + n] = t[n]
<1>1. Len(s \o t) = Len(s) + Len(t) /\ Len(s) \in Nat /\ Len(t) \in Nat
  BY ConcatProperties, LenProperties
<1>2. \A n \in 1..Len(s) : n \in 1..Len(s \o t) /\ (s \o t)[n] = s[n]  BY <1>1, ConcatProperties
<1>3. ASSUME NEW n \in 1..Len(t)
      PROVE  Len(s) + n \in 1..Len(s \o t) /\ (s \o t)[Len(s) + n] = t[n]
  <2>1. /\ Len(s) + n \in 1..Len(s) + Len(t)
        /\ ~(Len(s) + n <= Len(s)) /\ (Len(s) + n) - Len(s) = n
    BY <1>1
  <2> QED  BY <1>1, <2>1, ConcatProperties
<1> QED  BY <1>1, <1>2, <1>3

\* Pieces fit together where the first leaves what the second rests on.
LEMMA PieceConcat ==
  ASSUME NEW s, NEW F, NEW P, Piece(s, F, P),
         NEW t, NEW H, NEW Q, Piece(t, H, Q),
         NEW G, F \subseteq G, H \subseteq G \cup P
  PROVE  Piece(s \o t, G, P \cup Q)
<1> DEFINE r == s \o t
<1>1. s \in Seq(Calls) /\ t \in Seq(Calls)  BY DEF Piece, Plain
<1>2. /\ Len(s) \in Nat /\ Len(t) \in Nat /\ Len(r) = Len(s) + Len(t)
      /\ \A n \in 1..Len(s) : n \in 1..Len(r) /\ r[n] = s[n]
      /\ \A n \in 1..Len(t) : Len(s) + n \in 1..Len(r) /\ r[Len(s) + n] = t[n]
  BY <1>1, ConcatAt
<1>3. Plain(r)  BY PlainConcat DEF Piece
<1> HIDE DEF r
<1>4. Holds(r, P \cup Q)  BY <1>2 DEF Piece, Holds
<1>5. Rests(r, G)
  <2> SUFFICES ASSUME NEW n \in 1..Len(r), NEW c \in RestsOn(r[n])
               PROVE  c \in G \/ \E k \in 1..n - 1 : r[k] = c
    BY DEF Rests
  <2>1. CASE n \in 1..Len(s)
    <3>1. c \in F \/ \E k \in 1..n - 1 : s[k] = c  BY <1>2, <2>1 DEF Piece, Rests
    <3>2. \A k \in 1..n - 1 : k \in 1..Len(s)  BY <1>2, <2>1
    <3> QED  BY <1>2, <3>1, <3>2
  <2>2. CASE n \notin 1..Len(s)
    <3> DEFINE m == n - Len(s)
    <3>1. m \in 1..Len(t) /\ n = Len(s) + m  BY <1>2, <2>2
    <3> HIDE DEF m
    <3>2. c \in RestsOn(t[m])  BY <1>2, <3>1
    <3>3. c \in H \/ \E k \in 1..m - 1 : t[k] = c  BY <3>1, <3>2 DEF Piece, Rests
    <3>4. CASE c \in P
      <4>1. PICK k \in 1..Len(s) : s[k] = c  BY <3>4 DEF Piece, Holds
      <4>2. k \in 1..n - 1 /\ r[k] = c  BY <1>2, <3>1, <4>1
      <4> QED  BY <4>2
    <3>5. ASSUME NEW k \in 1..m - 1, t[k] = c PROVE \E i \in 1..n - 1 : r[i] = c
      <4>1. k \in 1..Len(t) /\ Len(s) + k \in 1..n - 1  BY <1>2, <3>1
      <4>2. r[Len(s) + k] = c  BY <1>2, <3>5, <4>1
      <4> QED  BY <4>1, <4>2
    <3> QED  BY <3>3, <3>4, <3>5
  <2> QED  BY <2>1, <2>2
<1> QED  BY <1>3, <1>4, <1>5 DEF Piece, r

\* mysql.ensure_service, ...
LEMMA MysqlPiece ==
  ASSUME NEW who \in Names
  PROVE  Piece(MysqlService(who), {}, Tables(who))
<1> DEFINE s == MysqlService(who)
           G == {}
           P == Tables(who)
<1>1. /\ Len(s) = 3
      /\ s[1] = << "database", who >>
      /\ s[2] = << "db_user", who >>
      /\ s[3] = << "grant", who >>
  BY DEF MysqlService
<1>2. {<< "database", who >>, << "db_user", who >>, << "grant", who >>} \subseteq Calls
  BY DEF Calls, Kinds, Names
<1>3. s \in Seq(Calls)  BY <1>2 DEF MysqlService
<1>4. /\ RestsOn(<< "database", who >>) = {}
      /\ RestsOn(<< "db_user", who >>) = {}
      /\ RestsOn(<< "grant", who >>) = {<< "db_user", who >>}
  BY DEF RestsOn
<1> HIDE DEF s
<1>5. \A n \in 1..Len(s) : n = 1 \/ n = 2 \/ n = 3  BY <1>1
<1>6. Plain(s)  BY <1>1, <1>3, <1>5 DEF Plain, GrantFollows
<1>7. Rests(s, G)
  <2> SUFFICES ASSUME NEW n \in 1..Len(s), NEW c \in RestsOn(s[n])
               PROVE  c \in G \/ \E k \in 1..n - 1 : s[k] = c
    BY DEF Rests
  <2>1. CASE n = 1  BY <1>1, <1>4, <2>1 DEF Tables
  <2>2. CASE n = 2  BY <1>1, <1>4, <2>2 DEF Tables
  <2>3. CASE n = 3
    <3>1. 2 \in 1..n - 1  BY <2>3
    <3> QED  BY <1>1, <1>4, <2>3, <3>1 DEF Tables
  <2> QED  BY <1>5, <2>1, <2>2, <2>3
<1>8. Holds(s, P)
  <2>1. 1 \in 1..Len(s) /\ 2 \in 1..Len(s) /\ 3 \in 1..Len(s)  BY <1>1
  <2> QED  BY <1>1, <2>1 DEF Holds, Tables
<1> QED  BY <1>6, <1>7, <1>8 DEF Piece, s

\* ... rabbitmq.ensure_service, ...
LEMMA BrokerPiece ==
  ASSUME NEW who \in Names
  PROVE  Piece(BrokerService(who), FromRabbitmq, {})
<1> DEFINE s == BrokerService(who)
           G == FromRabbitmq
           P == {}
<1>1. /\ Len(s) = 2
      /\ s[1] = << "broker", who >>
      /\ s[2] = << "permissions", who >>
  BY DEF BrokerService
<1>2. {<< "broker", who >>, << "permissions", who >>} \subseteq Calls
  BY DEF Calls, Kinds, Names
<1>3. s \in Seq(Calls)  BY <1>2 DEF BrokerService
<1>4. /\ RestsOn(<< "broker", who >>) = {}
      /\ RestsOn(<< "permissions", who >>) = {<< "broker", who >>, << "vhost", "openstack" >>}
  BY DEF RestsOn
<1> HIDE DEF s
<1>5. \A n \in 1..Len(s) : n = 1 \/ n = 2  BY <1>1
<1>6. Plain(s)  BY <1>1, <1>3, <1>5 DEF Plain, GrantFollows
<1>7. Rests(s, G)  BY <1>1, <1>4, <1>5 DEF Rests, FromRabbitmq
<1>8. Holds(s, P)
  <2>1. 1 \in 1..Len(s) /\ 2 \in 1..Len(s)  BY <1>1
  <2> QED  BY <1>1, <2>1 DEF Holds, FromRabbitmq
<1> QED  BY <1>6, <1>7, <1>8 DEF Piece, s

\* ... and keystone.ensure_service_account.
LEMMA AccountPiece ==
  ASSUME NEW who \in Names, who # "heat_admin"
  PROVE  Piece(ServiceAccount(who), FromKeystone, {})
<1> DEFINE s == ServiceAccount(who)
           G == FromKeystone
           P == {}
<1>1. /\ Len(s) = 4
      /\ s[1] = << "user", who >>
      /\ s[2] = << "admin", who >>
      /\ s[3] = << "service", who >>
      /\ s[4] = << "endpoints", who >>
  BY DEF ServiceAccount
<1>2. {<< "user", who >>, << "admin", who >>, << "service", who >>,
        << "endpoints", who >>} \subseteq Calls
  BY DEF Calls, Kinds, Names
<1>3. s \in Seq(Calls)  BY <1>2 DEF ServiceAccount
<1>4. /\ RestsOn(<< "user", who >>) = {<< "domain", "service" >>}
      /\ RestsOn(<< "admin", who >>) = {<< "user", who >>, << "project", "service" >>}
      /\ RestsOn(<< "service", who >>) = {<< "bootstrap", "Default" >>}
      /\ RestsOn(<< "endpoints", who >>) = {<< "service", who >>}
  BY DEF RestsOn, DomainOf
<1> HIDE DEF s
<1>5. \A n \in 1..Len(s) : n = 1 \/ n = 2 \/ n = 3 \/ n = 4  BY <1>1
<1>6. Plain(s)  BY <1>1, <1>3, <1>5 DEF Plain, GrantFollows
<1>7. Rests(s, G)
  <2> SUFFICES ASSUME NEW n \in 1..Len(s), NEW c \in RestsOn(s[n])
               PROVE  c \in G \/ \E k \in 1..n - 1 : s[k] = c
    BY DEF Rests
  <2>1. CASE n = 1  BY <1>1, <1>4, <2>1 DEF Tables, FromKeystone
  <2>2. CASE n = 2
    <3>1. 1 \in 1..n - 1  BY <2>2
    <3> QED  BY <1>1, <1>4, <2>2, <3>1 DEF Tables, FromKeystone
  <2>3. CASE n = 3  BY <1>1, <1>4, <2>3 DEF Tables, FromKeystone
  <2>4. CASE n = 4
    <3>1. 3 \in 1..n - 1  BY <2>4
    <3> QED  BY <1>1, <1>4, <2>4, <3>1 DEF Tables, FromKeystone
  <2> QED  BY <1>5, <2>1, <2>2, <2>3, <2>4
<1>8. Holds(s, P)
  <2>1. 1 \in 1..Len(s) /\ 2 \in 1..Len(s) /\ 3 \in 1..Len(s) /\ 4 \in 1..Len(s)  BY <1>1
  <2> QED  BY <1>1, <2>1 DEF Holds, Tables, FromKeystone
<1> QED  BY <1>6, <1>7, <1>8 DEF Piece, s

\* The parts of the setups that are their own.
SyncTables(who) == << << "db_sync", who >> >>
KeystoneOwn ==
  << <<"db_sync", "keystone">>, <<"bootstrap", "Default">>,
     <<"domain", "service">>, <<"project", "service">>, <<"role", "_member_">> >>
NeutronOwn == << <<"db_sync", "neutron">>, <<"connect", "neutron">> >>
NovaOwn == << <<"db_sync", "nova_api">>, <<"db_sync", "nova">> >>
HeatOwn ==
  << <<"service", "heat-cfn">>, <<"endpoints", "heat-cfn">>, <<"domain", "heat">>,
     <<"user", "heat_admin">>, <<"domain_role", "heat_admin">>,
     <<"role", "heat_stack_owner">>, <<"role", "heat_stack_user">>, <<"db_sync", "heat">> >>

\* The command that makes a service's tables.
LEMMA TablesPiece ==
  ASSUME NEW who \in Names
  PROVE  Piece(SyncTables(who), Tables(who), {})
<1> DEFINE s == SyncTables(who)
           G == Tables(who)
           P == {}
<1>1. /\ Len(s) = 1
      /\ s[1] = << "db_sync", who >>
  BY DEF SyncTables
<1>2. {<< "db_sync", who >>} \subseteq Calls
  BY DEF Calls, Kinds, Names
<1>3. s \in Seq(Calls)  BY <1>2 DEF SyncTables
<1>4. /\ RestsOn(<< "db_sync", who >>) = {<< "database", who >>, << "grant", who >>}
  BY DEF RestsOn
<1> HIDE DEF s
<1>5. \A n \in 1..Len(s) : n = 1  BY <1>1
<1>6. Plain(s)  BY <1>1, <1>3, <1>5 DEF Plain, GrantFollows
<1>7. Rests(s, G)  BY <1>1, <1>4, <1>5 DEF Rests, Tables
<1>8. Holds(s, P)
  <2>1. 1 \in 1..Len(s)  BY <1>1
  <2> QED  BY <1>1, <2>1 DEF Holds, Tables
<1> QED  BY <1>6, <1>7, <1>8 DEF Piece, s

\* keystone's own part.
LEMMA KeystonePiece ==
  Piece(KeystoneOwn, Tables("keystone"), FromKeystone)
<1> DEFINE s == KeystoneOwn
           G == Tables("keystone")
           P == FromKeystone
<1>1. /\ Len(s) = 5
      /\ s[1] = << "db_sync", "keystone" >>
      /\ s[2] = << "bootstrap", "Default" >>
      /\ s[3] = << "domain", "service" >>
      /\ s[4] = << "project", "service" >>
      /\ s[5] = << "role", "_member_" >>
  BY DEF KeystoneOwn
<1>2. {<< "db_sync", "keystone" >>, << "bootstrap", "Default" >>,
        << "domain", "service" >>, << "project", "service" >>, << "role", "_member_" >>} \subseteq Calls
  BY DEF Calls, Kinds, Names
<1>3. s \in Seq(Calls)  BY <1>2 DEF KeystoneOwn
<1>4. /\ RestsOn(<< "db_sync", "keystone" >>)
           = {<< "database", "keystone" >>, << "grant", "keystone" >>}
      /\ RestsOn(<< "bootstrap", "Default" >>) = {<< "db_sync", "keystone" >>}
      /\ RestsOn(<< "domain", "service" >>) = {<< "bootstrap", "Default" >>}
      /\ RestsOn(<< "project", "service" >>) = {<< "domain", "service" >>}
      /\ RestsOn(<< "role", "_member_" >>) = {<< "bootstrap", "Default" >>}
  BY DEF RestsOn, DomainOf
<1> HIDE DEF s
<1>5. \A n \in 1..Len(s) : n = 1 \/ n = 2 \/ n = 3 \/ n = 4 \/ n = 5  BY <1>1
<1>6. Plain(s)  BY <1>1, <1>3, <1>5 DEF Plain, GrantFollows
<1>7. Rests(s, G)
  <2> SUFFICES ASSUME NEW n \in 1..Len(s), NEW c \in RestsOn(s[n])
               PROVE  c \in G \/ \E k \in 1..n - 1 : s[k] = c
    BY DEF Rests
  <2>1. CASE n = 1  BY <1>1, <1>4, <2>1 DEF Tables, FromKeystone
  <2>2. CASE n = 2
    <3>1. 1 \in 1..n - 1  BY <2>2
    <3> QED  BY <1>1, <1>4, <2>2, <3>1 DEF Tables, FromKeystone
  <2>3. CASE n = 3
    <3>1. 2 \in 1..n - 1  BY <2>3
    <3> QED  BY <1>1, <1>4, <2>3, <3>1 DEF Tables, FromKeystone
  <2>4. CASE n = 4
    <3>1. 3 \in 1..n - 1  BY <2>4
    <3> QED  BY <1>1, <1>4, <2>4, <3>1 DEF Tables, FromKeystone
  <2>5. CASE n = 5
    <3>1. 2 \in 1..n - 1  BY <2>5
    <3> QED  BY <1>1, <1>4, <2>5, <3>1 DEF Tables, FromKeystone
  <2> QED  BY <1>5, <2>1, <2>2, <2>3, <2>4, <2>5
<1>8. Holds(s, P)
  <2>1. 1 \in 1..Len(s) /\ 2 \in 1..Len(s) /\ 3 \in 1..Len(s) /\ 4 \in 1..Len(s) /\ 5 \in 1..Len(s)
    BY <1>1
  <2> QED  BY <1>1, <2>1 DEF Holds, Tables, FromKeystone
<1> QED  BY <1>6, <1>7, <1>8 DEF Piece, s

\* nova's tables.
LEMMA NovaPiece ==
  Piece(NovaOwn, Tables("nova") \cup Tables("nova_api"), {})
<1> DEFINE s == NovaOwn
           G == Tables("nova") \cup Tables("nova_api")
           P == {}
<1>1. /\ Len(s) = 2
      /\ s[1] = << "db_sync", "nova_api" >>
      /\ s[2] = << "db_sync", "nova" >>
  BY DEF NovaOwn
<1>2. {<< "db_sync", "nova_api" >>, << "db_sync", "nova" >>} \subseteq Calls
  BY DEF Calls, Kinds, Names
<1>3. s \in Seq(Calls)  BY <1>2 DEF NovaOwn
<1>4. /\ RestsOn(<< "db_sync", "nova_api" >>)
           = {<< "database", "nova_api" >>, << "grant", "nova_api" >>}
      /\ RestsOn(<< "db_sync", "nova" >>) = {<< "database", "nova" >>, << "grant", "nova" >>}
  BY DEF RestsOn
<1> HIDE DEF s
<1>5. \A n \in 1..Len(s) : n = 1 \/ n = 2  BY <1>1
<1>6. Plain(s)  BY <1>1, <1>3, <1>5 DEF Plain, GrantFollows
<1>7. Rests(s, G)  BY <1>1, <1>4, <1>5 DEF Rests, Tables
<1>8. Holds(s, P)
  <2>1. 1 \in 1..Len(s) /\ 2 \in 1..Len(s)  BY <1>1
  <2> QED  BY <1>1, <2>1 DEF Holds, Tables
<1> QED  BY <1>6, <1>7, <1>8 DEF Piece, s

\* heat's second service, its stack domain and its roles.
LEMMA HeatPiece ==
  Piece(HeatOwn, Tables("heat") \cup FromKeystone, {})
<1> DEFINE s == HeatOwn
           G == Tables("heat") \cup FromKeystone
           P == {}
<1>1. /\ Len(s) = 8
      /\ s[1] = << "service", "heat-cfn" >>
      /\ s[2] = << "endpoints", "heat-cfn" >>
      /\ s[3] = << "domain", "heat" >>
      /\ s[4] = << "user", "heat_admin" >>
      /\ s[5] = << "domain_role", "heat_admin" >>
      /\ s[6] = << "role", "heat_stack_owner" >>
      /\ s[7] = << "role", "heat_stack_user" >>
      /\ s[8] = << "db_sync", "heat" >>
  BY DEF HeatOwn
<1>2. {<< "service", "heat-cfn" >>, << "endpoints", "heat-cfn" >>, << "domain", "heat" >>,
        << "user", "heat_admin" >>, << "domain_role", "heat_admin" >>,
        << "role", "heat_stack_owner" >>, << "role", "heat_stack_user" >>,
        << "db_sync", "heat" >>} \subseteq Calls
  BY DEF Calls, Kinds, Names
<1>3. s \in Seq(Calls)  BY <1>2 DEF HeatOwn
<1>4. /\ RestsOn(<< "service", "heat-cfn" >>) = {<< "bootstrap", "Default" >>}
      /\ RestsOn(<< "endpoints", "heat-cfn" >>) = {<< "service", "heat-cfn" >>}
      /\ RestsOn(<< "domain", "heat" >>) = {<< "bootstrap", "Default" >>}
      /\ RestsOn(<< "user", "heat_admin" >>) = {<< "domain", "heat" >>}
      /\ RestsOn(<< "domain_role", "heat_admin" >>) = {<< "user", "heat_admin" >>}
      /\ RestsOn(<< "role", "heat_stack_owner" >>) = {<< "bootstrap", "Default" >>}
      /\ RestsOn(<< "role", "heat_stack_user" >>) = {<< "bootstrap", "Default" >>}
      /\ RestsOn(<< "db_sync", "heat" >>) = {<< "database", "heat" >>, << "grant", "heat" >>}
  BY DEF RestsOn, DomainOf
<1> HIDE DEF s
<1>5. \A n \in 1..Len(s) : n = 1 \/ n = 2 \/ n = 3 \/ n = 4 \/ n = 5 \/ n = 6 \/ n = 7 \/ n = 8
  BY <1>1
<1>6. Plain(s)  BY <1>1, <1>3, <1>5 DEF Plain, GrantFollows
<1>7. Rests(s, G)
  <2> SUFFICES ASSUME NEW n \in 1..Len(s), NEW c \in RestsOn(s[n])
               PROVE  c \in G \/ \E k \in 1..n - 1 : s[k] = c
    BY DEF Rests
  <2>1. CASE n = 1  BY <1>1, <1>4, <2>1 DEF Tables, FromKeystone
  <2>2. CASE n = 2
    <3>1. 1 \in 1..n - 1  BY <2>2
    <3> QED  BY <1>1, <1>4, <2>2, <3>1 DEF Tables, FromKeystone
  <2>3. CASE n = 3  BY <1>1, <1>4, <2>3 DEF Tables, FromKeystone
  <2>4. CASE n = 4
    <3>1. 3 \in 1..n - 1  BY <2>4
    <3> QED  BY <1>1, <1>4, <2>4, <3>1 DEF Tables, FromKeystone
  <2>5. CASE n = 5
    <3>1. 4 \in 1..n - 1  BY <2>5
    <3> QED  BY <1>1, <1>4, <2>5, <3>1 DEF Tables, FromKeystone
  <2>6. CASE n = 6  BY <1>1, <1>4, <2>6 DEF Tables, FromKeystone
  <2>7. CASE n = 7  BY <1>1, <1>4, <2>7 DEF Tables, FromKeystone
  <2>8. CASE n = 8  BY <1>1, <1>4, <2>8 DEF Tables, FromKeystone
  <2> QED  BY <1>5, <2>1, <2>2, <2>3, <2>4, <2>5, <2>6, <2>7, <2>8
<1>8. Holds(s, P)
  <2>1. 1 \in 1..Len(s) /\ 2 \in 1..Len(s) /\ 3 \in 1..Len(s) /\ 4 \in 1..Len(s)
        /\ 5 \in 1..Len(s) /\ 6 \in 1..Len(s) /\ 7 \in 1..Len(s) /\ 8 \in 1..Len(s)
    BY <1>1
  <2> QED  BY <1>1, <2>1 DEF Holds, Tables, FromKeystone
<1> QED  BY <1>6, <1>7, <1>8 DEF Piece, s

\* rabbitmq's virtual host.
LEMMA RabbitmqPiece ==
  Piece(<< <<"vhost", "openstack">> >>, {}, FromRabbitmq)
<1> DEFINE s == << <<"vhost", "openstack">> >>
           G == {}
           P == FromRabbitmq
<1>1. /\ Len(s) = 1
      /\ s[1] = << "vhost", "openstack" >>
  OBVIOUS
<1>2. {<< "vhost", "openstack" >>} \subseteq Calls
  BY DEF Calls, Kinds, Names
<1>3. s \in Seq(Calls)  BY <1>2
<1>4. /\ RestsOn(<< "vhost", "openstack" >>) = {}
  BY DEF RestsOn
<1> HIDE DEF s
<1>5. \A n \in 1..Len(s) : n = 1  BY <1>1
<1>6. Plain(s)  BY <1>1, <1>3, <1>5 DEF Plain, GrantFollows
<1>7. Rests(s, G)  BY <1>1, <1>4, <1>5 DEF Rests, FromRabbitmq
<1>8. Holds(s, P)
  <2>1. 1 \in 1..Len(s)  BY <1>1
  <2> QED  BY <1>1, <2>1 DEF Holds, FromRabbitmq
<1> QED  BY <1>6, <1>7, <1>8 DEF Piece, s

\* Every setup is a sequence of calls in which grants follow users, and endpoints
\* precede the connection that needs them.
Good(s) == s \in Seq(Calls) /\ GrantFollows(s) /\ EndpointsFirst(s)

\* A plain sequence is one.
LEMMA PlainGood == \A s : Plain(s) => Good(s)
  BY DEF Plain, Good, EndpointsFirst

\* The accounts of a service that uses both mysql and rabbitmq.
LEMMA ServicePiece ==
  ASSUME NEW who \in Names, who # "heat_admin"
  PROVE  Piece((MysqlService(who) \o BrokerService(who)) \o ServiceAccount(who),
               FromKeystone \cup FromRabbitmq, Tables(who))
<1> DEFINE m == MysqlService(who)
           b == BrokerService(who)
           a == ServiceAccount(who)
           G == FromKeystone \cup FromRabbitmq
           P == Tables(who)
<1>1. Piece(m, {}, P) /\ Piece(b, FromRabbitmq, {}) /\ Piece(a, FromKeystone, {})
  BY MysqlPiece, BrokerPiece, AccountPiece
<1> HIDE DEF m, b, a, P
<1>2. Piece(m \o b, FromRabbitmq, P \cup {})  BY <1>1, PieceConcat
<1>3. FromRabbitmq \subseteq G /\ FromKeystone \subseteq G \cup (P \cup {})  OBVIOUS
<1>4. Piece((m \o b) \o a, G, (P \cup {}) \cup {})
  <2> HIDE DEF G
  <2> QED  BY <1>1, <1>2, <1>3, PieceConcat
<1>5. (P \cup {}) \cup {} = P  OBVIOUS
<1> QED  BY <1>4, <1>5 DEF m, b, a, P

\* neutron connects at its end, and rests on what the others do.
LEMMA NeutronGood ==
  Good(NeutronSetup) /\ Rests(NeutronSetup, FromKeystone \cup FromRabbitmq)
<1> DEFINE c == MysqlService("neutron") \o BrokerService("neutron")
           a == ServiceAccount("neutron")
           p == c \o a
           t == NeutronOwn
           r == p \o t
           G == FromKeystone \cup FromRabbitmq
<1>1. NeutronSetup = r  BY DEF NeutronSetup, NeutronOwn
<1>2. "neutron" \in Names  BY DEF Names
<1>3. Piece(p, G, Tables("neutron"))
  BY <1>2, ServicePiece
<1>4. c \in Seq(Calls)
  BY <1>2, MysqlPiece, BrokerPiece, ConcatProperties DEF Piece, Plain
<1>5. a \in Seq(Calls) /\ Len(a) = 4 /\ a[4] = << "endpoints", "neutron" >>
  BY <1>2, AccountPiece DEF ServiceAccount, Piece, Plain
<1>6. /\ t \in Seq(Calls) /\ Len(t) = 2
      /\ t[1] = << "db_sync", "neutron" >> /\ t[2] = << "connect", "neutron" >>
  <2>1. {<< "db_sync", "neutron" >>, << "connect", "neutron" >>} \subseteq Calls
    BY DEF Calls, Kinds, Names
  <2> QED  BY <2>1 DEF NeutronOwn
<1>7. RestsOn(t[1]) = Tables("neutron") /\ RestsOn(t[2]) = {}  BY <1>6 DEF RestsOn, Tables
<1> HIDE DEF c, a, t
<1>8. /\ Len(p) \in Nat /\ Len(p) \in 1..Len(p) /\ p[Len(p)] = << "endpoints", "neutron" >>
  <2>1. /\ Len(c) \in Nat /\ Len(c \o a) = Len(c) + Len(a)
        /\ \A n \in 1..Len(a) : Len(c) + n \in 1..Len(c \o a) /\ (c \o a)[Len(c) + n] = a[n]
    BY <1>4, <1>5, ConcatAt
  <2>2. p = c \o a  OBVIOUS
  <2> HIDE DEF p
  <2>3. Len(p) = Len(c) + 4 /\ 4 \in 1..Len(a)  BY <1>5, <2>1, <2>2
  <2> QED  BY <1>5, <2>1, <2>2, <2>3
<1> HIDE DEF p
<1>9. /\ p \in Seq(Calls) /\ Plain(p) /\ Rests(p, G) /\ Holds(p, Tables("neutron"))
  BY <1>3 DEF Piece, Plain
<1>10. r \in Seq(Calls)  BY <1>6, <1>9, ConcatProperties
<1>11. /\ Len(r) = Len(p) + 2
       /\ \A n \in 1..Len(p) : n \in 1..Len(r) /\ r[n] = p[n]
       /\ \A n \in 1..2 : r[Len(p) + n] = t[n]
  <2>1. /\ Len(p \o t) = Len(p) + Len(t)
        /\ \A n \in 1..Len(p) : n \in 1..Len(p \o t) /\ (p \o t)[n] = p[n]
        /\ \A n \in 1..Len(t) : Len(p) + n \in 1..Len(p \o t) /\ (p \o t)[Len(p) + n] = t[n]
    BY <1>6, <1>9, ConcatAt
  <2>2. r = p \o t  OBVIOUS
  <2> HIDE DEF r
  <2> QED  BY <1>6, <2>1, <2>2
<1> HIDE DEF r
<1>12. r[Len(p) + 1] = t[1] /\ r[Len(p) + 2] = t[2]  BY <1>11
<1>13. \A n \in 1..Len(r) : n \in 1..Len(p) \/ n = Len(p) + 1 \/ n = Len(p) + 2  BY <1>8, <1>11
<1>14. GrantFollows(r)
  BY <1>6, <1>8, <1>9, <1>11, <1>12, <1>13 DEF GrantFollows, Plain
<1>15. EndpointsFirst(r)
  <2> SUFFICES ASSUME NEW n \in 1..Len(r), r[n][1] = "connect"
               PROVE  \E k \in 1..n - 1 : r[k] = << "endpoints", r[n][2] >>
    BY DEF EndpointsFirst
  <2>1. n = Len(p) + 2  BY <1>6, <1>9, <1>11, <1>12, <1>13 DEF Plain
  <2>2. Len(p) \in 1..n - 1  BY <1>8, <2>1
  <2>3. r[n][2] = "neutron" /\ r[Len(p)] = << "endpoints", "neutron" >>
    BY <1>6, <1>8, <1>11, <1>12, <2>1
  <2> QED  BY <2>2, <2>3
<1>16. Rests(r, G)
  <2> SUFFICES ASSUME NEW n \in 1..Len(r), NEW x \in RestsOn(r[n])
               PROVE  x \in G \/ \E k \in 1..n - 1 : r[k] = x
    BY DEF Rests
  <2>1. CASE n \in 1..Len(p)
    <3>1. x \in G \/ \E k \in 1..n - 1 : p[k] = x  BY <1>9, <1>11, <2>1 DEF Rests
    <3>2. \A k \in 1..n - 1 : k \in 1..Len(p)  BY <1>8, <2>1
    <3> QED  BY <1>11, <3>1, <3>2
  <2>2. CASE n = Len(p) + 1
    <3>1. PICK k \in 1..Len(p) : p[k] = x  BY <1>7, <1>9, <1>12, <2>2 DEF Holds
    <3>2. k \in 1..n - 1 /\ r[k] = x  BY <1>8, <1>11, <2>2, <3>1
    <3> QED  BY <3>2
  <2>3. CASE n = Len(p) + 2  BY <1>7, <1>12, <2>3
  <2> QED  BY <1>13, <2>1, <2>2, <2>3
<1>17. Good(r)  BY <1>10, <1>14, <1>15 DEF Good
<1> QED  BY <1>1, <1>16, <1>17

\* nova has three databases.
LEMMA NovaGood == \E P : Piece(NovaSetup, FromKeystone \cup FromRabbitmq, P)
<1> DEFINE m1 == MysqlService("nova")
           m2 == MysqlService("nova_api")
           m3 == MysqlService("nova_cell0")
           b  == BrokerService("nova")
           a  == ServiceAccount("nova")
           t  == NovaOwn
           G  == FromKeystone \cup FromRabbitmq
           P1 == Tables("nova")
           P2 == Tables("nova_api")
           P3 == Tables("nova_cell0")
<1>1. {"nova", "nova_api", "nova_cell0"} \subseteq Names  BY DEF Names
<1>2. NovaSetup = ((((m1 \o m2) \o m3) \o b) \o a) \o t  BY DEF NovaSetup, NovaOwn
<1>3. Piece(m1, {}, P1) /\ Piece(m2, {}, P2) /\ Piece(m3, {}, P3)  BY <1>1, MysqlPiece
<1>4. Piece(b, FromRabbitmq, {}) /\ Piece(a, FromKeystone, {}) /\ Piece(t, P1 \cup P2, {})
  BY <1>1, BrokerPiece, AccountPiece, NovaPiece
<1> HIDE DEF m1, m2, m3, b, a, t, P1, P2, P3
<1>5. Piece(m1 \o m2, {}, P1 \cup P2)  BY <1>3, PieceConcat
<1> DEFINE s2 == m1 \o m2
           Q2 == P1 \cup P2
<1>6. Piece(s2 \o m3, {}, Q2 \cup P3)
  <2> HIDE DEF s2, Q2
  <2>1. Piece(s2, {}, Q2)  BY <1>5 DEF s2, Q2
  <2> QED  BY <1>3, <2>1, PieceConcat
<1> DEFINE s3 == s2 \o m3
           Q3 == Q2 \cup P3
<1>7. Piece(s3 \o b, FromRabbitmq, Q3 \cup {})
  <2> HIDE DEF s3, Q3
  <2>1. Piece(s3, {}, Q3)  BY <1>6 DEF s3, Q3
  <2> QED  BY <1>4, <2>1, PieceConcat
<1> DEFINE s4 == s3 \o b
           Q4 == Q3 \cup {}
<1>8. Piece(s4 \o a, G, Q4 \cup {})
  <2>0. FromRabbitmq \subseteq G /\ FromKeystone \subseteq G \cup Q4  OBVIOUS
  <2> HIDE DEF s4, Q4, G
  <2>1. Piece(s4, FromRabbitmq, Q4)  BY <1>7 DEF s4, Q4
  <2> QED  BY <1>4, <2>0, <2>1, PieceConcat
<1> DEFINE s5 == s4 \o a
           Q5 == Q4 \cup {}
<1>9. Piece(s5 \o t, G, Q5 \cup {})
  <2>0. Q2 \subseteq G \cup Q5  OBVIOUS
  <2>1. Piece(s5, G, Q5) /\ Piece(t, Q2, {})  BY <1>4, <1>8 DEF s5, Q5, Q2
  <2> HIDE DEF s5, Q5, G, Q2
  <2> QED  BY <2>0, <2>1, PieceConcat
<1> QED  BY <1>2, <1>9 DEF s5, s4, s3, s2

\* The other services.
LEMMA ServicesGood ==
  /\ \E P : Piece(GlanceSetup, FromKeystone, P)
  /\ \E P : Piece(PlacementSetup, FromKeystone, P)
  /\ \E P : Piece(CinderSetup, FromKeystone \cup FromRabbitmq, P)
  /\ \E P : Piece(HeatSetup, FromKeystone \cup FromRabbitmq, P)
<1>1. {"glance", "placement", "cinder", "heat"} \subseteq Names  BY DEF Names
<1>2. ASSUME NEW who \in {"glance", "placement"}
      PROVE  \E P : Piece((MysqlService(who) \o ServiceAccount(who)) \o SyncTables(who), FromKeystone, P)
  <2> DEFINE m == MysqlService(who)
             a == ServiceAccount(who)
             t == SyncTables(who)
             T == Tables(who)
  <2>1. Piece(m, {}, T) /\ Piece(a, FromKeystone, {}) /\ Piece(t, T, {})
    BY <1>1, MysqlPiece, AccountPiece, TablesPiece
  <2> HIDE DEF m, a, t, T
  <2>2. Piece(m \o a, FromKeystone, T \cup {})  BY <2>1, PieceConcat
  <2>3. T \subseteq FromKeystone \cup (T \cup {})  OBVIOUS
  <2>4. Piece((m \o a) \o t, FromKeystone, (T \cup {}) \cup {})  BY <2>1, <2>2, <2>3, PieceConcat
  <2> QED  BY <2>4 DEF m, a, t
<1>3. ASSUME NEW who \in {"cinder", "heat"}, NEW t, NEW H, Piece(t, H, {}),
             H \subseteq Tables(who) \cup FromKeystone
      PROVE  \E P : Piece(((MysqlService(who) \o BrokerService(who)) \o ServiceAccount(who)) \o t,
                          FromKeystone \cup FromRabbitmq, P)
  <2> DEFINE s == (MysqlService(who) \o BrokerService(who)) \o ServiceAccount(who)
             G == FromKeystone \cup FromRabbitmq
             T == Tables(who)
  <2>1. Piece(s, G, T)  BY <1>1, ServicePiece
  <2>2. H \subseteq G \cup T  BY <1>3
  <2> HIDE DEF s, G, T
  <2>3. Piece(s \o t, G, T \cup {})  BY <1>3, <2>1, <2>2, PieceConcat
  <2> QED  BY <2>3 DEF s, G
<1>4. Piece(SyncTables("cinder"), Tables("cinder"), {})  BY <1>1, TablesPiece
<1>5. Piece(HeatOwn, Tables("heat") \cup FromKeystone, {})  BY HeatPiece
<1>6. /\ GlanceSetup = (MysqlService("glance") \o ServiceAccount("glance")) \o SyncTables("glance")
      /\ PlacementSetup =
           (MysqlService("placement") \o ServiceAccount("placement")) \o SyncTables("placement")
      /\ CinderSetup = ((MysqlService("cinder") \o BrokerService("cinder")) \o ServiceAccount("cinder"))
                         \o SyncTables("cinder")
      /\ HeatSetup = ((MysqlService("heat") \o BrokerService("heat")) \o ServiceAccount("heat"))
                       \o HeatOwn
  BY DEF GlanceSetup, PlacementSetup, CinderSetup, HeatSetup, SyncTables, HeatOwn
<1> QED  BY <1>2, <1>3, <1>4, <1>5, <1>6

\* keystone's own setup makes what the others need of it.
LEMMA KeystoneGood == Piece(KeystoneSetup, {}, FromKeystone \cup Tables("keystone"))
<1> DEFINE m == MysqlService("keystone")
           t == KeystoneOwn
           T == Tables("keystone")
<1>1. KeystoneSetup = m \o t  BY DEF KeystoneSetup, KeystoneOwn
<1>2. Piece(m, {}, T) /\ Piece(t, T, FromKeystone)
  <2>1. "keystone" \in Names  BY DEF Names
  <2> QED  BY <2>1, MysqlPiece, KeystonePiece
<1> HIDE DEF m, t, T
<1>3. T \subseteq {} \cup T  OBVIOUS
<1>4. Piece(m \o t, {}, T \cup FromKeystone)  BY <1>2, <1>3, PieceConcat
<1>5. T \cup FromKeystone = FromKeystone \cup T  OBVIOUS
<1> QED  BY <1>1, <1>4, <1>5 DEF T

\* What the setups before it have left for a service's.
Given(s) ==
  (IF "keystone" \in DependenciesOf(s) THEN FromKeystone ELSE {})
    \cup (IF "rabbitmq" \in DependenciesOf(s) THEN FromRabbitmq ELSE {})

\* All of them: each is good, and rests on what the modules it depends on have made.
LEMMA SetupsGood ==
  /\ DOMAIN Setup = {"mysql", "rabbitmq", "keystone", "glance", "placement", "cinder", "neutron",
                     "nova", "heat"}
  /\ \A s \in DOMAIN Setup : Good(Setup[s]) /\ Rests(Setup[s], Given(s))
  /\ Holds(Setup["keystone"], FromKeystone) /\ Holds(Setup["rabbitmq"], FromRabbitmq)
<1>1. /\ Setup["mysql"] = << >> /\ Setup["rabbitmq"] = << <<"vhost", "openstack">> >>
      /\ Setup["keystone"] = KeystoneSetup /\ Setup["glance"] = GlanceSetup
      /\ Setup["placement"] = PlacementSetup /\ Setup["cinder"] = CinderSetup
      /\ Setup["neutron"] = NeutronSetup /\ Setup["nova"] = NovaSetup /\ Setup["heat"] = HeatSetup
      /\ DOMAIN Setup = {"mysql", "rabbitmq", "keystone", "glance", "placement", "cinder", "neutron",
                         "nova", "heat"}
  BY DEF Setup
<1>2. \A s, F, P : Piece(s, F, P) => Good(s) /\ Rests(s, F) /\ Holds(s, P)  BY PlainGood DEF Piece
<1>3. Good(Setup["mysql"]) /\ \A F : Rests(Setup["mysql"], F)
  <2>1. << >> \in Seq(Calls) /\ Len(<< >>) = 0  OBVIOUS
  <2>2. \A n \in 1..Len(<< >>) : FALSE  BY <2>1
  <2>3. Plain(<< >>) /\ \A F : Rests(<< >>, F)  BY <2>1, <2>2 DEF Plain, GrantFollows, Rests
  <2> QED  BY <1>1, <2>3, PlainGood
<1>4. \A F, s : Rests(s, {}) => Rests(s, F)  BY DEF Rests
<1>5. /\ Good(Setup["rabbitmq"]) /\ Holds(Setup["rabbitmq"], FromRabbitmq)
      /\ \A F : Rests(Setup["rabbitmq"], F)
  BY <1>1, <1>2, <1>4, RabbitmqPiece
<1>6. /\ Good(Setup["keystone"]) /\ \A F : Rests(Setup["keystone"], F)
      /\ Holds(Setup["keystone"], FromKeystone)
  <2>1. /\ Good(KeystoneSetup) /\ Rests(KeystoneSetup, {})
        /\ Holds(KeystoneSetup, FromKeystone \cup Tables("keystone"))
    BY <1>2, KeystoneGood
  <2> QED  BY <1>1, <1>4, <2>1 DEF Holds
<1>7. \A s \in {"glance", "placement"} : Good(Setup[s]) /\ Rests(Setup[s], FromKeystone)
  BY <1>1, <1>2, ServicesGood
<1>8. \A s \in {"cinder", "neutron", "nova", "heat"} :
        Good(Setup[s]) /\ Rests(Setup[s], FromKeystone \cup FromRabbitmq)
  <2>1. \A s \in {"cinder", "heat"} : Good(Setup[s]) /\ Rests(Setup[s], FromKeystone \cup FromRabbitmq)
    BY <1>1, <1>2, ServicesGood
  <2>2. Good(Setup["nova"]) /\ Rests(Setup["nova"], FromKeystone \cup FromRabbitmq)
    BY <1>1, <1>2, NovaGood
  <2> QED  BY <1>1, <2>1, <2>2, NeutronGood
<1>9. ASSUME NEW s
      PROVE  /\ s \in {"glance", "placement"} => FromKeystone \subseteq Given(s)
             /\ s \in {"cinder", "neutron", "nova", "heat"} =>
                  FromKeystone \cup FromRabbitmq \subseteq Given(s)
  BY DEF Given, DependenciesOf, GlanceDeps, PlacementDeps, CinderDeps, NeutronDeps, NovaDeps,
       HeatDeps,
         Leaves
<1>10. \A s, F, G : F \subseteq G /\ Rests(s, F) => Rests(s, G)  BY DEF Rests
<1>11. \A s \in {"glance", "placement", "cinder", "neutron", "nova", "heat"} :
         Good(Setup[s]) /\ Rests(Setup[s], Given(s))
  BY <1>7, <1>8, <1>9, <1>10
<1> QED  BY <1>1, <1>3, <1>5, <1>6, <1>11

--------------------------------------------------------------------------------
(***************************************************************************)
(* Statements.                                                              *)
(***************************************************************************)

\* A call's statements are of its kind.
LEMMA StatementKind ==
  \A call : \A n \in DOMAIN Statements(call) : Statements(call)[n][1] = call[1]
  BY DEF Statements

\* What each of them makes.
LEMMA StatementForms ==
  ASSUME NEW call
  PROVE  /\ call[1] \in {"db_user", "grant"} =>
              /\ DOMAIN Statements(call) = 1..2
              /\ \A n \in 1..2 : Statements(call)[n] = << call[1], call[2], Hosts[n] >>
         /\ call[1] = "endpoints" =>
              /\ DOMAIN Statements(call) = 1..3
              /\ \A n \in 1..3 : Statements(call)[n] = << call[1], call[2], Interfaces[n] >>
         /\ call[1] = "connect" => DOMAIN Statements(call) = {}
         /\ call[1] \notin {"db_user", "grant", "endpoints", "connect"} =>
              DOMAIN Statements(call) = {1} /\ Statements(call)[1] = call
  BY DEF Statements, Hosts, Interfaces

\* No call makes the same thing twice.
LEMMA StatementsDiffer ==
  ASSUME NEW call,
         NEW m \in DOMAIN Statements(call), NEW n \in DOMAIN Statements(call), m # n
  PROVE  Statements(call)[m] # Statements(call)[n]
<1>1. CASE call[1] \notin {"db_user", "grant", "endpoints"}  BY <1>1, StatementForms
<1>3. CASE call[1] \in {"db_user", "grant"}
  <2>1. m \in 1..2 /\ n \in 1..2  BY <1>3, StatementForms
  <2>2. Hosts[m] # Hosts[n]  BY <2>1 DEF Hosts
  <2>3. /\ Statements(call)[m] = << call[1], call[2], Hosts[m] >>
        /\ Statements(call)[n] = << call[1], call[2], Hosts[n] >>
    BY <1>3, <2>1, StatementForms
  <2> QED  BY <2>2, <2>3
<1>2. CASE call[1] = "endpoints"
  <2>1. m \in 1..3 /\ n \in 1..3  BY <1>2, StatementForms
  <2>2. Interfaces[m] # Interfaces[n]  BY <2>1 DEF Interfaces
  <2>3. /\ Statements(call)[m] = << call[1], call[2], Interfaces[m] >>
        /\ Statements(call)[n] = << call[1], call[2], Interfaces[n] >>
    BY <1>2, <2>1, StatementForms
  <2> QED  BY <2>2, <2>3
<1> QED  BY <1>1, <1>2, <1>3

--------------------------------------------------------------------------------
(***************************************************************************)
(* The inductive invariant.                                                 *)
(***************************************************************************)

\* Where the process is.  A function has something to make only after its look.
PlaceInv ==
  /\ plan \in Plans /\ at \in 0..Len(plan)
  /\ step \in 1..(IF at = 0 THEN 1 ELSE Len(Setup[service]) + 1)
  /\ todo \subseteq DOMAIN Statements(Call)
  /\ looked => at > 0 /\ step <= Len(Setup[service])
  /\ ~looked => todo = {}

\* What there is.
ContentInv ==
  /\ made \subseteq AllMade /\ doubled \subseteq made
  /\ catalog = NoCatalog \/ catalog \subseteq {it[2] : it \in AllMade}
  /\ marks \subseteq DOMAIN Setup

Whole(call) == \A n \in DOMAIN Statements(call) : Statements(call)[n] \in made

\* A call that is behind has made what it promises, but for mysql's users, which
\* the grants behind them vouch for.
Behind(call) ==
  /\ call[1] # "db_user" => Whole(call)
  /\ call[1] = "grant" => Whole(<< "db_user", call[2] >>)

\* The same for the statements of the call that is being worked on.
Done(n) ==
  /\ Call[1] # "db_user" => Statements(Call)[n] \in made
  /\ Call[1] = "grant" => Statements(<< "db_user", Call[2] >>)[n] \in made

WorkInv ==
  /\ at > 0 => \A n \in 1..step - 1 : Behind(Setup[service][n])
  /\ looked => \A n \in DOMAIN Statements(Call) \ todo : Done(n)
  /\ \A s \in marks : \A n \in 1..Len(Setup[s]) : Whole(Setup[s][n])

\* Nothing is about to be made again, but what can be.
OnceInv ==
  /\ RegisteredOnce
  /\ Call[1] \notin Repeatable => \A n \in todo : Statements(Call)[n] \notin made

\* An open connection knows all there is, but while its catalog goes out of date.
CatalogInv ==
  \/ catalog = NoCatalog
  \/ looked /\ Call[1] = "endpoints"
  \/ \A x : << "endpoints", x, "public" >> \in made => x \in catalog

IInv ==
  /\ PlaceInv /\ looked \in BOOLEAN /\ ContentInv
  /\ WorkInv /\ OnceInv /\ CatalogInv

--------------------------------------------------------------------------------
\* A call in the middle of a setup is one of its calls.
LEMMA InSetup ==
  ASSUME PlaceInv, at > 0
  PROVE  /\ service \in DOMAIN Setup /\ Good(Setup[service]) /\ Len(Setup[service]) \in Nat
         /\ step \in 1..Len(Setup[service]) + 1
         /\ step <= Len(Setup[service]) =>
              /\ step \in 1..Len(Setup[service])
              /\ Call = Setup[service][step] /\ Call \in Calls
<1>1. plan \in Seq(DOMAIN Setup) /\ at \in 1..Len(plan)
  BY PlansAssumption DEF PlaceInv
<1>2. service \in DOMAIN Setup  BY <1>1 DEF service
<1>3. Good(Setup[service]) /\ Setup[service] \in Seq(Calls)  BY <1>2, SetupsGood DEF Good
<1>4. Len(Setup[service]) \in Nat /\ step \in 1..Len(Setup[service]) + 1
  BY <1>3, LenProperties DEF PlaceInv
<1>5. ASSUME step <= Len(Setup[service])
      PROVE  step \in 1..Len(Setup[service]) /\ Call = Setup[service][step] /\ Call \in Calls
  <2>1. step \in 1..Len(Setup[service])  BY <1>4, <1>5
  <2>2. Call = Setup[service][step]  BY <1>5 DEF Call
  <2> QED  BY <1>3, <2>1, <2>2
<1> QED  BY <1>2, <1>3, <1>4, <1>5

\* Where something is called, a setup is under way.
LEMMA Calling ==
  ASSUME PlaceInv, Call[1] # "none"
  PROVE  at > 0 /\ step <= Len(Setup[service])
  BY DEF Call

\* Whoever stays in place calls the same.
LEMMA SameCall ==
  ASSUME UNCHANGED << plan, at, step >>
  PROVE  Call' = Call /\ service' = service
  BY DEF Call, service

\* What the functions' looks have in common.
Looks ==
  /\ ~looked /\ looked' = TRUE
  /\ UNCHANGED << plan, at, step, made, doubled, marks >>
  /\ Call[1] \notin {"none", "connect"}
  /\ todo' \subseteq DOMAIN Statements(Call)
  /\ Call[1] # "db_user" =>
       \A n \in DOMAIN Statements(Call) \ todo' : Statements(Call)[n] \in made
  /\ Call[1] = "grant" => todo' = DOMAIN Statements(Call)
  /\ Call[1] \notin Repeatable => \A n \in todo' : Statements(Call)[n] \notin made
  /\ Call[1] = "db_user" => todo' = IF FoundUser(Call[2]) THEN {} ELSE DOMAIN Statements(Call)
  /\ catalog' = catalog \/ catalog' = Opened

\* The steps that are one.
LEMMA Looking ==
  ASSUME \/ EnsureDatabase \/ EnsureDbUser \/ GrantUser
         \/ EnsureVhost \/ EnsureBroker \/ EnsurePermissions \/ DbSync \/ BootstrapKeystone
         \/ EnsureDomain \/ EnsureProject \/ EnsureRole \/ EnsureUser
         \/ EnsureAdmin \/ GrantDomainRole \/ EnsureService \/ ListEndpoints
  PROVE  Looks
<1> USE DEF Look, Looks, Missing, Repeatable
<1>1. CASE EnsureDatabase  BY <1>1 DEF EnsureDatabase
<1>2. CASE EnsureDbUser
  <2>1. Call[1] = "db_user" /\ todo' = IF FoundUser(Call[2]) THEN {} ELSE DOMAIN Statements(Call)
    BY <1>2 DEF EnsureDbUser, name
  <2>2. \A n \in todo' : Statements(Call)[n] \notin made
    BY <2>1, StatementForms DEF FoundUser, Hosts
  <2> QED  BY <1>2, <2>1, <2>2 DEF EnsureDbUser
<1>3. CASE GrantUser  BY <1>3 DEF GrantUser
<1>4. CASE EnsureVhost  BY <1>4 DEF EnsureVhost
<1>5. CASE EnsureBroker  BY <1>5 DEF EnsureBroker
<1>6. CASE EnsurePermissions  BY <1>6 DEF EnsurePermissions
<1>7. CASE DbSync  BY <1>7 DEF DbSync
<1>8. CASE BootstrapKeystone  BY <1>8 DEF BootstrapKeystone
<1>9. CASE EnsureDomain  BY <1>9 DEF EnsureDomain, LookOver
<1>10. CASE EnsureProject  BY <1>10 DEF EnsureProject, LookOver
<1>11. CASE EnsureRole  BY <1>11 DEF EnsureRole, LookOver
<1>12. CASE EnsureUser  BY <1>12 DEF EnsureUser, LookOver
<1>13. CASE EnsureAdmin  BY <1>13 DEF EnsureAdmin, LookOver
<1>14. CASE GrantDomainRole  BY <1>14 DEF GrantDomainRole, LookOver
<1>15. CASE EnsureService  BY <1>15 DEF EnsureService, LookOver
<1>16. CASE ListEndpoints  BY <1>16 DEF ListEndpoints, LookOver
<1> QED
  BY <1>1, <1>2, <1>3, <1>4, <1>5, <1>6, <1>7, <1>8, <1>9, <1>10, <1>11, <1>12, <1>13, <1>14,
       <1>15, <1>16

\* Every step is one of these.
LEMMA Steps ==
  ASSUME [Next]_vars
  PROVE  \/ Start \/ Stop \/ Looks \/ Make \/ ReturnToSetup \/ ClearConnection
         \/ Connect \/ Mark \/ UNCHANGED vars
  BY Looking DEF Next

--------------------------------------------------------------------------------
(***************************************************************************)
(* Each part is kept by every step.                                         *)
(***************************************************************************)

\* The process is in a place again.
LEMMA PlaceStep ==
  ASSUME PlaceInv, [Next]_vars
  PROVE  PlaceInv'
<1>1. CASE Start
  <2>1. plan' \in Seq(DOMAIN Setup) /\ plan' # << >>  BY <1>1, PlansAssumption DEF Start
  <2>2. Len(plan') \in Nat /\ at' \in 1..Len(plan') /\ plan'[at'] \in DOMAIN Setup
    BY <1>1, <2>1, LenProperties DEF Start
  <2>3. Len(Setup[plan'[at']]) \in Nat  BY <2>2, SetupsGood, LenProperties DEF Good
  <2>4. step = 1 /\ ~looked /\ todo = {}  BY <1>1 DEF Start, PlaceInv
  <2> QED  BY <1>1, <2>2, <2>3, <2>4 DEF Start, PlaceInv, service
<1>2. CASE Stop
  <2>1. plan' \in Plans /\ Len(plan') \in Nat
    BY <1>2, PlansAssumption, LenProperties DEF Stop, PlaceInv
  <2> QED  BY <1>2, <2>1 DEF Stop, PlaceInv
<1>3. CASE Looks
  <2>1. at > 0 /\ step <= Len(Setup[service])  BY <1>3, Calling DEF Looks
  <2> QED  BY <1>3, <2>1, SameCall DEF Looks, PlaceInv
<1>4. CASE Make
  <2>1. todo' \subseteq todo /\ looked  BY <1>4 DEF Make, PlaceInv
  <2> QED  BY <1>4, <2>1, SameCall DEF Make, PlaceInv
<1>5. CASE ReturnToSetup \/ ClearConnection \/ Connect
  <2>1. at > 0 /\ step <= Len(Setup[service]) /\ todo = {}
    <3>1. CASE Connect
      <4>1. at > 0 /\ step <= Len(Setup[service])  BY <3>1, Calling DEF Connect
      <4>2. todo = {}  BY <3>1, StatementForms DEF Connect, PlaceInv
      <4> QED  BY <4>1, <4>2
    <3> QED  BY <1>5, <3>1 DEF ReturnToSetup, ClearConnection, PlaceInv
  <2>2. step \in 1..Len(Setup[service]) /\ Len(Setup[service]) \in Nat  BY <2>1, InSetup
  <2>3. step' = step + 1 /\ looked' = FALSE /\ UNCHANGED << plan, at, todo >>
    BY <1>5 DEF ReturnToSetup, ClearConnection, Connect, Return
  <2>4. service' = service  BY <2>3 DEF service
  <2>5. step' \in 1..Len(Setup[service]) + 1  BY <2>2, <2>3
  <2> QED  BY <2>1, <2>3, <2>4, <2>5 DEF PlaceInv
<1>6. CASE Mark
  <2>1. plan \in Seq(DOMAIN Setup) /\ Len(plan) \in Nat /\ at \in 1..Len(plan)
    BY <1>6, PlansAssumption, LenProperties DEF Mark, PlaceInv
  <2>2. ~looked /\ todo = {}
    <3>1. step \in 1..Len(Setup[service]) + 1 /\ Len(Setup[service]) \in Nat
      BY <1>6, InSetup DEF Mark
    <3> QED  BY <1>6, <3>1 DEF Mark, PlaceInv
  <2>3. /\ plan' = plan /\ step' = 1 /\ looked' = looked /\ todo' = todo
        /\ at' = (IF at < Len(plan) THEN at + 1 ELSE 0)
    BY <1>6 DEF Mark
  <2>4. at' \in 0..Len(plan) /\ (at' > 0 => at' \in 1..Len(plan))  BY <2>1, <2>3
  <2>5. at' > 0 => Len(Setup[plan[at']]) \in Nat
    BY <2>1, <2>4, SetupsGood, LenProperties DEF Good
  <2>6. step' \in 1..(IF at' = 0 THEN 1 ELSE Len(Setup[service']) + 1)
    BY <2>3, <2>4, <2>5 DEF service
  <2> QED  BY <2>2, <2>3, <2>4, <2>6 DEF PlaceInv
<1>7. CASE UNCHANGED vars
  <2>1. UNCHANGED << plan, at, step, looked, todo >>  BY <1>7 DEF vars
  <2> QED  BY <2>1, SameCall DEF PlaceInv
<1> QED  BY <1>1, <1>2, <1>3, <1>4, <1>5, <1>6, <1>7, Steps

\* looked is a truth value.
LEMMA LookedStep ==
  ASSUME looked \in BOOLEAN, [Next]_vars
  PROVE  looked' \in BOOLEAN
<1>1. ASSUME looked' = looked \/ looked' = TRUE \/ looked' = FALSE PROVE looked' \in BOOLEAN
  BY <1>1, Zenon
<1> QED
  BY <1>1, Steps DEF Start, Stop, Looks, Make, ReturnToSetup, ClearConnection, Connect, Return,
       Mark, vars

\* What is being made is one of the things there can be.
LEMMA MadeStep ==
  ASSUME PlaceInv, Make
  PROVE  \E n \in todo :
           /\ n \in DOMAIN Statements(Call) /\ todo' = todo \ {n} /\ Turn(n)
           /\ Succeeds(Statements(Call)[n]) /\ Statements(Call)[n] \in AllMade
           /\ made' = made \cup {Statements(Call)[n]}
           /\ doubled' = doubled \cup ({Statements(Call)[n]} \cap {m \in made : m[1] \in Doubling})
           /\ UNCHANGED << plan, at, step, looked, catalog, marks >> /\ looked
           /\ at > 0 /\ step <= Len(Setup[service])
<1>1. PICK n \in todo :
        /\ Succeeds(Statements(Call)[n]) /\ todo' = todo \ {n} /\ Turn(n)
        /\ made' = made \cup {Statements(Call)[n]}
        /\ doubled' = doubled \cup ({Statements(Call)[n]} \cap {m \in made : m[1] \in Doubling})
  BY DEF Make
<1>2. looked /\ at > 0 /\ step <= Len(Setup[service]) /\ n \in DOMAIN Statements(Call)
  BY DEF PlaceInv
<1>3. Statements(Call)[n] \in AllMade
  <2>1. /\ service \in DOMAIN Setup /\ step \in 1..Len(Setup[service])
        /\ Call = Setup[service][step] /\ Setup[service] \in Seq(Calls)
    BY <1>2, InSetup DEF Good
  <2>2. Call \in Range(Setup[service])  BY <2>1 DEF Range
  <2>3. Call \in UNION {Range(Setup[s]) : s \in DOMAIN Setup}  BY <2>1, <2>2
  <2>4. Statements(Call)[n] \in Range(Statements(Call))  BY <1>2 DEF Range
  <2> QED  BY <2>3, <2>4 DEF AllMade
<1> QED  BY <1>1, <1>2, <1>3 DEF Make

\* The services of a fresh connection's catalog are among those there can be.
LEMMA OpenedKnown ==
  ASSUME ContentInv
  PROVE  Opened \subseteq {it[2] : it \in AllMade}
<1>1. CASE catalog = NoCatalog  BY <1>1 DEF Opened, ContentInv
<1>2. CASE catalog # NoCatalog  BY <1>2 DEF Opened, ContentInv
<1> QED  BY <1>1, <1>2

\* Nothing is made that cannot be.
LEMMA ContentStep ==
  ASSUME PlaceInv, ContentInv, [Next]_vars
  PROVE  ContentInv'
<1>1. CASE Start \/ Stop  BY <1>1 DEF Start, Stop, ContentInv
<1>2. CASE Looks  BY <1>2, OpenedKnown DEF Looks, ContentInv
<1>3. CASE Make
  <2>1. made' \subseteq AllMade /\ doubled' \subseteq made' /\ UNCHANGED << catalog, marks >>
    BY <1>3, MadeStep DEF ContentInv
  <2> QED  BY <2>1 DEF ContentInv
<1>4. CASE ReturnToSetup \/ ClearConnection
  BY <1>4 DEF ReturnToSetup, ClearConnection, Return, ContentInv
<1>5. CASE Connect  BY <1>5, OpenedKnown DEF Connect, Return, ContentInv
<1>6. CASE Mark  BY <1>6, InSetup DEF Mark, ContentInv
<1>7. CASE UNCHANGED vars  BY <1>7 DEF vars, ContentInv
<1> QED  BY <1>1, <1>2, <1>3, <1>4, <1>5, <1>6, <1>7, Steps

\* What is behind stays made, as nothing is ever taken away.
LEMMA MadeGrows ==
  ASSUME made \subseteq made'
  PROVE  \A call : (Whole(call) => Whole(call)') /\ (Behind(call) => Behind(call)')
  BY DEF Whole, Behind

\* A call that returns is behind.
LEMMA Returned ==
  ASSUME PlaceInv, WorkInv, at > 0, step <= Len(Setup[service]), todo = {},
         looked \/ Call[1] = "connect"
  PROVE  Behind(Call)
<1>1. CASE Call[1] = "connect"  BY <1>1, StatementForms DEF Behind, Whole
<1>2. CASE looked
  <2>1. \A n \in DOMAIN Statements(Call) : Done(n)  BY <1>2 DEF WorkInv
  <2>2. Call[1] # "db_user" => Whole(Call)  BY <2>1 DEF Whole, Done
  <2>3. ASSUME Call[1] = "grant" PROVE Whole(<< "db_user", Call[2] >>)
    <3> DEFINE user == << "db_user", Call[2] >>
    <3>1. user[1] = "db_user"  OBVIOUS
    <3> HIDE DEF user
    <3>2. DOMAIN Statements(user) = 1..2 /\ DOMAIN Statements(Call) = 1..2
      BY <2>3, <3>1, StatementForms
    <3>3. \A n \in 1..2 : Statements(user)[n] \in made
      BY <2>1, <2>3, <3>2 DEF Done, user
    <3>4. Whole(user)  BY <3>2, <3>3 DEF Whole
    <3> QED  BY <3>4 DEF user
  <2> QED  BY <2>2, <2>3 DEF Behind
<1> QED  BY <1>1, <1>2

\* Once a setup's calls are behind all of them are whole: a grant is behind
\* each of mysql's users.
LEMMA SetupBehind ==
  ASSUME PlaceInv, WorkInv, at > 0, step > Len(Setup[service])
  PROVE  \A n \in 1..Len(Setup[service]) : Whole(Setup[service][n])
<1> SUFFICES ASSUME NEW n \in 1..Len(Setup[service]) PROVE Whole(Setup[service][n])
  OBVIOUS
<1> DEFINE s == Setup[service]
<1>1. Good(s) /\ Len(s) \in Nat /\ step \in 1..Len(s) + 1  BY InSetup
<1>2. \A k \in 1..Len(s) : Behind(s[k])  BY <1>1 DEF WorkInv
<1>3. CASE s[n][1] # "db_user"  BY <1>2, <1>3 DEF Behind
<1>4. CASE s[n][1] = "db_user"
  <2>1. n + 1 \in 1..Len(s) /\ s[n + 1] = << "grant", s[n][2] >>
    BY <1>1, <1>4 DEF Good, GrantFollows
  <2>2. s[n + 1][1] = "grant" /\ s[n + 1][2] = s[n][2]  BY <2>1
  <2>3. Whole(<< "db_user", s[n][2] >>)  BY <1>2, <2>1, <2>2 DEF Behind
  <2>4. s[n] \in Calls  BY <1>1 DEF Good
  <2>5. s[n] = << "db_user", s[n][2] >>  BY <1>4, <2>4 DEF Calls
  <2> QED  BY <2>3, <2>5
<1> QED  BY <1>3, <1>4

\* Every step keeps what is behind, and what the marks stand for.
LEMMA WorkStep ==
  ASSUME PlaceInv, WorkInv, [Next]_vars
  PROVE  WorkInv'
<1>1. CASE Start
  <2>1. step' = 1 /\ ~looked' /\ UNCHANGED << made, marks >>  BY <1>1 DEF Start, PlaceInv
  <2>2. \A n \in 1..step' - 1 : FALSE  BY <2>1
  <2> QED  BY <2>1, <2>2 DEF WorkInv, Whole
<1>2. CASE Stop
  <2>1. at' = 0 /\ ~looked' /\ UNCHANGED << made, marks >>  BY <1>2 DEF Stop
  <2> QED  BY <2>1 DEF WorkInv, Whole
<1>3. CASE Looks
  <2>1. /\ UNCHANGED << plan, at, step, made, marks >> /\ Call' = Call /\ service' = service
    BY <1>3, SameCall DEF Looks
  <2>2. \A n \in DOMAIN Statements(Call) \ todo' : Done(n)
    <3>1. CASE Call[1] = "grant"  BY <1>3, <3>1 DEF Looks
    <3>2. CASE Call[1] # "grant"  BY <1>3, <3>2 DEF Looks, Done
    <3> QED  BY <3>1, <3>2
  <2> QED  BY <2>1, <2>2 DEF WorkInv, Behind, Whole, Done
<1>4. CASE Make
  <2>1. PICK n \in todo :
          /\ n \in DOMAIN Statements(Call) /\ todo' = todo \ {n}
          /\ Succeeds(Statements(Call)[n])
          /\ made' = made \cup {Statements(Call)[n]}
          /\ UNCHANGED << plan, at, step, looked, marks >> /\ looked
    BY <1>4, MadeStep
  <2>2. made \subseteq made' /\ Call' = Call /\ service' = service  BY <2>1, SameCall
  <2>3. Done(n)'
    <3>1. Statements(Call)[n] \in made'  BY <2>1
    <3>2. ASSUME Call[1] = "grant" PROVE Statements(<< "db_user", Call[2] >>)[n] \in made
      <4> DEFINE user == << "db_user", Call[2] >>
      <4>1. user[1] = "db_user" /\ user[2] = Call[2]  OBVIOUS
      <4> HIDE DEF user
      <4>2. n \in 1..2 /\ Statements(Call)[n] = << "grant", Call[2], Hosts[n] >>
        <5>1. /\ DOMAIN Statements(Call) = 1..2
              /\ \A k \in 1..2 : Statements(Call)[k] = << "grant", Call[2], Hosts[k] >>
          BY <3>2, StatementForms
        <5> QED  BY <2>1, <5>1
      <4>3. Statements(user)[n] = << "db_user", Call[2], Hosts[n] >>
        BY <4>1, <4>2, StatementForms
      <4>4. Needs(Statements(Call)[n]) = {<< "db_user", Call[2], Hosts[n] >>}
        BY <4>2 DEF Needs
      <4>5. Statements(user)[n] \in made  BY <2>1, <4>3, <4>4 DEF Succeeds
      <4> QED  BY <4>5 DEF user
    <3> QED  BY <2>2, <3>1, <3>2 DEF Done
  <2>4. \A k \in DOMAIN Statements(Call) \ todo : Done(k)'
    BY <2>1, <2>2 DEF WorkInv, Done
  <2>5. \A k \in DOMAIN Statements(Call) \ todo' : Done(k)'  BY <2>1, <2>3, <2>4
  <2>6. at > 0 => \A k \in 1..step - 1 : Behind(Setup[service][k])'
    BY <2>2, MadeGrows DEF WorkInv
  <2>7. \A s \in marks : \A k \in 1..Len(Setup[s]) : Whole(Setup[s][k])'
    BY <2>2, MadeGrows DEF WorkInv
  <2> QED  BY <2>1, <2>2, <2>5, <2>6, <2>7 DEF WorkInv
<1>5. CASE ReturnToSetup \/ ClearConnection \/ Connect
  <2>1. at > 0 /\ step <= Len(Setup[service]) /\ todo = {} /\ (looked \/ Call[1] = "connect")
    <3>1. CASE Connect
      <4>1. at > 0 /\ step <= Len(Setup[service])  BY <3>1, Calling DEF Connect
      <4>2. todo = {}  BY <3>1, StatementForms DEF Connect, PlaceInv
      <4> QED  BY <3>1, <4>1, <4>2 DEF Connect
    <3> QED  BY <1>5, <3>1 DEF ReturnToSetup, ClearConnection, PlaceInv
  <2>2. Behind(Call)  BY <2>1, Returned
  <2>3. step \in 1..Len(Setup[service]) /\ Len(Setup[service]) \in Nat /\ Call = Setup[service][step]
    BY <2>1, InSetup
  <2>4. step' = step + 1 /\ looked' = FALSE /\ UNCHANGED << plan, at, made, marks >>
    BY <1>5 DEF ReturnToSetup, ClearConnection, Connect, Return
  <2>5. service' = service  BY <2>4 DEF service
  <2>6. \A n \in 1..step' - 1 : n \in 1..step - 1 \/ n = step  BY <2>3, <2>4
  <2>7. \A n \in 1..step' - 1 : Behind(Setup[service][n])
    BY <2>1, <2>2, <2>3, <2>6 DEF WorkInv
  <2> QED  BY <2>4, <2>5, <2>7 DEF WorkInv, Behind, Whole
<1>6. CASE Mark
  <2>1. at > 0 /\ step > Len(Setup[service]) /\ UNCHANGED << looked, made >>
    BY <1>6 DEF Mark
  <2>2. step' = 1 /\ marks' = marks \cup {service}  BY <1>6 DEF Mark
  <2>3. ~looked
    <3>1. step \in 1..Len(Setup[service]) + 1 /\ Len(Setup[service]) \in Nat  BY <2>1, InSetup
    <3> QED  BY <2>1, <3>1 DEF PlaceInv
  <2>4. \A s \in marks' : \A n \in 1..Len(Setup[s]) : Whole(Setup[s][n])
    BY <2>1, <2>2, SetupBehind DEF WorkInv
  <2>5. \A n \in 1..step' - 1 : FALSE  BY <2>2
  <2> QED  BY <2>1, <2>3, <2>4, <2>5 DEF WorkInv, Whole
<1>7. CASE UNCHANGED vars
  <2>1. UNCHANGED << plan, at, step, looked, todo, made, marks >>  BY <1>7 DEF vars
  <2>2. Call' = Call /\ service' = service  BY <2>1, SameCall
  <2> QED  BY <2>1, <2>2 DEF WorkInv, Behind, Whole, Done
<1> QED  BY <1>1, <1>2, <1>3, <1>4, <1>5, <1>6, <1>7, Steps

\* Nothing is registered twice by any step.
LEMMA OnceStep ==
  ASSUME PlaceInv, OnceInv, [Next]_vars
  PROVE  OnceInv'
<1>1. CASE Start \/ Stop \/ ReturnToSetup \/ ClearConnection \/ Mark
  <2>1. todo' = {} /\ doubled' = doubled
    <3>1. CASE Start  BY <3>1 DEF Start, PlaceInv
    <3>2. CASE Stop  BY <3>2 DEF Stop
    <3>3. CASE ReturnToSetup \/ ClearConnection
      BY <3>3 DEF ReturnToSetup, ClearConnection, Return
    <3>4. CASE Mark
      <4>1. step \in 1..Len(Setup[service]) + 1 /\ Len(Setup[service]) \in Nat
        BY <3>4, InSetup DEF Mark
      <4> QED  BY <3>4, <4>1 DEF Mark, PlaceInv
    <3> QED  BY <1>1, <3>1, <3>2, <3>3, <3>4
  <2> QED  BY <2>1 DEF OnceInv, RegisteredOnce
<1>2. CASE Looks
  <2>1. Call' = Call /\ UNCHANGED << made, doubled >>  BY <1>2, SameCall DEF Looks
  <2> QED  BY <1>2, <2>1 DEF Looks, OnceInv, RegisteredOnce
<1>3. CASE Make
  <2>1. PICK n \in todo :
          /\ n \in DOMAIN Statements(Call) /\ todo' = todo \ {n}
          /\ made' = made \cup {Statements(Call)[n]}
          /\ doubled' = doubled \cup ({Statements(Call)[n]} \cap {m \in made : m[1] \in Doubling})
          /\ UNCHANGED << plan, at, step >>
    BY <1>3, MadeStep
  <2>2. Statements(Call)[n] \in made => Statements(Call)[n][1] \notin Doubling
    BY <2>1, StatementKind DEF OnceInv, Doubling, Repeatable
  <2>3. doubled' = {}  BY <2>1, <2>2 DEF OnceInv, RegisteredOnce
  <2>4. ASSUME Call[1] \notin Repeatable, NEW k \in todo' PROVE Statements(Call)[k] \notin made'
    <3>1. k \in DOMAIN Statements(Call) /\ k # n /\ k \in todo  BY <2>1, <2>4 DEF PlaceInv
    <3>2. Statements(Call)[k] # Statements(Call)[n]  BY <2>1, <2>4, <3>1, StatementsDiffer
    <3> QED  BY <2>1, <2>4, <3>1, <3>2 DEF OnceInv
  <2>5. Call' = Call  BY <2>1, SameCall
  <2> QED  BY <2>3, <2>4, <2>5 DEF OnceInv, RegisteredOnce
<1>4. CASE Connect
  <2>1. todo = {}  BY <1>4, StatementForms DEF Connect, PlaceInv
  <2> QED  BY <1>4, <2>1 DEF Connect, Return, OnceInv, RegisteredOnce
<1>5. CASE UNCHANGED vars
  <2>1. UNCHANGED << plan, at, step, todo, made, doubled >>  BY <1>5 DEF vars
  <2> QED  BY <2>1, SameCall DEF OnceInv, RegisteredOnce
<1> QED  BY <1>1, <1>2, <1>3, <1>4, <1>5, Steps

\* A connection that is opened now knows what there is.
LEMMA OpenedCurrent ==
  ASSUME CatalogInv, ~(looked /\ Call[1] = "endpoints")
  PROVE  \A x : << "endpoints", x, "public" >> \in made => x \in Opened
<1>1. CASE catalog = NoCatalog
  <2> SUFFICES ASSUME NEW x, << "endpoints", x, "public" >> \in made PROVE x \in Opened
    OBVIOUS
  <2> DEFINE it == << "endpoints", x, "public" >>
  <2>1. it \in {m \in made : m[1] = "endpoints" /\ m[3] = "public"} /\ it[2] = x  OBVIOUS
  <2> QED  BY <1>1, <2>1 DEF Opened
<1>2. CASE catalog # NoCatalog  BY <1>2 DEF Opened, CatalogInv
<1> QED  BY <1>1, <1>2

\* A connection falls behind in ensure_endpoint only, which drops it.
LEMMA CatalogStep ==
  ASSUME PlaceInv, CatalogInv, [Next]_vars
  PROVE  CatalogInv'
<1>1. CASE Start
  <2>1. ~looked /\ UNCHANGED << made, catalog >>  BY <1>1 DEF Start, PlaceInv
  <2> QED  BY <2>1 DEF CatalogInv
<1>2. CASE Stop \/ ClearConnection  BY <1>2 DEF Stop, ClearConnection, CatalogInv
<1>3. CASE Looks
  <2>1. ~looked /\ made' = made /\ (catalog' = catalog \/ catalog' = Opened)  BY <1>3 DEF Looks
  <2>2. CASE catalog' = catalog  BY <2>1, <2>2 DEF CatalogInv
  <2>3. CASE catalog' = Opened  BY <2>1, <2>3, OpenedCurrent DEF CatalogInv
  <2> QED  BY <2>1, <2>2, <2>3
<1>4. CASE Make
  <2>1. PICK n \in todo :
          /\ n \in DOMAIN Statements(Call)
          /\ made' = made \cup {Statements(Call)[n]}
          /\ UNCHANGED << plan, at, step, looked, catalog >> /\ looked
    BY <1>4, MadeStep
  <2>2. Call' = Call  BY <2>1, SameCall
  <2>3. CASE Call[1] = "endpoints"  BY <2>1, <2>2, <2>3 DEF CatalogInv
  <2>4. CASE Call[1] # "endpoints"
    <3>1. Statements(Call)[n][1] # "endpoints"  BY <2>1, <2>4, StatementKind
    <3>2. \A x : << "endpoints", x, "public" >> # Statements(Call)[n]  BY <3>1
    <3> QED  BY <2>1, <2>4, <3>2 DEF CatalogInv
  <2> QED  BY <2>3, <2>4
<1>5. CASE ReturnToSetup
  <2>1. Call[1] # "endpoints" /\ UNCHANGED << made, catalog >>  BY <1>5 DEF ReturnToSetup, Return
  <2> QED  BY <2>1 DEF CatalogInv
<1>6. CASE Connect
  <2>1. Call[1] # "endpoints" /\ made' = made /\ catalog' = Opened  BY <1>6 DEF Connect, Return
  <2> QED  BY <2>1, OpenedCurrent DEF CatalogInv
<1>7. CASE Mark
  <2>1. ~looked
    <3>1. step \in 1..Len(Setup[service]) + 1 /\ Len(Setup[service]) \in Nat
      BY <1>7, InSetup DEF Mark
    <3> QED  BY <1>7, <3>1 DEF Mark, PlaceInv
  <2>2. made' = made /\ (catalog' = catalog \/ catalog' = NoCatalog)  BY <1>7 DEF Mark
  <2> QED  BY <2>1, <2>2 DEF CatalogInv
<1>8. CASE UNCHANGED vars
  <2>1. UNCHANGED << plan, at, step, looked, made, catalog >>  BY <1>8 DEF vars
  <2> QED  BY <2>1, SameCall DEF CatalogInv
<1> QED  BY <1>1, <1>2, <1>3, <1>4, <1>5, <1>6, <1>7, <1>8, Steps

--------------------------------------------------------------------------------
(***************************************************************************)
(* What a statement needs is there, but for half made users.                *)
(***************************************************************************)

\* mysql has the user on localhost.
AtHome(user) == << "db_user", user, "localhost" >> \in made

\* What is behind in this process: whole setups, and users of mysql that are at
\* least half made, localhost first.
RestInv ==
  /\ at > 0 => \A j \in 1..at - 1 : \A n \in 1..Len(Setup[plan[j]]) : Whole(Setup[plan[j]][n])
  /\ \A x : << "db_user", x, "%" >> \in made => AtHome(x)
  /\ (looked /\ Call[1] = "db_user" /\ 1 \notin todo) => AtHome(Call[2])
  /\ at > 0 => \A n \in 1..step - 1 :
       Setup[service][n][1] = "db_user" => AtHome(Setup[service][n][2])

\* Every step keeps it.
LEMMA RestStep ==
  ASSUME PlaceInv, WorkInv, RestInv, [Next]_vars
  PROVE  RestInv'
<1> USE DEF AtHome
<1>0. made \subseteq made'
  <2>1. CASE Make  BY <2>1, MadeStep
  <2>2. CASE ~Make
    BY <2>2, Steps DEF Start, Stop, Looks, ReturnToSetup, ClearConnection, Connect, Return, Mark,
         vars
  <2> QED  BY <2>1, <2>2
<1>1. CASE Start
  <2>1. at' = 1 /\ step' = 1 /\ ~looked' /\ made' = made  BY <1>1 DEF Start, PlaceInv
  <2>2. (\A j \in 1..at' - 1 : FALSE) /\ (\A n \in 1..step' - 1 : FALSE)  BY <2>1
  <2> QED  BY <2>1, <2>2 DEF RestInv
<1>2. CASE Stop
  <2>1. at' = 0 /\ ~looked' /\ made' = made  BY <1>2 DEF Stop
  <2> QED  BY <2>1 DEF RestInv
<1>3. CASE Looks
  <2>1. /\ UNCHANGED << plan, at, step, made >> /\ Call' = Call /\ service' = service
    BY <1>3, SameCall DEF Looks
  <2>2. (Call[1] = "db_user" /\ 1 \notin todo') => AtHome(Call[2])
    <3> SUFFICES ASSUME Call[1] = "db_user", 1 \notin todo' PROVE AtHome(Call[2])
      OBVIOUS
    <3>1. FoundUser(Call[2])  BY <1>3, StatementForms DEF Looks
    <3>2. PICK n \in DOMAIN Hosts : << "db_user", Call[2], Hosts[n] >> \in made
      BY <3>1 DEF FoundUser
    <3>3. Hosts[n] \in {"localhost", "%"}  BY <3>2 DEF Hosts
    <3> QED  BY <3>2, <3>3 DEF RestInv
  <2> QED  BY <2>1, <2>2 DEF RestInv, Whole
<1>4. CASE Make
  <2>1. PICK n \in todo :
          /\ n \in DOMAIN Statements(Call) /\ todo' = todo \ {n} /\ Turn(n)
          /\ made' = made \cup {Statements(Call)[n]}
          /\ UNCHANGED << plan, at, step, looked >> /\ looked
    BY <1>4, MadeStep
  <2>2. Call' = Call /\ service' = service  BY <2>1, SameCall
  <2>3. CASE Call[1] = "db_user"
    <3>1. /\ DOMAIN Statements(Call) = 1..2
          /\ \A k \in 1..2 : Statements(Call)[k] = << "db_user", Call[2], Hosts[k] >>
      BY <2>3, StatementForms
    <3>2. Hosts[1] = "localhost" /\ Hosts[2] = "%"  BY DEF Hosts
    <3>3. CASE n = 1
      <4>1. Statements(Call)[n] = << "db_user", Call[2], "localhost" >>  BY <3>1, <3>2, <3>3
      <4>2. AtHome(Call[2])'  BY <2>1, <2>2, <4>1
      <4>3. \A x : << "db_user", x, "%" >> \in made' => << "db_user", x, "%" >> \in made
        BY <2>1, <4>1
      <4>4. \A x : << "db_user", x, "%" >> \in made' => AtHome(x)'  BY <1>0, <4>3 DEF RestInv
      <4> QED  BY <1>0, <2>1, <2>2, <4>2, <4>4 DEF RestInv, Whole
    <3>4. CASE n = 2
      <4>1. Statements(Call)[n] = << "db_user", Call[2], "%" >>  BY <3>1, <3>2, <3>4
      <4>2. 1 \notin todo  BY <2>1, <3>4 DEF Turn
      <4>3. AtHome(Call[2])  BY <2>1, <2>3, <4>2 DEF RestInv
      <4>4. \A x : << "db_user", x, "%" >> \in made' =>
              << "db_user", x, "%" >> \in made \/ x = Call[2]
        BY <2>1, <4>1
      <4>5. \A x : << "db_user", x, "%" >> \in made' => AtHome(x)'
        BY <1>0, <4>3, <4>4 DEF RestInv
      <4> QED  BY <1>0, <2>1, <2>2, <4>3, <4>5 DEF RestInv, Whole
    <3> QED  BY <2>1, <3>1, <3>3, <3>4
  <2>4. CASE Call[1] # "db_user"
    <3>1. Statements(Call)[n][1] # "db_user"  BY <2>1, <2>4, StatementKind
    <3>2. \A x : << "db_user", x, "%" >> # Statements(Call)[n]  BY <3>1
    <3>3. \A x : << "db_user", x, "%" >> \in made' => AtHome(x)'  BY <1>0, <2>1, <3>2 DEF RestInv
    <3> QED  BY <1>0, <2>1, <2>2, <2>4, <3>3 DEF RestInv, Whole
  <2> QED  BY <2>3, <2>4
<1>5. CASE ReturnToSetup \/ ClearConnection \/ Connect
  <2>1. at > 0 /\ step <= Len(Setup[service]) /\ (Call[1] = "db_user" => looked /\ todo = {})
    <3>1. CASE Connect  BY <3>1, Calling DEF Connect
    <3>2. CASE ReturnToSetup \/ ClearConnection
      BY <3>2 DEF ReturnToSetup, ClearConnection, PlaceInv
    <3> QED  BY <1>5, <3>1, <3>2
  <2>2. step \in 1..Len(Setup[service]) /\ Len(Setup[service]) \in Nat /\ Call = Setup[service][step]
    BY <2>1, InSetup
  <2>3. step' = step + 1 /\ looked' = FALSE /\ UNCHANGED << plan, at, made >>
    BY <1>5 DEF ReturnToSetup, ClearConnection, Connect, Return
  <2>4. service' = service  BY <2>3 DEF service
  <2>5. \A n \in 1..step' - 1 : n \in 1..step - 1 \/ n = step  BY <2>2, <2>3
  <2>6. Call[1] = "db_user" => AtHome(Call[2])  BY <2>1 DEF RestInv
  <2> QED  BY <2>1, <2>2, <2>3, <2>4, <2>5, <2>6 DEF RestInv, Whole
<1>6. CASE Mark
  <2>1. at > 0 /\ step > Len(Setup[service]) /\ UNCHANGED << plan, looked, made >> /\ step' = 1
    BY <1>6 DEF Mark
  <2>2. ~looked
    <3>1. step \in 1..Len(Setup[service]) + 1 /\ Len(Setup[service]) \in Nat  BY <2>1, InSetup
    <3> QED  BY <2>1, <3>1 DEF PlaceInv
  <2>3. \A n \in 1..Len(Setup[plan[at]]) : Whole(Setup[plan[at]][n])
    BY <2>1, SetupBehind DEF service
  <2>4. at \in Nat  BY PlansAssumption, LenProperties DEF PlaceInv
  <2>5. at' > 0 => \A j \in 1..at' - 1 : j \in 1..at - 1 \/ j = at  BY <1>6, <2>1, <2>4 DEF Mark
  <2>6. \A n \in 1..step' - 1 : FALSE  BY <2>1
  <2> QED  BY <2>1, <2>2, <2>3, <2>5, <2>6 DEF RestInv, Whole
<1>7. CASE UNCHANGED vars
  <2>1. UNCHANGED << plan, at, step, looked, todo, made >>  BY <1>7 DEF vars
  <2>2. Call' = Call /\ service' = service  BY <2>1, SameCall
  <2> QED  BY <2>1, <2>2 DEF RestInv, Whole
<1> QED  BY <1>1, <1>2, <1>3, <1>4, <1>5, <1>6, <1>7, Steps

\* What the call under way rests on has been made, at least half of it.
LEMMA CallRests ==
  ASSUME PlaceInv, WorkInv, RestInv, at > 0, step <= Len(Setup[service]), NEW c \in RestsOn(Call)
  PROVE  IF c[1] = "db_user" THEN AtHome(c[2]) ELSE Whole(c)
<1> DEFINE s == Setup[service]
<1>1. /\ service \in DOMAIN Setup /\ step \in 1..Len(s) /\ Call = s[step]
  BY InSetup
<1>2. c \in Given(service) \/ \E k \in 1..step - 1 : s[k] = c
  BY <1>1, SetupsGood DEF Rests
<1>3. ASSUME NEW k \in 1..step - 1, s[k] = c
      PROVE  IF c[1] = "db_user" THEN AtHome(c[2]) ELSE Whole(c)
  <2>1. Behind(c)  BY <1>3 DEF WorkInv
  <2> QED  BY <1>3, <2>1 DEF Behind, RestInv
<1>4. ASSUME NEW r \in {"keystone", "rabbitmq"}, r \in DependenciesOf(service),
             Holds(Setup[r], {c})
      PROVE  Whole(c)
  <2>1. at \in DOMAIN plan /\ plan \in Plans /\ at \in Nat
    BY PlansAssumption, LenProperties DEF PlaceInv
  <2>2. r \in DOMAIN Setup  BY SetupsGood
  <2>3. PICK j \in 1..at - 1 : plan[j] = r  BY <1>4, <2>1, <2>2, PlansInOrder DEF service
  <2>4. PICK n \in 1..Len(Setup[r]) : Setup[r][n] = c  BY <1>4 DEF Holds
  <2> QED  BY <2>3, <2>4 DEF RestInv
<1>5. CASE c \in Given(service)
  <2>1. \/ "keystone" \in DependenciesOf(service) /\ c \in FromKeystone
        \/ "rabbitmq" \in DependenciesOf(service) /\ c \in FromRabbitmq
    BY <1>5 DEF Given
  <2>2. c[1] # "db_user"  BY <2>1 DEF FromKeystone, FromRabbitmq
  <2>3. /\ c \in FromKeystone => Holds(Setup["keystone"], {c})
        /\ c \in FromRabbitmq => Holds(Setup["rabbitmq"], {c})
    BY SetupsGood DEF Holds
  <2> QED  BY <1>4, <2>1, <2>2, <2>3
<1> QED  BY <1>2, <1>3, <1>5

\* What a statement other than a grant needs is what its call rests on.
LEMMA NeedsRest ==
  ASSUME NEW call \in Calls, call[1] # "grant",
         NEW n \in DOMAIN Statements(call), NEW x \in Needs(Statements(call)[n])
  PROVE  \E c \in RestsOn(call) :
           c[1] # "db_user" /\ \E k \in DOMAIN Statements(c) : Statements(c)[k] = x
<1> DEFINE it == Statements(call)[n]
<1>1. it[1] = call[1] /\ it[2] = call[2]
  <2>1. CASE call[1] = "db_user"  BY <2>1, StatementForms
  <2>2. CASE call[1] = "endpoints"  BY <2>2, StatementForms
  <2>3. CASE call[1] = "connect"  BY <2>3, StatementForms
  <2>4. CASE call[1] \notin {"db_user", "grant", "endpoints", "connect"}  BY <2>4, StatementForms
  <2> QED  BY <2>1, <2>2, <2>3, <2>4
<1> HIDE DEF it
<1>2. ASSUME NEW c, c[1] \notin {"db_user", "grant", "endpoints", "connect"}
      PROVE  \E k \in DOMAIN Statements(c) : Statements(c)[k] = c
  BY <1>2, StatementForms
<1>3. CASE call[1] = "db_sync"
  <2> DEFINE d == << "database", call[2] >>
             g == << "grant", call[2] >>
  <2>1. d \in RestsOn(call) /\ g \in RestsOn(call)  BY <1>3 DEF RestsOn
  <2>2. x = d \/ x = << "grant", call[2], "localhost" >>  BY <1>1, <1>3 DEF Needs, it
  <2>3. g[1] = "grant" /\ g[2] = call[2] /\ d[1] = "database"  OBVIOUS
  <2> HIDE DEF d, g
  <2>4. 1 \in DOMAIN Statements(g) /\ Statements(g)[1] = << "grant", call[2], "localhost" >>
    BY <2>3, StatementForms DEF Hosts
  <2> QED  BY <1>2, <2>1, <2>2, <2>3, <2>4
<1>4. CASE call[1] # "db_sync"
  <2>1. /\ x \in RestsOn(call)
        /\ x[1] \notin {"db_user", "grant", "endpoints", "connect"}
    BY <1>1, <1>4 DEF Needs, RestsOn, it
  <2> QED  BY <1>2, <2>1
<1> QED  BY <1>3, <1>4

--------------------------------------------------------------------------------
(***************************************************************************)
(* The theorems.                                                            *)
(***************************************************************************)

\* Before the first setup there is nothing, and nothing runs.
LEMMA Initially == Init => IInv
<1> SUFFICES ASSUME Init PROVE IInv
  OBVIOUS
<1> USE DEF Init
<1>1. Call[1] = "none"  BY DEF Call
<1>2. Len(plan) \in Nat  BY PlansAssumption, LenProperties
<1>3. PlaceInv  BY <1>2 DEF PlaceInv
<1>4. looked \in BOOLEAN  BY Zenon
<1>5. ContentInv /\ WorkInv /\ CatalogInv  BY DEF ContentInv, WorkInv, CatalogInv
<1>6. OnceInv  BY <1>1 DEF OnceInv, RegisteredOnce
<1> QED  BY <1>3, <1>4, <1>5, <1>6 DEF IInv

\* Every step keeps the invariant.
LEMMA Inductive == IInv /\ [Next]_vars => IInv'
  BY PlaceStep, LookedStep, ContentStep, WorkStep, OnceStep, CatalogStep DEF IInv

\* The invariant holds, whatever is cut short where.
THEOREM AccountsInvariant == Spec => []IInv
  BY Initially, Inductive, PTL DEF Spec

\* The types of what mysql, rabbitmq and keystone have, and of the place in a setup.
THEOREM AccountTypes == Spec => []TypeOK
<1>1. IInv => TypeOK  BY DEF IInv, PlaceInv, ContentInv, TypeOK
<1> QED  BY <1>1, AccountsInvariant, PTL

\* A marked service has all its setup's ensure_ functions promise.
THEOREM MarkedAccountsWhole == Spec => []MarkedAccountIsWhole
<1>1. IInv => MarkedAccountIsWhole
  <2> SUFFICES ASSUME IInv, NEW s \in marks, NEW n \in DOMAIN Setup[s]
               PROVE  Range(Statements(Setup[s][n])) \subseteq made
    BY DEF MarkedAccountIsWhole
  <2>1. s \in DOMAIN Setup  BY DEF IInv, ContentInv
  <2>2. n \in 1..Len(Setup[s])  BY <2>1, SetupsGood, LenProperties DEF Good
  <2>3. Whole(Setup[s][n])  BY <2>2 DEF IInv, WorkInv
  <2> QED  BY <2>3 DEF Whole, Range
<1> QED  BY <1>1, AccountsInvariant, PTL

\* keystone is never made to register a service or an interface twice.
THEOREM NothingTwice == Spec => []RegisteredOnce
<1>1. IInv => RegisteredOnce  BY DEF IInv, OnceInv
<1> QED  BY <1>1, AccountsInvariant, PTL

\* The connection over which ensure_public_network calls neutron knows neutron.
THEOREM ConnectionsCurrent == Spec => []CatalogCurrent
<1>1. IInv => CatalogCurrent
  <2> SUFFICES ASSUME IInv, Call[1] = "connect" PROVE Call[2] \in Opened
    BY DEF CatalogCurrent
  <2>1. at > 0 /\ step <= Len(Setup[service])  BY Calling DEF IInv
  <2>2. /\ step \in 1..Len(Setup[service]) /\ Call = Setup[service][step] /\ Good(Setup[service])
    BY <2>1, InSetup DEF IInv
  <2>3. PICK k \in 1..step - 1 : Setup[service][k] = << "endpoints", Call[2] >>
    BY <2>2 DEF Good, EndpointsFirst
  <2> DEFINE call == << "endpoints", Call[2] >>
  <2>4. call[1] = "endpoints" /\ call[2] = Call[2]  OBVIOUS
  <2>5. Behind(call)  BY <2>1, <2>3 DEF IInv, WorkInv
  <2> HIDE DEF call
  <2>6. Statements(call)[1] = << "endpoints", Call[2], Interfaces[1] >> /\ 1 \in DOMAIN Statements(call)
    BY <2>4, StatementForms
  <2>7. << "endpoints", Call[2], "public" >> \in made
    BY <2>4, <2>5, <2>6 DEF Behind, Whole, Interfaces
  <2> QED  BY <2>7, OpenedCurrent DEF IInv
<1> QED  BY <1>1, AccountsInvariant, PTL

\* No rerun is ever stopped by what the last one left, except where mysql's user
\* was made for localhost only.
THEOREM HalfMadeUsersOnly == Spec => []OnlyHalfMadeUsersBlock
<1>1. Init => RestInv  BY DEF Init, RestInv
<1>2. IInv /\ RestInv /\ [Next]_vars => RestInv'  BY RestStep DEF IInv
<1>3. IInv /\ RestInv => OnlyHalfMadeUsersBlock
  <2> SUFFICES ASSUME IInv, RestInv, NEW n \in todo, Turn(n)
               PROVE  \/ Succeeds(Statements(Call)[n])
                      \/ /\ Statements(Call)[n] = << "grant", Call[2], "%" >>
                         /\ << "db_user", Call[2], "localhost" >> \in made
    BY DEF OnlyHalfMadeUsersBlock
  <2> DEFINE it == Statements(Call)[n]
  <2>1. /\ PlaceInv /\ WorkInv /\ at > 0 /\ step <= Len(Setup[service])
        /\ n \in DOMAIN Statements(Call) /\ it[1] = Call[1]
    BY StatementKind DEF IInv, PlaceInv
  <2>2. Call \in Calls  BY <2>1, InSetup
  <2>3. it \in made => it[1] \in Repeatable \cup Doubling  BY <2>1 DEF IInv, OnceInv
  <2>4. CASE Call[1] # "grant"
    <3>1. ASSUME NEW x \in Needs(it) PROVE x \in made
      <4>1. PICK c \in RestsOn(Call) :
              c[1] # "db_user" /\ \E k \in DOMAIN Statements(c) : Statements(c)[k] = x
        BY <2>1, <2>2, <2>4, <3>1, NeedsRest
      <4>2. Whole(c)  BY <2>1, <4>1, CallRests
      <4> QED  BY <4>1, <4>2 DEF Whole
    <3> QED  BY <2>3, <3>1 DEF Succeeds
  <2>5. CASE Call[1] = "grant"
    <3> DEFINE c == << "db_user", Call[2] >>
    <3>1. c \in RestsOn(Call)  BY <2>5 DEF RestsOn
    <3>2. c[1] = "db_user" /\ c[2] = Call[2]  OBVIOUS
    <3> HIDE DEF c
    <3>3. AtHome(Call[2])  BY <2>1, <3>1, <3>2, CallRests
    <3>4. /\ DOMAIN Statements(Call) = 1..2
          /\ \A k \in 1..2 : Statements(Call)[k] = << "grant", Call[2], Hosts[k] >>
      BY <2>5, StatementForms
    <3>5. Hosts[1] = "localhost" /\ Hosts[2] = "%"  BY DEF Hosts
    <3>6. CASE n = 1
      <4>1. it = << "grant", Call[2], "localhost" >>  BY <3>4, <3>5, <3>6
      <4>2. Needs(it) = {<< "db_user", Call[2], "localhost" >>}  BY <4>1 DEF Needs
      <4> QED  BY <2>3, <3>3, <4>2 DEF Succeeds, AtHome
    <3>7. CASE n = 2
      <4>1. it = << "grant", Call[2], "%" >>  BY <3>4, <3>5, <3>7
      <4> QED  BY <3>3, <4>1 DEF AtHome
    <3> QED  BY <2>1, <3>4, <3>6, <3>7
  <2> QED  BY <2>4, <2>5
<1> QED  BY <1>1, <1>2, <1>3, AccountsInvariant, PTL DEF Spec
================================================================================
