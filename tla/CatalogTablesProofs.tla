------------------------ MODULE CatalogTablesProofs ------------------------
(***************************************************************************)
(* Proofs about CatalogTables, for any clients, keys and bounds.           *)
(***************************************************************************)
EXTENDS CatalogTables, FiniteSetTheorems, TLAPS

USE TablesAssumption

-----------------------------------------------------------------------------
(* The inductive invariant.                                                *)

\* What the fields of a client's record may hold, whatever it is doing.
Hashes == Ids \X Nat \cup {NoSecret}

Ops == {"none", "rules", "accounts", "save", "list"}

Ats == {"idle", "delete", "insert", "seed", "seeding", "reload", "loaded", "hashes", "restore", "load", "show"}

Lists == {{}} \cup [Prefixes -> Nat] \cup [Ids -> Names \cup {NoName}] \cup SUBSET Dealers

HashTables == {<<>>} \cup [Names -> Hashes]

RowKeys == Prefixes \cup Ids

Keys == RowKeys \cup Dealers

ClientRecord ==
  [op : Ops, at : Ats, list : Lists, about : SUBSET Keys, edit : Nat, given : Hashes, hash : HashTables,
   seen : SUBSET RowKeys, stale : SUBSET Keys]

\* Secrets, for any number of edits.
Row == [name : Names, secret : (Ids \X Nat) \ {NoSecret}]

Typed ==
  /\ edits \in 0 .. MaxEdits
  /\ rules \in [Prefixes -> 0 .. edits]
  /\ accounts \in [Ids -> Row \cup {NoAccount}]
  /\ dealers \in [Dealers -> {"absent", "shown", "hidden"}]
  /\ client \in [Clients -> ClientRecord]

Doing(c, op, ats) == client[c].op = op /\ client[c].at \in ats

\* The list of a client that replaces rules is the table, but for its edit
\* and for what others wrote since.
RulesRead(c) ==
  client[c].op = "rules" =>
    /\ client[c].at \in {"delete", "insert"}
    /\ client[c].list \in [Prefixes -> 0 .. edits]
    /\ \A p \in Prefixes \ (client[c].about \cup client[c].stale) : client[c].list[p] = rules[p]

\* The same for accounts, in the order in which they are read.
AccountsRead(c) ==
  client[c].op = "accounts" =>
    /\ client[c].edit \in 1 .. edits
    /\ client[c].at \in {"seed", "seeding", "reload", "loaded", "hashes", "delete", "insert"}
    /\ client[c].at \in {"seed", "seeding", "reload", "loaded"} => client[c].about = {} /\ client[c].given = NoSecret
    /\ client[c].at \in {"seed", "seeding"} =>
         /\ client[c].list = [i \in Ids |-> IF i = Admin THEN Admin ELSE NoName]
         /\ \A i \in Ids \ client[c].stale : accounts[i] = NoAccount
    /\ client[c].at = "reload" => accounts[Admin] # NoAccount
    /\ client[c].at \in {"loaded", "hashes", "delete", "insert"} =>
         /\ client[c].list \in [Ids -> Names \cup {NoName}]
         /\ client[c].list[Admin] # NoName
         /\ \A i \in Ids \ (client[c].about \cup client[c].stale) : client[c].list[i] = accounts[i].name
    /\ client[c].at \in {"hashes", "delete", "insert"} =>
         /\ client[c].given = NoSecret \/ (\E i \in Ids : client[c].given = <<i, client[c].edit>>)
         /\ \A i, j \in client[c].about : i = j
    /\ client[c].at \in {"delete", "insert"} =>
         /\ client[c].hash \in [Names -> Hashes]
         /\ \A i \in Ids \ (client[c].about \cup client[c].stale) :
              accounts[i] # NoAccount => client[c].hash[accounts[i].name] = accounts[i].secret

\* A client that sets the flags of distributors knows who is deleted, but for
\* what others did since.
DealersRead(c) ==
  /\ client[c].op = "save" =>
       /\ client[c].at \in {"restore", "load", "show"} /\ client[c].list \in SUBSET Dealers
       /\ client[c].about \in SUBSET Dealers
       /\ client[c].at = "restore" =>
            \A d \in Hidden : d \in client[c].list \cup client[c].about \cup client[c].stale
       /\ client[c].at = "show" =>
            \A d \in client[c].list \cap Hidden : d \in client[c].about \cup client[c].stale
  /\ client[c].op = "list" =>
       /\ client[c].at \in {"load", "show"} /\ client[c].list \in SUBSET Dealers
       /\ \A d \in client[c].list \cap Hidden : d \in client[c].stale

Reads(c) == RulesRead(c) /\ AccountsRead(c) /\ DealersRead(c)

\* Which password belongs to which username: in the table, in the hands of
\* who has read it, and by default.
Known == {[name |-> Admin, secret |-> <<Admin, 0>>]}
         \cup {accounts[i] : i \in AccountKeys}
         \cup {r \in Row : \E c \in Clients : Doing(c, "accounts", {"delete", "insert"}) /\ client[c].hash[r.name] = r.secret}

\* A password belongs to one username for ever, and nobody has yet seen the
\* one a client is about to set.
Tied == \A r, s \in Known : r.secret = s.secret => r.name = s.name

Unseen == \A c \in Clients : client[c].op = "accounts" => \A r \in Known : r.secret[2] # client[c].edit

Dated == \A r \in Known : r.secret[2] <= edits

EditsApart == \A c, d \in Clients :
  c # d /\ client[c].op = "accounts" /\ client[d].op = "accounts" => client[c].edit # client[d].edit

IInv ==
  /\ Typed /\ AccountsSound
  /\ \A c \in Clients : Reads(c)
  /\ Tied /\ Unseen /\ Dated /\ EditsApart

-----------------------------------------------------------------------------
(* Who does not act keeps what it read, but for what the actor wrote.      *)

SameWork(d) ==
  /\ client'[d].op = client[d].op /\ client'[d].at = client[d].at
  /\ client'[d].list = client[d].list /\ client'[d].about = client[d].about
  /\ client'[d].edit = client[d].edit /\ client'[d].given = client[d].given
  /\ client'[d].hash = client[d].hash

\* What changed in the tables is stale for d, which goes on as it was.
Kept(d) ==
  /\ SameWork(d)
  /\ client[d].at # "idle" =>
       /\ client[d].stale \subseteq client'[d].stale
       /\ \A p \in Prefixes \ client'[d].stale : rules'[p] = rules[p]
       /\ \A i \in Ids \ client'[d].stale : accounts'[i] = accounts[i]
       /\ \A x \in Dealers \ client'[d].stale : x \in Hidden' => x \in Hidden

LEMMA KeptReads ==
  ASSUME Typed, edits' \in Nat, edits' >= edits, accounts[Admin] # NoAccount => accounts'[Admin] # NoAccount,
         NEW d \in Clients, Kept(d), Reads(d)
  PROVE  Reads(d)'
<1> USE DEF Kept, SameWork, Reads
<1>0. edits \in Nat
  BY DEF Typed
<1>1. RulesRead(d)'
  <2> SUFFICES ASSUME client[d].op = "rules" PROVE RulesRead(d)'
    BY DEF RulesRead
  <2>1. client[d].at \in {"delete", "insert"} /\ client[d].list \in [Prefixes -> 0 .. edits]
    BY DEF RulesRead
  <2>2. client'[d].list \in [Prefixes -> 0 .. edits']
    BY <1>0, <2>1
  <2> QED
    BY <2>1, <2>2 DEF RulesRead
<1>2. AccountsRead(d)'
  <2> SUFFICES ASSUME client[d].op = "accounts" PROVE AccountsRead(d)'
    BY DEF AccountsRead
  <2>1. client[d].at \in {"seed", "seeding", "reload", "loaded", "hashes", "delete", "insert"}
    BY DEF AccountsRead
  <2>2. /\ client[d].stale \subseteq client'[d].stale
        /\ \A i \in Ids \ client'[d].stale : accounts'[i] = accounts[i]
    BY <2>1
  <2>3. client'[d].edit \in 1 .. edits'
    BY <1>0 DEF AccountsRead
  <2> QED
    BY <2>1, <2>2, <2>3 DEF AccountsRead
<1>3. DealersRead(d)'
  <2> SUFFICES ASSUME client[d].op \in {"save", "list"} PROVE DealersRead(d)'
    BY DEF DealersRead
  <2>1. client[d].at \in {"restore", "load", "show"}
    BY DEF DealersRead
  <2>2. /\ client[d].stale \subseteq client'[d].stale
        /\ \A x \in Dealers \ client'[d].stale : x \in Hidden' => x \in Hidden
    BY <2>1
  <2>3. Hidden' \subseteq Dealers
    BY DEF Hidden
  <2> QED
    BY <2>1, <2>2, <2>3 DEF DealersRead
<1> QED
  BY <1>1, <1>2, <1>3

\* Another client wrote keys and deleted the rows in seen.
Overtaken(d, keys, seen) ==
  /\ SameWork(d)
  /\ client'[d].stale = IF client[d].at = "idle" THEN {} ELSE client[d].stale \cup keys
  /\ client'[d].seen = client[d].seen \ seen

LEMMA WroteFacts ==
  ASSUME Typed, NEW c \in Clients, NEW next \in ClientRecord,
         NEW keys \in SUBSET Keys, NEW seen, Wrote(c, next, keys, seen)
  PROVE  /\ client' \in [Clients -> ClientRecord] /\ client'[c] = next
         /\ \A d \in Clients \ {c} : Overtaken(d, keys, seen)
<1> DEFINE other(d) == [client[d] EXCEPT !.stale = IF client[d].at = "idle" THEN {} ELSE @ \cup keys,
                                         !.seen = @ \ seen]
<1>1. client' = [d \in Clients |-> IF d = c THEN next ELSE other(d)]
  BY DEF Wrote
<1>2. \A d \in Clients : client[d] \in ClientRecord
  BY DEF Typed
<1>3. ASSUME NEW d \in Clients
      PROVE  /\ other(d) \in ClientRecord
             /\ other(d).op = client[d].op /\ other(d).at = client[d].at
             /\ other(d).list = client[d].list /\ other(d).about = client[d].about
             /\ other(d).edit = client[d].edit /\ other(d).given = client[d].given
             /\ other(d).hash = client[d].hash
             /\ other(d).stale = IF client[d].at = "idle" THEN {} ELSE client[d].stale \cup keys
             /\ other(d).seen = client[d].seen \ seen
  <2> DEFINE st == IF client[d].at = "idle" THEN {} ELSE client[d].stale \cup keys
             se == client[d].seen \ seen
  <2>1. st \in SUBSET Keys /\ se \in SUBSET RowKeys
    BY <1>2 DEF ClientRecord
  <2>2. other(d) = [client[d] EXCEPT !.stale = st, !.seen = se]
    OBVIOUS
  <2> HIDE DEF st, se, other
  <2>3. /\ other(d) \in ClientRecord /\ other(d).stale = st /\ other(d).seen = se
        /\ other(d).op = client[d].op /\ other(d).at = client[d].at
        /\ other(d).list = client[d].list /\ other(d).about = client[d].about
        /\ other(d).edit = client[d].edit /\ other(d).given = client[d].given
        /\ other(d).hash = client[d].hash
    BY <1>2, <2>1, <2>2 DEF ClientRecord
  <2> QED
    BY <2>3 DEF st, se
<1> HIDE DEF other
<1> QED
  BY <1>1, <1>3 DEF SameWork, Overtaken

-----------------------------------------------------------------------------
(* Steps that leave the tables alone: a client loads, edits or gives up.   *)

LEMMA KnownRows == Typed => Known \subseteq Row
<1> SUFFICES ASSUME Typed PROVE Known \subseteq Row
  OBVIOUS
<1>1. [name |-> Admin, secret |-> <<Admin, 0>>] \in Row
  BY DEF Row, NoSecret
<1>2. \A i \in AccountKeys : accounts[i] \in Row
  BY DEF Typed, AccountKeys
<1> QED
  BY <1>1, <1>2 DEF Known

LEMMA OnlyClient ==
  ASSUME IInv, NEW c \in Clients, NEW next \in ClientRecord, client' = [client EXCEPT ![c] = next],
         UNCHANGED <<rules, accounts, dealers>>, edits' \in edits .. MaxEdits, Reads(c)',
         next.op = "accounts" =>
           \/ client[c].op = "accounts" /\ next.edit = client[c].edit
           \/ edits' = edits + 1 /\ next.edit = edits',
         next.op = "accounts" /\ next.at \in {"delete", "insert"} =>
           \A r \in Row : next.hash[r.name] = r.secret => r \in Known
  PROVE  IInv'
<1>0. edits \in Nat /\ edits' \in Nat /\ edits' >= edits /\ MaxEdits \in Nat
  BY DEF IInv, Typed
<1>1. Typed'
  <2>1. rules' \in [Prefixes -> 0 .. edits']
    BY <1>0 DEF IInv, Typed
  <2>2. client' \in [Clients -> ClientRecord]
    BY DEF IInv, Typed
  <2> QED
    BY <1>0, <2>1, <2>2 DEF IInv, Typed
<1>2. client'[c] = next /\ \A d \in Clients \ {c} : client'[d] = client[d]
  BY DEF IInv, Typed
<1>3. \A d \in Clients : Reads(d)'
  <2>1. ASSUME NEW d \in Clients \ {c} PROVE Reads(d)'
    <3>1. Kept(d)
      BY <1>2 DEF Kept, SameWork, Hidden
    <3> QED
      BY <1>0, <3>1, KeptReads DEF IInv
  <2> QED
    BY <2>1
<1>4. Known' \subseteq Known
  <2>1. ASSUME NEW r \in Row, NEW d \in Clients, Doing(d, "accounts", {"delete", "insert"})',
               client'[d].hash[r.name] = r.secret
        PROVE  r \in Known
    <3>1. CASE d = c
      BY <1>2, <2>1, <3>1 DEF Doing
    <3>2. CASE d # c
      BY <1>2, <2>1, <3>2 DEF Known, Doing
    <3> QED
      BY <3>1, <3>2
  <2>2. AccountKeys' = AccountKeys
    BY DEF AccountKeys
  <2> QED
    BY <2>1, <2>2 DEF Known
<1>5. \A d \in Clients : client'[d].op = "accounts" =>
        \/ client[d].op = "accounts" /\ client'[d].edit = client[d].edit
        \/ d = c /\ edits' = edits + 1 /\ client'[d].edit = edits'
  BY <1>2
<1>6. \A d \in Clients : client[d].op = "accounts" => client[d].edit <= edits
  BY <1>0 DEF IInv, Reads, AccountsRead
<1>7. \A r \in Known : r.secret[2] \in Nat
  BY KnownRows DEF IInv, Row
<1>8. Tied' /\ Dated'
  BY <1>0, <1>4, <1>7 DEF IInv, Tied, Dated
<1>9. Unseen'
  BY <1>0, <1>4, <1>5, <1>7 DEF IInv, Unseen, Dated
<1>10. EditsApart'
  <2>1. \A d \in Clients : client[d].op = "accounts" => client[d].edit \in Nat
    BY <1>0 DEF IInv, Reads, AccountsRead
  <2> QED
    BY <1>0, <1>5, <1>6, <2>1 DEF IInv, EditsApart
<1>11. AccountsSound'
  BY DEF IInv, AccountsSound, AdministratorStays, SecretsDistinct, AccountKeys
<1> QED
  BY <1>1, <1>3, <1>8, <1>9, <1>10, <1>11 DEF IInv

LEMMA IdleIsOne == /\ Idle \in ClientRecord
                   /\ Idle.about = {} /\ Idle.stale = {} /\ Idle.given = NoSecret
BY DEF Idle, ClientRecord, Ops, Ats, Lists, Keys, RowKeys, Hashes, HashTables, NoSecret

LEMMA BeginRules ==
  ASSUME IInv, NEW c \in Clients, NEW p \in Prefixes, LoadForRule(c, p) \/ LoadForRuleDeletion(c, p)
  PROVE  IInv'
<1>0. edits \in Nat /\ MaxEdits \in Nat /\ rules \in [Prefixes -> 0 .. edits] /\ client \in [Clients -> ClientRecord]
  BY DEF IInv, Typed
<1>1. ASSUME NEW v \in {0, edits + 1},
             Begin(c, [Idle EXCEPT !.op = "rules", !.at = "delete", !.about = {p}, !.list = [rules EXCEPT ![p] = v]]),
             UNCHANGED <<rules, accounts, dealers>>
      PROVE  IInv'
  <2> DEFINE list == [rules EXCEPT ![p] = v]
             next == [Idle EXCEPT !.op = "rules", !.at = "delete", !.about = {p}, !.list = list]
  <2>1. /\ edits' = edits + 1 /\ edits' \in edits .. MaxEdits /\ client' = [client EXCEPT ![c] = next]
    BY <1>0, <1>1 DEF Begin, Goes, IInv, Typed
  <2>2. /\ list \in [Prefixes -> Nat] /\ list \in [Prefixes -> 0 .. edits + 1]
        /\ \A q \in Prefixes \ {p} : list[q] = rules[q]
    BY <1>0
  <2>3. list \in Lists /\ {p} \in SUBSET Keys
    BY <2>2 DEF Lists, Keys, RowKeys
  <2> HIDE DEF list
  <2>4. /\ next \in ClientRecord /\ next.op = "rules" /\ next.at = "delete" /\ next.about = {p}
        /\ next.list = list
    BY <2>3, IdleIsOne DEF Idle, ClientRecord, Ops, Ats
  <2> HIDE DEF next
  <2>5. client'[c] = next
    BY <1>0, <2>1
  <2>6. Reads(c)'
    BY <1>1, <2>1, <2>2, <2>4, <2>5 DEF Reads, RulesRead, AccountsRead, DealersRead
  <2> QED
    BY <1>1, <2>1, <2>4, <2>6, OnlyClient
<1>2. CASE LoadForRule(c, p)
  <2>1. edits + 1 \in {0, edits + 1}
    OBVIOUS
  <2> QED
    BY <1>1, <1>2, <2>1, Zenon DEF LoadForRule
<1>3. CASE LoadForRuleDeletion(c, p)
  <2>1. 0 \in {0, edits + 1}
    OBVIOUS
  <2> QED
    BY <1>1, <1>3, <2>1, Zenon DEF LoadForRuleDeletion
<1> QED
  BY <1>2, <1>3

LEMMA RulesDeleted ==
  ASSUME IInv, NEW c \in Clients, DeleteRules(c)
  PROVE  IInv'
<1>0. /\ edits \in Nat /\ MaxEdits \in Nat /\ client \in [Clients -> ClientRecord] /\ client[c] \in ClientRecord
      /\ edits \in 0 .. MaxEdits
  BY DEF IInv, Typed
<1> DEFINE next == [client[c] EXCEPT !.at = "insert", !.seen = RuleKeys]
<1>1. /\ client[c].op = "rules" /\ client[c].at = "delete" /\ client' = [client EXCEPT ![c] = next]
      /\ UNCHANGED <<rules, accounts, dealers, edits>>
  BY DEF DeleteRules, Goes
<1>2. RuleKeys \in SUBSET RowKeys
  BY DEF RuleKeys, RowKeys
<1>3. /\ next \in ClientRecord /\ next.op = client[c].op /\ next.at = "insert" /\ next.about = client[c].about
      /\ next.list = client[c].list /\ next.stale = client[c].stale
  BY <1>0, <1>2 DEF ClientRecord, Ats
<1> HIDE DEF next
<1>4. client'[c] = next
  BY <1>0, <1>1
<1>5. Reads(c)
  BY DEF IInv
<1>6. Reads(c)'
  BY <1>1, <1>3, <1>4, <1>5 DEF Reads, RulesRead, AccountsRead, DealersRead
<1>7. edits' \in edits .. MaxEdits
  BY <1>0, <1>1
<1> QED
  BY <1>1, <1>3, <1>6, <1>7, OnlyClient

LEMMA GivesUp ==
  ASSUME IInv, NEW c \in Clients, Raise(c) \/ UseAccounts(c)
  PROVE  IInv'
<1>0. edits \in 0 .. MaxEdits /\ edits \in Nat /\ client \in [Clients -> ClientRecord]
  BY DEF IInv, Typed
<1>1. client' = [client EXCEPT ![c] = Idle] /\ UNCHANGED <<rules, accounts, dealers, edits>>
  BY DEF Raise, UseAccounts, Goes
<1>2. client'[c] = Idle /\ Idle.op = "none"
  BY <1>0, <1>1 DEF Idle
<1>3. Reads(c)'
  BY <1>2 DEF Reads, RulesRead, AccountsRead, DealersRead
<1>4. edits' \in edits .. MaxEdits
  BY <1>0, <1>1
<1> QED
  BY <1>1, <1>2, <1>3, <1>4, IdleIsOne, OnlyClient

LEMMA ListedNames == Typed => /\ Listed \in [Ids -> Names \cup {NoName}] /\ Listed \in Lists
                              /\ \A i \in Ids : Listed[i] = accounts[i].name
                              /\ \A i \in Ids : accounts[i] # NoAccount => accounts[i] \in Row /\ accounts[i].name # NoName
<1> SUFFICES ASSUME Typed PROVE /\ Listed \in [Ids -> Names \cup {NoName}]
                                /\ \A i \in Ids : Listed[i] = accounts[i].name
                                /\ \A i \in Ids : accounts[i] # NoAccount => accounts[i] \in Row /\ accounts[i].name # NoName
  BY DEF Lists
<1>1. \A i \in Ids : accounts[i] \in Row \/ accounts[i] = NoAccount
  BY DEF Typed
<1>2. \A r \in Row : r.name \in Names /\ r.name # NoName
  BY DEF Row
<1> QED
  BY <1>1, <1>2 DEF Listed, NoAccount

LEMMA AccountsLoaded ==
  ASSUME IInv, NEW c \in Clients, LoadAccounts(c)
  PROVE  IInv'
<1>0. edits \in Nat /\ MaxEdits \in Nat /\ client \in [Clients -> ClientRecord] /\ edits \in 0 .. MaxEdits
  BY DEF IInv, Typed
<1> DEFINE onlyAdmin == [i \in Ids |-> IF i = Admin THEN Admin ELSE NoName]
           at == IF AccountKeys = {} THEN "seed" ELSE "loaded"
           list == IF AccountKeys = {} THEN onlyAdmin ELSE Listed
           next == [Idle EXCEPT !.op = "accounts", !.edit = edits + 1, !.at = at, !.list = list]
<1>1. /\ edits' = edits + 1 /\ edits' \in edits .. MaxEdits /\ client' = [client EXCEPT ![c] = next]
      /\ UNCHANGED <<rules, accounts, dealers>>
  <2>1. Begin(c, next) /\ UNCHANGED <<rules, accounts, dealers>>
    BY Zenon DEF LoadAccounts
  <2> HIDE DEF next
  <2> QED
    BY <1>0, <2>1 DEF Begin, Goes
<1>2. onlyAdmin \in [Ids -> Names \cup {NoName}] /\ onlyAdmin \in Lists
  BY DEF Lists
<1>3. list \in Lists
  BY <1>2, ListedNames DEF IInv
<1>4. at \in Ats
  BY DEF Ats
<1> HIDE DEF list, at
<1>5. /\ next \in ClientRecord /\ next.op = "accounts" /\ next.at = at /\ next.about = {}
      /\ next.list = list /\ next.edit = edits + 1 /\ next.stale = {} /\ next.given = NoSecret
  <2>1. edits + 1 \in Nat /\ "accounts" \in Ops
    BY <1>0 DEF Ops
  <2> QED
    BY <1>3, <1>4, <2>1, IdleIsOne DEF ClientRecord
<1> HIDE DEF next
<1>6. client'[c] = next
  BY <1>0, <1>1
<1>7. CASE AccountKeys = {}
  <2>1. at = "seed" /\ list = onlyAdmin /\ \A i \in Ids : accounts[i] = NoAccount
    BY <1>7 DEF at, list, AccountKeys
  <2>2. Reads(c)'
    BY <1>0, <1>1, <1>5, <1>6, <2>1 DEF Reads, RulesRead, AccountsRead, DealersRead
  <2> QED
    BY <1>1, <1>5, <2>1, <2>2, OnlyClient
<1>8. CASE AccountKeys # {}
  <2>1. at = "loaded" /\ list = Listed
    BY <1>8 DEF at, list
  <2>2. Listed \in [Ids -> Names \cup {NoName}] /\ \A i \in Ids : Listed[i] = accounts[i].name
    BY ListedNames DEF IInv
  <2>3. Listed[Admin] # NoName
    BY <1>8, <2>2, ListedNames DEF IInv, AccountsSound, AdministratorStays, AccountKeys
  <2>4. Reads(c)'
    BY <1>0, <1>1, <1>5, <1>6, <2>1, <2>2, <2>3 DEF Reads, RulesRead, AccountsRead, DealersRead
  <2> QED
    BY <1>1, <1>5, <2>1, <2>4, OnlyClient
<1> QED
  BY <1>7, <1>8

LEMMA AccountsReloaded ==
  ASSUME IInv, NEW c \in Clients, ReloadAccounts(c)
  PROVE  IInv'
<1>0. /\ edits \in 0 .. MaxEdits /\ edits \in Nat /\ client \in [Clients -> ClientRecord]
      /\ client[c] \in ClientRecord /\ Reads(c)
  BY DEF IInv, Typed
<1> DEFINE next == [client[c] EXCEPT !.at = "loaded", !.list = Listed, !.stale = {}]
<1>1. /\ client[c].op = "accounts" /\ client[c].at = "reload" /\ client' = [client EXCEPT ![c] = next]
      /\ UNCHANGED <<rules, accounts, dealers, edits>>
  BY DEF ReloadAccounts, Goes
<1>2. /\ Listed \in [Ids -> Names \cup {NoName}] /\ Listed \in Lists
      /\ \A i \in Ids : Listed[i] = accounts[i].name
  BY ListedNames DEF IInv
<1>3. /\ next \in ClientRecord /\ next.op = "accounts" /\ next.at = "loaded" /\ next.about = client[c].about
      /\ next.list = Listed /\ next.edit = client[c].edit /\ next.given = client[c].given
  BY <1>0, <1>1, <1>2 DEF ClientRecord, Ats
<1> HIDE DEF next
<1>4. client'[c] = next
  BY <1>0, <1>1
<1>5. client[c].about = {} /\ client[c].given = NoSecret /\ Listed[Admin] # NoName /\ client[c].edit \in 1 .. edits
  BY <1>0, <1>1, <1>2, ListedNames DEF Reads, AccountsRead, IInv
<1>6. Reads(c)'
  BY <1>1, <1>2, <1>3, <1>4, <1>5 DEF Reads, RulesRead, AccountsRead, DealersRead
<1>7. edits' \in edits .. MaxEdits
  BY <1>0, <1>1
<1> QED
  BY <1>1, <1>3, <1>6, <1>7, OnlyClient

LEMMA AccountsEdited ==
  ASSUME IInv, NEW c \in Clients, NEW i \in Ids, NEW name \in Names \cup {NoName}, NEW given \in Hashes,
         given = NoSecret \/ given = <<i, client[c].edit>>, name = NoName => i # Admin,
         client[c].op = "accounts", client[c].at = "loaded",
         client' = [client EXCEPT ![c] = [client[c] EXCEPT !.at = "hashes", !.list[i] = name, !.about = {i},
                                                           !.given = given]],
         UNCHANGED <<rules, accounts, dealers, edits>>
  PROVE  IInv'
<1>0. /\ edits \in 0 .. MaxEdits /\ edits \in Nat /\ client \in [Clients -> ClientRecord]
      /\ client[c] \in ClientRecord /\ Reads(c)
  BY DEF IInv, Typed
<1> DEFINE list == [client[c].list EXCEPT ![i] = name]
           next == [client[c] EXCEPT !.at = "hashes", !.list = list, !.about = {i}, !.given = given]
<1>1. client' = [client EXCEPT ![c] = next]
  OBVIOUS
<1>2. /\ client[c].list \in [Ids -> Names \cup {NoName}] /\ client[c].list[Admin] # NoName
      /\ client[c].about = {} /\ client[c].edit \in 1 .. edits
      /\ \A j \in Ids \ client[c].stale : client[c].list[j] = accounts[j].name
  BY <1>0 DEF Reads, AccountsRead
<1>3. /\ list \in [Ids -> Names \cup {NoName}] /\ list[Admin] # NoName
      /\ \A j \in Ids \ {i} : list[j] = client[c].list[j]
  BY <1>2
<1>4. list \in Lists /\ {i} \in SUBSET Keys
  BY <1>3 DEF Lists, Keys, RowKeys
<1> HIDE DEF list
<1>5. /\ next \in ClientRecord /\ next.op = "accounts" /\ next.at = "hashes" /\ next.about = {i}
      /\ next.list = list /\ next.edit = client[c].edit /\ next.given = given /\ next.stale = client[c].stale
  BY <1>0, <1>4 DEF ClientRecord, Ats
<1> HIDE DEF next
<1>6. client'[c] = next
  BY <1>0, <1>1
<1>7. AccountsRead(c)'
  <2>1. next.given = NoSecret \/ \E j \in Ids : next.given = <<j, next.edit>>
    BY <1>5
  <2> QED
    BY <1>2, <1>3, <1>5, <1>6, <2>1 DEF AccountsRead
<1>8. Reads(c)'
  BY <1>5, <1>6, <1>7 DEF Reads, RulesRead, DealersRead
<1>9. edits' \in edits .. MaxEdits
  BY <1>0
<1> QED
  BY <1>1, <1>5, <1>8, <1>9, OnlyClient

LEMMA AccountEdit ==
  ASSUME IInv, NEW c \in Clients, NEW i \in Ids, NEW name \in Names, NEW withPassword \in BOOLEAN,
         EditAccount(c, i, name, withPassword) \/ AddAccount(c, i, name) \/ RemoveAccount(c, i)
  PROVE  IInv'
<1>0. client[c] \in ClientRecord /\ client[c].edit \in Nat /\ client[c].given \in Hashes
  BY DEF IInv, Typed, ClientRecord
<1>1. <<i, client[c].edit>> \in Hashes /\ NoSecret \in Hashes
  BY <1>0 DEF Hashes
<1>2. CASE EditAccount(c, i, name, withPassword)
  <2> DEFINE given == IF withPassword THEN <<i, client[c].edit>> ELSE NoSecret
  <2>1. given \in Hashes /\ (given = NoSecret \/ given = <<i, client[c].edit>>)
    BY <1>1
  <2>2. /\ client[c].op = "accounts" /\ client[c].at = "loaded" /\ UNCHANGED <<rules, accounts, dealers, edits>>
        /\ client' = [client EXCEPT ![c] = [client[c] EXCEPT !.at = "hashes", !.list[i] = name, !.about = {i},
                                                             !.given = given]]
    BY <1>2 DEF EditAccount, Goes
  <2> HIDE DEF given
  <2> QED
    BY <2>1, <2>2, AccountsEdited
<1>3. CASE AddAccount(c, i, name)
  <2> DEFINE given == <<i, client[c].edit>>
  <2>1. /\ client[c].op = "accounts" /\ client[c].at = "loaded" /\ UNCHANGED <<rules, accounts, dealers, edits>>
        /\ client' = [client EXCEPT ![c] = [client[c] EXCEPT !.at = "hashes", !.list[i] = name, !.about = {i},
                                                             !.given = given]]
    BY <1>3 DEF AddAccount, Goes
  <2> QED
    BY <1>1, <2>1, AccountsEdited
<1>4. CASE RemoveAccount(c, i)
  <2> DEFINE given == client[c].given
             removed == [client[c] EXCEPT !.at = "hashes", !.list[i] = NoName, !.about = {i}]
  <2>1. /\ client[c].op = "accounts" /\ client[c].at = "loaded" /\ UNCHANGED <<rules, accounts, dealers, edits>>
        /\ client' = [client EXCEPT ![c] = removed] /\ i # Admin
    BY <1>4 DEF RemoveAccount, Goes
  <2>2. given = NoSecret
    BY <2>1 DEF IInv, Reads, AccountsRead
  <2>3. removed = [client[c] EXCEPT !.at = "hashes", !.list[i] = NoName, !.about = {i}, !.given = given]
    BY <1>0 DEF ClientRecord
  <2> HIDE DEF removed, given
  <2> QED
    BY <1>0, <2>1, <2>2, <2>3, AccountsEdited DEF given
<1> QED
  BY <1>2, <1>3, <1>4

\* The hash of a username is the one of its row, if it has one.
LEMMA HashesRead ==
  ASSUME IInv, NEW name \in Names
  PROVE  /\ HashOf(name) \in Hashes
         /\ \A i \in AccountKeys : accounts[i].name = name => HashOf(name) = accounts[i].secret
         /\ HashOf(name) # NoSecret => \E i \in AccountKeys : accounts[i].name = name /\ HashOf(name) = accounts[i].secret
<1>1. \A i \in Ids : accounts[i].name = name => i \in AccountKeys /\ accounts[i] \in Row
  BY ListedNames DEF IInv, AccountKeys, NoAccount
<1>2. \A r \in Row : r.secret \in Hashes
  BY DEF Row, Hashes
<1>3. CASE \E i \in Ids : accounts[i].name = name
  <2> DEFINE r == CHOOSE r \in {accounts[i] : i \in Ids} : r.name = name
  <2>1. r \in {accounts[i] : i \in Ids} /\ r.name = name
    BY <1>3
  <2>2. HashOf(name) = r.secret
    BY <1>3 DEF HashOf
  <2> HIDE DEF r
  <2>3. PICK j \in AccountKeys : r = accounts[j]
    BY <1>1, <2>1
  <2>4. accounts[j] \in Row
    BY <1>1, <2>1, <2>3 DEF AccountKeys
  <2>5. \A i \in AccountKeys : accounts[i].name = name => i = j
    BY <2>1, <2>3 DEF IInv, AccountsSound, SecretsDistinct
  <2> QED
    BY <1>2, <2>1, <2>2, <2>3, <2>4, <2>5
<1>4. CASE ~\E i \in Ids : accounts[i].name = name
  BY <1>4 DEF HashOf, AccountKeys, Hashes
<1> QED
  BY <1>3, <1>4

LEMMA HashesLoaded ==
  ASSUME IInv, NEW c \in Clients, ReadHashes(c)
  PROVE  IInv'
<1>0. /\ edits \in 0 .. MaxEdits /\ edits \in Nat /\ client \in [Clients -> ClientRecord]
      /\ client[c] \in ClientRecord /\ Reads(c)
  BY DEF IInv, Typed
<1> DEFINE hash == [n \in Names |-> HashOf(n)]
           next == [client[c] EXCEPT !.at = "delete", !.hash = hash]
<1>1. /\ client[c].op = "accounts" /\ client[c].at = "hashes" /\ client' = [client EXCEPT ![c] = next]
      /\ UNCHANGED <<rules, accounts, dealers, edits>>
  BY DEF ReadHashes, Goes
<1>2. hash \in [Names -> Hashes] /\ \A n \in Names : hash[n] = HashOf(n)
  BY HashesRead
<1>3. hash \in HashTables
  BY <1>2 DEF HashTables
<1> HIDE DEF hash
<1>4. /\ next \in ClientRecord /\ next.op = "accounts" /\ next.at = "delete" /\ next.about = client[c].about
      /\ next.list = client[c].list /\ next.edit = client[c].edit /\ next.given = client[c].given
      /\ next.hash = hash /\ next.stale = client[c].stale
  BY <1>0, <1>1, <1>3 DEF ClientRecord, Ats
<1> HIDE DEF next
<1>5. client'[c] = next
  BY <1>0, <1>1
<1>6. \A i \in Ids : accounts[i] # NoAccount => hash[accounts[i].name] = accounts[i].secret
  <2> SUFFICES ASSUME NEW i \in Ids, accounts[i] # NoAccount PROVE hash[accounts[i].name] = accounts[i].secret
    OBVIOUS
  <2>1. i \in AccountKeys /\ accounts[i].name \in Names
    BY DEF IInv, Typed, AccountKeys, Row
  <2> QED
    BY <1>2, <2>1, HashesRead
<1>7. AccountsRead(c)'
  BY <1>0, <1>1, <1>2, <1>4, <1>5, <1>6 DEF Reads, AccountsRead
<1>8. Reads(c)'
  BY <1>4, <1>5, <1>7 DEF Reads, RulesRead, DealersRead
<1>9. ASSUME NEW r \in Row, next.hash[r.name] = r.secret PROVE r \in Known
  <2>1. r.name \in Names /\ r.secret # NoSecret /\ r = [name |-> r.name, secret |-> r.secret]
    BY DEF Row
  <2>2. PICK i \in AccountKeys : accounts[i].name = r.name /\ accounts[i].secret = r.secret
    BY <1>2, <1>4, <1>9, <2>1, HashesRead
  <2>3. accounts[i] \in Row
    BY DEF IInv, Typed, AccountKeys
  <2>4. accounts[i] = r
    BY <2>2, <2>3 DEF Row
  <2> QED
    BY <2>4 DEF Known
<1>10. edits' \in edits .. MaxEdits
  BY <1>0, <1>1
<1> QED
  BY <1>1, <1>4, <1>8, <1>9, <1>10, OnlyClient

LEMMA AccountsDeleted ==
  ASSUME IInv, NEW c \in Clients, DeleteAccounts(c)
  PROVE  IInv'
<1>0. /\ edits \in 0 .. MaxEdits /\ edits \in Nat /\ client \in [Clients -> ClientRecord]
      /\ client[c] \in ClientRecord /\ Reads(c)
  BY DEF IInv, Typed
<1> DEFINE at == IF client[c].at = "seed" THEN "seeding" ELSE "insert"
           next == [client[c] EXCEPT !.at = at, !.seen = AccountKeys]
<1>1. /\ client[c].op = "accounts" /\ client[c].at \in {"delete", "seed"} /\ client' = [client EXCEPT ![c] = next]
      /\ UNCHANGED <<rules, accounts, dealers, edits>>
  BY DEF DeleteAccounts, Goes
<1>2. at \in Ats /\ AccountKeys \in SUBSET RowKeys
  BY DEF Ats, AccountKeys, RowKeys
<1>3. at = (IF client[c].at = "seed" THEN "seeding" ELSE "insert")
  OBVIOUS
<1> HIDE DEF at
<1>4. /\ next \in ClientRecord /\ next.op = "accounts" /\ next.at = at /\ next.about = client[c].about
      /\ next.list = client[c].list /\ next.edit = client[c].edit /\ next.given = client[c].given
      /\ next.hash = client[c].hash /\ next.stale = client[c].stale
  BY <1>0, <1>1, <1>2 DEF ClientRecord
<1> HIDE DEF next
<1>5. client'[c] = next
  BY <1>0, <1>1
<1>6. AccountsRead(c)'
  BY <1>0, <1>1, <1>3, <1>4, <1>5 DEF Reads, AccountsRead
<1>7. Reads(c)'
  BY <1>4, <1>5, <1>6 DEF Reads, RulesRead, DealersRead
<1>8. next.at \in {"delete", "insert"} => \A r \in Row : next.hash[r.name] = r.secret => r \in Known
  BY <1>1, <1>3, <1>4 DEF Known, Doing
<1>9. edits' \in edits .. MaxEdits
  BY <1>0, <1>1
<1> QED
  BY <1>1, <1>4, <1>7, <1>8, <1>9, OnlyClient

LEMMA DealersLoaded ==
  ASSUME IInv, NEW c \in Clients, NEW S \in SUBSET Dealers, LoadHidden(c, S) \/ LoadKnown(c, S)
  PROVE  IInv'
<1>0. edits \in Nat /\ MaxEdits \in Nat /\ client \in [Clients -> ClientRecord] /\ edits \in 0 .. MaxEdits
  BY DEF IInv, Typed
<1>1. Hidden \in SUBSET Keys /\ S \in SUBSET Keys /\ Hidden \ S \in Lists /\ S \ Hidden \in Lists
  BY DEF Hidden, Keys, Lists
<1>2. Hidden \in SUBSET Dealers /\ Hidden \ S \in SUBSET Dealers /\ S \ Hidden \in SUBSET Dealers
  BY DEF Hidden
<1>3. CASE LoadHidden(c, S)
  <2> DEFINE next == [Idle EXCEPT !.op = "save", !.at = "restore", !.about = S, !.list = Hidden \ S]
  <2>1. /\ edits' = edits + 1 /\ edits' \in edits .. MaxEdits /\ client' = [client EXCEPT ![c] = next]
        /\ UNCHANGED <<rules, accounts, dealers>>
    <3>1. Begin(c, next) /\ UNCHANGED <<rules, accounts, dealers>>
      BY <1>3, Zenon DEF LoadHidden
    <3> HIDE DEF next
    <3> QED
      BY <1>0, <3>1 DEF Begin, Goes
  <2>2. next \in ClientRecord /\ next.op = "save" /\ next.at = "restore" /\ next.about = S /\ next.list = Hidden \ S
    BY <1>1, IdleIsOne DEF ClientRecord, Ops, Ats
  <2> HIDE DEF next
  <2>3. client'[c] = next
    BY <1>0, <2>1
  <2>4. Hidden' = Hidden
    BY <2>1 DEF Hidden
  <2>5. Reads(c)'
    BY <1>2, <2>2, <2>3, <2>4 DEF Reads, RulesRead, AccountsRead, DealersRead
  <2> QED
    BY <2>1, <2>2, <2>5, OnlyClient
<1>4. CASE LoadKnown(c, S)
  <2> DEFINE next == [Idle EXCEPT !.op = "list", !.at = "load", !.about = Hidden, !.list = S \ Hidden]
  <2>1. /\ edits' = edits + 1 /\ edits' \in edits .. MaxEdits /\ client' = [client EXCEPT ![c] = next]
        /\ UNCHANGED <<rules, accounts, dealers>>
    <3>1. Begin(c, next) /\ UNCHANGED <<rules, accounts, dealers>>
      BY <1>4, Zenon DEF LoadKnown
    <3> HIDE DEF next
    <3> QED
      BY <1>0, <3>1 DEF Begin, Goes
  <2>2. next \in ClientRecord /\ next.op = "list" /\ next.at = "load" /\ next.list = S \ Hidden
    BY <1>1, IdleIsOne DEF ClientRecord, Ops, Ats
  <2> HIDE DEF next
  <2>3. client'[c] = next
    BY <1>0, <2>1
  <2>4. Hidden' = Hidden
    BY <2>1 DEF Hidden
  <2>5. Reads(c)'
    BY <1>2, <2>2, <2>3, <2>4 DEF Reads, RulesRead, AccountsRead, DealersRead
  <2> QED
    BY <2>1, <2>2, <2>5, OnlyClient
<1> QED
  BY <1>3, <1>4

LEMMA ShownLoaded ==
  ASSUME IInv, NEW c \in Clients, LoadShown(c)
  PROVE  IInv'
<1>0. /\ edits \in 0 .. MaxEdits /\ edits \in Nat /\ client \in [Clients -> ClientRecord]
      /\ client[c] \in ClientRecord /\ Reads(c)
  BY DEF IInv, Typed
<1> DEFINE named == IF client[c].op = "save" THEN client[c].about ELSE client[c].list
           others == IF client[c].op = "save" THEN Shown \ named ELSE Shown \ (named \cup client[c].about)
<1>1. /\ client[c].op \in {"save", "list"} /\ client[c].at = "load"
      /\ UNCHANGED <<rules, accounts, dealers, edits>>
      /\ \E first \in UpTo(MaxShown, named) : \E rest \in UpTo(MaxShown - Cardinality(first), others) :
           Goes(c, [client[c] EXCEPT !.at = "show", !.list = first \cup rest,
                                     !.stale = IF client[c].op = "list" THEN @ ELSE {}])
  BY Zenon DEF LoadShown
<1>2. PICK first \in SUBSET named, rest \in SUBSET others :
        client' = [client EXCEPT ![c] = [client[c] EXCEPT !.at = "show", !.list = first \cup rest,
                                                          !.stale = IF client[c].op = "list" THEN @ ELSE {}]]
  BY <1>1 DEF UpTo, Goes
<1> DEFINE list == first \cup rest
           stale == IF client[c].op = "list" THEN client[c].stale ELSE {}
           next == [client[c] EXCEPT !.at = "show", !.list = list, !.stale = stale]
<1>3. client' = [client EXCEPT ![c] = next]
  BY <1>2
<1>4. /\ (\A d \in first : d \in named) /\ (\A d \in rest : d \in Shown) /\ Shown \cap Hidden = {}
      /\ named \in SUBSET Dealers /\ Shown \in SUBSET Dealers
  <2>1. named \in SUBSET Dealers
    BY <1>0, <1>1 DEF Reads, DealersRead
  <2> QED
    BY <2>1 DEF Shown, Hidden
<1>5. list \in Lists /\ list \in SUBSET Dealers /\ stale \in SUBSET Keys
  BY <1>0, <1>4 DEF Lists, ClientRecord
<1>6. \A d \in list \cap Hidden : d \in IF client[c].op = "save" THEN client[c].about ELSE client[c].stale
  BY <1>0, <1>1, <1>4 DEF Reads, DealersRead
<1>7. client[c].op = "list" => stale = client[c].stale
  OBVIOUS
<1> HIDE DEF list, stale
<1>8. /\ next \in ClientRecord /\ next.op = client[c].op /\ next.at = "show" /\ next.about = client[c].about
      /\ next.list = list /\ next.stale = stale
  BY <1>0, <1>5 DEF ClientRecord, Ats
<1> HIDE DEF next
<1>9. client'[c] = next
  BY <1>0, <1>3
<1>10. Hidden' = Hidden
  BY <1>1 DEF Hidden
<1>11. client[c].op = "save" => client[c].about \in SUBSET Dealers
  BY <1>0 DEF Reads, DealersRead
<1>12. Reads(c)'
  BY <1>1, <1>5, <1>6, <1>7, <1>8, <1>9, <1>10, <1>11 DEF Reads, RulesRead, AccountsRead, DealersRead
<1>13. edits' \in edits .. MaxEdits
  BY <1>0, <1>1
<1> QED
  BY <1>1, <1>3, <1>8, <1>12, <1>13, OnlyClient

-----------------------------------------------------------------------------
(* Steps that write a table.                                               *)

LEMMA OthersRead ==
  ASSUME IInv, NEW c \in Clients, NEW next \in ClientRecord, NEW keys \in SUBSET Keys, NEW seen,
         Wrote(c, next, keys, seen), edits' \in Nat, edits' >= edits,
         accounts[Admin] # NoAccount => accounts'[Admin] # NoAccount,
         \A p \in Prefixes \ keys : rules'[p] = rules[p],
         \A i \in Ids \ keys : accounts'[i] = accounts[i],
         \A x \in Dealers \ keys : x \in Hidden' => x \in Hidden,
         NEW e \in Clients \ {c}
  PROVE  Reads(e)'
<1>0. Typed
  BY DEF IInv
<1>1. Overtaken(e, keys, seen)
  BY <1>0, WroteFacts
<1>2. Kept(e)
  BY <1>1 DEF Kept, Overtaken
<1> QED
  BY <1>2, KeptReads DEF IInv

LEMMA WriterKeeps ==
  ASSUME IInv, NEW c \in Clients, NEW next \in ClientRecord, NEW keys \in SUBSET Keys, NEW seen,
         Wrote(c, next, keys, seen), UNCHANGED accounts, edits' \in edits .. MaxEdits, next.op # "accounts",
         rules' \in [Prefixes -> 0 .. edits'], dealers' \in [Dealers -> {"absent", "shown", "hidden"}],
         \A p \in Prefixes \ keys : rules'[p] = rules[p],
         \A x \in Dealers \ keys : x \in Hidden' => x \in Hidden,
         Reads(c)'
  PROVE  IInv'
<1>0. edits \in Nat /\ edits' \in Nat /\ edits' >= edits /\ MaxEdits \in Nat
  BY DEF IInv, Typed
<1>1. /\ client' \in [Clients -> ClientRecord] /\ client'[c] = next
      /\ \A d \in Clients \ {c} : SameWork(d)
  BY WroteFacts DEF IInv, Overtaken
<1>2. Typed'
  BY <1>0, <1>1 DEF IInv, Typed
<1>3. \A d \in Clients : Reads(d)'
  BY <1>0, OthersRead
<1>4. \A d \in Clients : client'[d].op = "accounts" =>
        /\ client[d].op = "accounts" /\ client'[d].edit = client[d].edit /\ client'[d].at = client[d].at
        /\ client'[d].hash = client[d].hash
  BY <1>1 DEF SameWork
<1>5. Known' \subseteq Known
  <2>1. AccountKeys' = AccountKeys
    BY DEF AccountKeys
  <2> QED
    BY <1>4, <2>1 DEF Known, Doing
<1>6. \A r \in Known : r.secret[2] \in Nat
  BY KnownRows DEF IInv, Row
<1>7. Tied' /\ Dated' /\ Unseen' /\ EditsApart'
  <2>1. Tied' /\ Dated'
    BY <1>0, <1>5, <1>6 DEF IInv, Tied, Dated
  <2>2. Unseen'
    BY <1>4, <1>5 DEF IInv, Unseen
  <2>3. EditsApart'
    BY <1>4 DEF IInv, EditsApart
  <2> QED
    BY <2>1, <2>2, <2>3
<1>8. AccountsSound'
  BY DEF IInv, AccountsSound, AdministratorStays, SecretsDistinct, AccountKeys
<1> QED
  BY <1>2, <1>3, <1>7, <1>8 DEF IInv

LEMMA RulesReplaced ==
  ASSUME IInv, NEW c \in Clients, ReplaceRules(c)
  PROVE  IInv'
<1>0. /\ edits \in 0 .. MaxEdits /\ edits \in Nat /\ Reads(c) /\ rules \in [Prefixes -> 0 .. edits]
      /\ dealers \in [Dealers -> {"absent", "shown", "hidden"}]
  BY DEF IInv, Typed
<1> DEFINE keys == {p \in Prefixes : rules[p] # rules'[p]}
           left == RuleKeys \ client[c].seen
<1>1. /\ client[c].op = "rules" /\ UNCHANGED <<accounts, dealers, edits>>
      /\ rules' = [p \in Prefixes |-> IF p \in left THEN rules[p] ELSE client[c].list[p]]
      /\ Wrote(c, Idle, keys, client[c].seen)
  BY DEF ReplaceRules
<1>2. keys \in SUBSET Keys /\ \A p \in Prefixes \ keys : rules'[p] = rules[p]
  BY DEF Keys, RowKeys
<1>3. rules' \in [Prefixes -> 0 .. edits]
  BY <1>0, <1>1 DEF Reads, RulesRead
<1>4. Hidden' = Hidden
  BY <1>1 DEF Hidden
<1> HIDE DEF keys, left
<1>5. client'[c] = Idle /\ Idle.op = "none"
  BY <1>1, <1>2, IdleIsOne, WroteFacts DEF IInv, Idle
<1>6. Reads(c)'
  BY <1>5 DEF Reads, RulesRead, AccountsRead, DealersRead
<1> QED
  BY <1>0, <1>1, <1>2, <1>3, <1>4, <1>5, <1>6, IdleIsOne, WriterKeeps

LEMMA DealerHidden ==
  ASSUME IInv, NEW c \in Clients, NEW d \in Dealers, HideDealer(c, d)
  PROVE  IInv'
<1>0. /\ edits \in 0 .. MaxEdits /\ edits \in Nat /\ rules \in [Prefixes -> 0 .. edits] /\ MaxEdits \in Nat
      /\ dealers \in [Dealers -> {"absent", "shown", "hidden"}]
  BY DEF IInv, Typed
<1>1. /\ UNCHANGED <<accounts, rules>> /\ edits' = edits + 1 /\ edits' \in edits .. MaxEdits
      /\ dealers' = [dealers EXCEPT ![d] = "hidden"] /\ Wrote(c, Idle, {d}, {})
  BY <1>0 DEF HideDealer
<1>2. {d} \in SUBSET Keys /\ \A x \in Dealers \ {d} : x \in Hidden' => x \in Hidden
  BY <1>0, <1>1 DEF Keys, Hidden
<1>3. rules' \in [Prefixes -> 0 .. edits'] /\ dealers' \in [Dealers -> {"absent", "shown", "hidden"}]
  BY <1>0, <1>1
<1>4. client'[c] = Idle /\ Idle.op = "none"
  BY <1>1, <1>2, IdleIsOne, WroteFacts DEF IInv, Idle
<1>5. Reads(c)'
  BY <1>4 DEF Reads, RulesRead, AccountsRead, DealersRead
<1> QED
  BY <1>1, <1>2, <1>3, <1>4, <1>5, IdleIsOne, WriterKeeps

LEMMA DealersRestored ==
  ASSUME IInv, NEW c \in Clients, RestoreDealers(c)
  PROVE  IInv'
<1>0. /\ edits \in 0 .. MaxEdits /\ edits \in Nat /\ rules \in [Prefixes -> 0 .. edits] /\ client[c] \in ClientRecord
      /\ dealers \in [Dealers -> {"absent", "shown", "hidden"}] /\ Reads(c)
  BY DEF IInv, Typed
<1> DEFINE keys == {d \in Dealers : dealers[d] # dealers'[d]}
           next == [client[c] EXCEPT !.at = "load", !.stale = {}]
<1>1. /\ client[c].op = "save" /\ client[c].at = "restore" /\ UNCHANGED <<rules, accounts, edits>>
      /\ Wrote(c, next, keys, {})
  BY DEF RestoreDealers
<1>2. PICK kept \in UpTo(MaxHidden, client[c].list) :
        dealers' = [d \in Dealers |-> IF d \in kept THEN "hidden" ELSE IF d \in Hidden THEN "shown" ELSE dealers[d]]
  BY DEF RestoreDealers
<1>3. dealers' \in [Dealers -> {"absent", "shown", "hidden"}]
  BY <1>0, <1>2
<1>4. keys \in SUBSET Keys /\ \A x \in Dealers \ keys : x \in Hidden' => x \in Hidden
  BY <1>0, <1>3 DEF Keys, Hidden
<1>5. next \in ClientRecord /\ next.op = "save" /\ next.at = "load" /\ next.list = client[c].list
      /\ next.about = client[c].about
  BY <1>0, <1>1 DEF ClientRecord, Ats
<1> HIDE DEF next, keys
<1>6. client'[c] = next
  BY <1>1, <1>4, <1>5, WroteFacts DEF IInv
<1>7. Reads(c)'
  BY <1>0, <1>1, <1>5, <1>6 DEF Reads, RulesRead, AccountsRead, DealersRead
<1>8. edits' \in edits .. MaxEdits /\ rules' \in [Prefixes -> 0 .. edits']
  BY <1>0, <1>1
<1>9. \A p \in Prefixes \ keys : rules'[p] = rules[p]
  BY <1>1
<1>10. next.op # "accounts"
  BY <1>5
<1> QED
  BY <1>1, <1>3, <1>4, <1>5, <1>7, <1>8, <1>9, <1>10, WriterKeeps

LEMMA DealersShown ==
  ASSUME IInv, NEW c \in Clients, ShowDealers(c)
  PROVE  IInv'
<1>0. /\ edits \in 0 .. MaxEdits /\ edits \in Nat /\ rules \in [Prefixes -> 0 .. edits]
      /\ dealers \in [Dealers -> {"absent", "shown", "hidden"}]
  BY DEF IInv, Typed
<1> DEFINE keys == {d \in Dealers : dealers[d] # dealers'[d]}
<1>1. /\ UNCHANGED <<rules, accounts, edits>> /\ Wrote(c, Idle, keys, {})
      /\ dealers' = [d \in Dealers |-> IF d \in client[c].list THEN "shown" ELSE dealers[d]]
  BY DEF ShowDealers
<1>2. dealers' \in [Dealers -> {"absent", "shown", "hidden"}]
  BY <1>0, <1>1
<1>3. keys \in SUBSET Keys /\ \A x \in Dealers \ keys : x \in Hidden' => x \in Hidden
  BY <1>0, <1>2 DEF Keys, Hidden
<1> HIDE DEF keys
<1>4. client'[c] = Idle /\ Idle.op = "none"
  BY <1>1, <1>3, IdleIsOne, WroteFacts DEF IInv, Idle
<1>5. Reads(c)'
  BY <1>4 DEF Reads, RulesRead, AccountsRead, DealersRead
<1>6. edits' \in edits .. MaxEdits /\ rules' \in [Prefixes -> 0 .. edits']
  BY <1>0, <1>1
<1>7. \A p \in Prefixes \ keys : rules'[p] = rules[p]
  BY <1>1
<1> QED
  BY <1>1, <1>2, <1>3, <1>4, <1>5, <1>6, <1>7, IdleIsOne, WriterKeeps

\* A row that replace_accounts inserts has a password that its username
\* already had, or the one that was given for this account.
LEMMA InsertedRows ==
  ASSUME IInv, NEW c \in Clients, client[c].op = "accounts", client[c].at \in {"insert", "seeding"}, Replaceable(c)
  PROVE  /\ Inserted(c, Admin) # NoAccount
         /\ \A i \in Ids : Inserted(c, i) \in Row \cup {NoAccount}
         /\ \A i \in Ids : Inserted(c, i) # NoAccount =>
              \/ Inserted(c, i) \in Known
              \/ client[c].at = "insert" /\ i \in client[c].about /\ Inserted(c, i).secret[2] = client[c].edit
<1>0. client[c] \in ClientRecord /\ AccountsRead(c)
  BY DEF IInv, Typed, Reads
<1>1. \A i \in Ids : Inserted(c, i) # NoAccount => Inserted(c, i).secret # NoSecret
  <2> DEFINE row(i) == Inserted(c, i)
             rows == [i \in Ids |-> row(i)]
             new == {i \in Ids : rows[i] # NoAccount}
  <2>1. \A i \in new : rows[i].secret # NoSecret
    BY DEF Replaceable
  <2> HIDE DEF row
  <2>2. \A i \in Ids : row(i) # NoAccount => row(i).secret # NoSecret
    BY <2>1
  <2> QED
    BY <2>2 DEF row
<1>2. /\ client[c].list \in [Ids -> Names \cup {NoName}] /\ client[c].list[Admin] # NoName
      /\ client[c].at = "seeding" => client[c].list = [i \in Ids |-> IF i = Admin THEN Admin ELSE NoName]
      /\ client[c].at = "insert" =>
           /\ client[c].hash \in [Names -> Hashes] /\ client[c].given \in Hashes
           /\ client[c].given = NoSecret \/ (\E i \in Ids : client[c].given = <<i, client[c].edit>>)
  <2>1. client[c].given \in Hashes
    BY <1>0 DEF ClientRecord
  <2>2. CASE client[c].at = "seeding"
    BY <1>0, <2>2 DEF AccountsRead
  <2>3. CASE client[c].at = "insert"
    BY <1>0, <2>1, <2>3 DEF AccountsRead
  <2> QED
    BY <2>2, <2>3
<1>3. ASSUME NEW i \in Ids, client[c].list[i] = NoName PROVE Inserted(c, i) = NoAccount
  BY <1>3 DEF Inserted
<1> DEFINE secret(i) == IF client[c].at = "seeding" THEN <<Admin, 0>>
                        ELSE IF client[c].given # NoSecret /\ i \in client[c].about THEN client[c].given
                        ELSE client[c].hash[client[c].list[i]]
<1>4. ASSUME NEW i \in Ids, client[c].list[i] # NoName
      PROVE  /\ Inserted(c, i) = [name |-> client[c].list[i], secret |-> secret(i)]
             /\ secret(i) \in Hashes /\ client[c].list[i] \in Names
             /\ client[c].at = "seeding" => i = Admin /\ client[c].list[i] = Admin
  <2>1. Inserted(c, i) = [name |-> client[c].list[i], secret |-> secret(i)]
    BY <1>4 DEF Inserted
  <2>2. client[c].list[i] \in Names
    BY <1>2, <1>4
  <2>3. client[c].at = "seeding" => i = Admin /\ client[c].list[i] = Admin
    BY <1>2, <1>4
  <2>4. secret(i) \in Hashes
    BY <1>2, <2>2 DEF Hashes
  <2> QED
    BY <2>1, <2>2, <2>3, <2>4
<1>5. ASSUME NEW i \in Ids, Inserted(c, i) # NoAccount
      PROVE  /\ Inserted(c, i) \in Row
             /\ \/ Inserted(c, i) \in Known
                \/ client[c].at = "insert" /\ i \in client[c].about /\ Inserted(c, i).secret[2] = client[c].edit
  <2>1. client[c].list[i] # NoName
    BY <1>3, <1>5
  <2>2. secret(i) # NoSecret
    BY <1>1, <1>4, <1>5, <2>1
  <2>3. Inserted(c, i) \in Row /\ Inserted(c, i).name = client[c].list[i] /\ Inserted(c, i).secret = secret(i)
    <3> HIDE DEF secret
    <3> QED
      BY <1>4, <2>1, <2>2 DEF Row, Hashes
  <2>4. CASE client[c].at = "seeding"
    <3>1. Inserted(c, i) = [name |-> Admin, secret |-> <<Admin, 0>>]
      BY <1>4, <2>1, <2>4
    <3> QED
      BY <2>3, <3>1 DEF Known
  <2>5. CASE client[c].at = "insert" /\ client[c].given # NoSecret /\ i \in client[c].about
    <3>1. secret(i) = client[c].given
      BY <2>5
    <3>2. client[c].given[2] = client[c].edit
      BY <1>2, <2>5
    <3> QED
      BY <2>3, <2>5, <3>1, <3>2
  <2>6. CASE client[c].at = "insert" /\ ~(client[c].given # NoSecret /\ i \in client[c].about)
    <3>1. secret(i) = client[c].hash[client[c].list[i]]
      BY <2>6
    <3> QED
      BY <2>3, <2>6, <3>1 DEF Known, Doing
  <2> QED
    BY <2>3, <2>4, <2>5, <2>6
<1>6. Inserted(c, Admin) # NoAccount
  <2>1. Inserted(c, Admin).name # NoName
    BY <1>2, <1>4
  <2> QED
    BY <2>1 DEF NoAccount
<1> QED
  BY <1>5, <1>6

LEMMA AccountsReplaced ==
  ASSUME IInv, NEW c \in Clients, ReplaceAccounts(c)
  PROVE  IInv'
<1>0. /\ edits \in 0 .. MaxEdits /\ edits \in Nat /\ client[c] \in ClientRecord /\ Reads(c) /\ Typed
      /\ accounts \in [Ids -> Row \cup {NoAccount}]
  BY DEF IInv, Typed
<1> DEFINE left == AccountKeys \ client[c].seen
           keys == {i \in Ids : accounts[i] # accounts'[i]}
           again == [client[c] EXCEPT !.at = "reload", !.seen = {}]
           next == IF client[c].at = "seeding" THEN again ELSE Idle
           mine(r) == client[c].at = "insert" /\ r.secret[2] = client[c].edit
<1>1. /\ client[c].op = "accounts" /\ client[c].at \in {"insert", "seeding"} /\ Replaceable(c)
      /\ accounts' = [i \in Ids |-> IF i \in left THEN accounts[i] ELSE Inserted(c, i)]
      /\ Wrote(c, next, keys, client[c].seen) /\ UNCHANGED <<rules, dealers, edits>>
  BY DEF ReplaceAccounts
<1>2. /\ again \in ClientRecord /\ again.op = "accounts" /\ again.at = "reload" /\ again.about = client[c].about
      /\ again.edit = client[c].edit /\ again.given = client[c].given
  BY <1>0, <1>1 DEF ClientRecord, Ats, RowKeys
<1>3. keys \in SUBSET Keys /\ \A i \in Ids \ keys : accounts'[i] = accounts[i]
  BY DEF Keys, RowKeys
<1>4. left \in SUBSET AccountKeys /\ AccountKeys \in SUBSET Ids
  BY DEF AccountKeys
<1>5. /\ Inserted(c, Admin) # NoAccount
      /\ \A i \in Ids : Inserted(c, i) \in Row \cup {NoAccount}
      /\ \A i \in Ids : Inserted(c, i) # NoAccount =>
           Inserted(c, i) \in Known \/ (i \in client[c].about /\ mine(Inserted(c, i)))
  BY <1>1, InsertedRows
<1>6. \A i \in Ids : accounts'[i] = IF i \in left THEN accounts[i] ELSE Inserted(c, i)
  BY <1>1
<1>7. \A i, j \in Ids : i # j /\ accounts'[i] # NoAccount /\ accounts'[j] # NoAccount =>
        accounts'[i].name # accounts'[j].name
  <2> DEFINE row(i) == Inserted(c, i)
             rows == [i \in Ids |-> row(i)]
             new == {i \in Ids : rows[i] # NoAccount}
  <2>1. /\ \A i \in new : \A j \in new \ {i} : rows[i].name # rows[j].name
        /\ \A i \in new, j \in left : rows[i].name # accounts[j].name
    BY <1>1, Zenon DEF Replaceable
  <2>2. \A i \in Ids : accounts'[i] = IF i \in left THEN accounts[i] ELSE row(i)
    BY <1>6
  <2>3. \A i, j \in left : i # j => accounts[i].name # accounts[j].name
    BY <1>4 DEF IInv, AccountsSound, SecretsDistinct
  <2> HIDE DEF row, left
  <2>4. \A i \in Ids : row(i) # NoAccount => i \in new /\ rows[i] = row(i)
    OBVIOUS
  <2> HIDE DEF rows, new
  <2> QED
    BY <2>1, <2>2, <2>3, <2>4
<1>8. \A i \in Ids : accounts'[i] # NoAccount =>
        accounts'[i] \in Row /\ (accounts'[i] \in Known \/ (i \in client[c].about /\ mine(accounts'[i])))
  <2>1. \A i \in left : accounts[i] \in Row /\ accounts[i] \in Known
    BY <1>0, <1>4 DEF Known, AccountKeys
  <2> QED
    BY <1>5, <1>6, <2>1
<1>9. /\ client[c].edit \in 1 .. edits
      /\ client[c].at = "insert" => \A i, j \in client[c].about : i = j
      /\ client[c].at = "seeding" => client[c].about = {} /\ client[c].given = NoSecret
  BY <1>0, <1>1 DEF Reads, AccountsRead
<1>10. \A r \in Known : ~mine(r) /\ r.secret[2] # client[c].edit
  BY <1>1 DEF IInv, Unseen
<1>11. next \in ClientRecord /\ next.at \notin {"delete", "insert"}
  BY <1>2, IdleIsOne DEF Idle
<1>12. accounts'[Admin] # NoAccount
  BY <1>4, <1>5, <1>6 DEF AccountKeys
<1>13. /\ next.op = "accounts" => client[c].at = "seeding" /\ next.at = "reload" /\ next.edit = client[c].edit
                                   /\ next.about = {} /\ next.given = NoSecret
       /\ next.op \in {"accounts", "none"}
  BY <1>2, <1>9 DEF Idle
<1> HIDE DEF left, keys, again, next, mine
<1>14. client' \in [Clients -> ClientRecord] /\ client'[c] = next /\ \A d \in Clients \ {c} : Overtaken(d, keys, client[c].seen)
  BY <1>0, <1>1, <1>3, <1>11, WroteFacts
<1>15. \A d \in Clients : client'[d].op = "accounts" =>
         /\ client[d].op = "accounts" /\ client'[d].edit = client[d].edit
         /\ d = c => client[c].at = "seeding"
         /\ client'[d].at \in {"delete", "insert"} => client'[d].at = client[d].at /\ client'[d].hash = client[d].hash
  BY <1>1, <1>11, <1>13, <1>14 DEF Overtaken, SameWork
<1>16. Typed'
  <2>1. accounts' \in [Ids -> Row \cup {NoAccount}]
    BY <1>1, <1>8
  <2> QED
    BY <1>0, <1>1, <1>14, <2>1 DEF Typed
<1>17. AccountsSound'
  <2>1. AdministratorStays'
    BY <1>12 DEF AdministratorStays, AccountKeys
  <2>2. ASSUME NEW i \in Ids, NEW j \in Ids, i # j, accounts'[i] # NoAccount, accounts'[j] # NoAccount
        PROVE  accounts'[i].secret # accounts'[j].secret
    <3>1. CASE accounts'[i] \in Known /\ accounts'[j] \in Known
      BY <1>7, <2>2, <3>1 DEF IInv, Tied
    <3>2. CASE accounts'[i] \notin Known /\ accounts'[j] \notin Known
      BY <1>8, <1>9, <2>2, <3>2 DEF mine
    <3>3. CASE accounts'[i] \in Known <=> accounts'[j] \notin Known
      BY <1>8, <1>10, <2>2, <3>3 DEF mine
    <3> QED
      BY <3>1, <3>2, <3>3
  <2> QED
    BY <1>7, <2>1, <2>2 DEF AccountsSound, SecretsDistinct, AccountKeys
<1>18. \A d \in Clients : Reads(d)'
  <2>1. Reads(c)'
    BY <1>1, <1>9, <1>12, <1>13, <1>14 DEF Reads, RulesRead, AccountsRead, DealersRead
  <2>2. \A d \in Clients \ {c} : Reads(d)'
    <3>1. edits' \in Nat /\ edits' >= edits /\ Hidden' = Hidden
      BY <1>0, <1>1 DEF Hidden
    <3> QED
      BY <1>1, <1>3, <1>11, <1>12, <3>1, OthersRead
  <2> QED
    BY <2>1, <2>2
<1>19. ASSUME NEW r \in Known', r \notin Known
       PROVE  \E i \in client[c].about : i \in Ids /\ accounts'[i] # NoAccount /\ r = accounts'[i] /\ mine(r)
  <2>1. r \in {accounts'[i] : i \in AccountKeys'}
    <3>1. r # [name |-> Admin, secret |-> <<Admin, 0>>]
      BY <1>19 DEF Known
    <3>2. ASSUME r \in Row, NEW d \in Clients, Doing(d, "accounts", {"delete", "insert"})',
                 client'[d].hash[r.name] = r.secret
          PROVE  FALSE
      <4>1. /\ Doing(d, "accounts", {"delete", "insert"}) /\ client[d].hash[r.name] = r.secret
        BY <1>15, <3>2 DEF Doing
      <4> QED
        BY <1>19, <3>2, <4>1 DEF Known
    <3> QED
      BY <3>1, <3>2 DEF Known
  <2>2. PICK i \in Ids : accounts'[i] # NoAccount /\ r = accounts'[i]
    BY <2>1 DEF AccountKeys
  <2> QED
    BY <1>8, <1>19, <2>2
<1>20. Tied'
  <2> SUFFICES ASSUME NEW r \in Known', NEW s \in Known', r.secret = s.secret PROVE r.name = s.name
    BY DEF Tied
  <2>1. CASE r \in Known /\ s \in Known
    BY <2>1 DEF IInv, Tied
  <2>2. CASE r \notin Known /\ s \notin Known
    BY <1>9, <1>19, <2>2 DEF mine
  <2>3. CASE r \in Known <=> s \notin Known
    BY <1>10, <1>19, <2>3 DEF mine
  <2> QED
    BY <2>1, <2>2, <2>3
<1>21. Dated'
  <2> SUFFICES ASSUME NEW r \in Known' PROVE r.secret[2] <= edits
    BY <1>1 DEF Dated
  <2>1. CASE r \in Known
    BY <2>1 DEF IInv, Dated
  <2>2. CASE r \notin Known
    BY <1>0, <1>9, <1>19, <2>2 DEF mine
  <2> QED
    BY <2>1, <2>2
<1>22. Unseen'
  <2> SUFFICES ASSUME NEW d \in Clients, client'[d].op = "accounts", NEW r \in Known' PROVE r.secret[2] # client'[d].edit
    BY DEF Unseen
  <2>1. CASE r \in Known
    BY <1>15, <2>1 DEF IInv, Unseen
  <2>2. CASE r \notin Known
    <3>1. mine(r)
      BY <1>19, <2>2
    <3>2. d # c
      BY <1>15, <3>1 DEF mine
    <3> QED
      BY <1>1, <1>15, <3>1, <3>2 DEF mine, IInv, EditsApart
  <2> QED
    BY <2>1, <2>2
<1>23. EditsApart'
  BY <1>15 DEF IInv, EditsApart
<1> QED
  BY <1>16, <1>17, <1>18, <1>20, <1>21, <1>22, <1>23 DEF IInv

-----------------------------------------------------------------------------

LEMMA InitInv == Init => IInv
<1> SUFFICES ASSUME Init PROVE IInv
  OBVIOUS
<1>1. Typed
  BY IdleIsOne DEF Init, Typed
<1>2. AccountKeys = {} /\ \A c \in Clients : client[c] = Idle /\ Idle.op = "none"
  BY DEF Init, AccountKeys, Idle
<1>3. \A c \in Clients : Reads(c)
  BY <1>2 DEF Reads, RulesRead, AccountsRead, DealersRead
<1>4. Known = {[name |-> Admin, secret |-> <<Admin, 0>>]}
  BY <1>2 DEF Known, Doing
<1>5. Tied /\ Unseen /\ Dated /\ EditsApart
  BY <1>2, <1>4 DEF Tied, Unseen, Dated, EditsApart, Init
<1>6. AccountsSound
  BY <1>2 DEF AccountsSound, AdministratorStays, SecretsDistinct
<1> QED
  BY <1>1, <1>3, <1>5, <1>6 DEF IInv

LEMMA StepInv == IInv /\ [Next]_vars => IInv'
<1> SUFFICES ASSUME IInv, [Next]_vars PROVE IInv'
  OBVIOUS
<1>1. ASSUME NEW c \in Clients, ClientStep(c) PROVE IInv'
  BY <1>1, BeginRules, RulesDeleted, RulesReplaced, AccountsLoaded, AccountsReloaded, GivesUp, AccountEdit,
     HashesLoaded, AccountsDeleted, AccountsReplaced, DealerHidden, DealersLoaded, DealersRestored,
     ShownLoaded, DealersShown
  DEF ClientStep
<1>2. CASE UNCHANGED vars
  <2>1. UNCHANGED <<rules, accounts, dealers, client, edits>>
    BY <1>2 DEF vars
  <2>2. Typed' /\ AccountsSound' /\ AccountKeys' = AccountKeys /\ Hidden' = Hidden
    BY <2>1 DEF IInv, Typed, AccountsSound, AdministratorStays, SecretsDistinct, AccountKeys, Hidden
  <2>3. \A c \in Clients : Reads(c)'
    BY <2>1, <2>2 DEF IInv, Reads, RulesRead, AccountsRead, DealersRead
  <2>4. Known' = Known
    BY <2>1, <2>2 DEF Known, Doing
  <2> QED
    BY <2>1, <2>2, <2>3, <2>4 DEF IInv, Tied, Unseen, Dated, EditsApart
<1> QED
  BY <1>1, <1>2 DEF Next, Terminating

LEMMA TablesSafe == Spec => []IInv
  BY InitInv, StepInv, PTL DEF Spec

(* Every variable keeps its type, and no account is without a password.    *)
THEOREM TablesTyped == Spec => []TypeOK
<1>1. IInv => TypeOK
  <2> SUFFICES ASSUME IInv PROVE TypeOK
    OBVIOUS
  <2>1. Typed
    BY DEF IInv
  <2>2. ASSUME NEW i \in Ids, accounts[i] # NoAccount PROVE accounts[i] \in [name : Names, secret : Secrets]
    <3>1. accounts[i] \in Row /\ accounts[i] \in Known
      BY <2>1, <2>2 DEF Typed, Known, AccountKeys
    <3>2. accounts[i].secret \in Ids \X Nat /\ accounts[i].secret[2] <= edits /\ edits \in Nat
      BY <2>1, <3>1 DEF IInv, Dated, Row, Typed
    <3>3. accounts[i].secret \in Secrets
      BY <3>2 DEF Secrets
    <3> QED
      BY <3>1, <3>3 DEF Row
  <2>3. \A c \in Clients : client[c] \in ClientRecord
    BY <2>1 DEF Typed
  <2> QED
    BY <2>1, <2>2, <2>3 DEF Typed, TypeOK, ClientRecord, Ops, Keys, RowKeys
<1> QED
  BY <1>1, TablesSafe, PTL

(* The administrator stays, and no two accounts share a password, however  *)
(* replacements, renames and seedings overlap or fail.                     *)
THEOREM AccountsCorrect == Spec => []AccountsSound
<1>1. IInv => AccountsSound
  BY DEF IInv
<1> QED
  BY <1>1, TablesSafe, PTL

-----------------------------------------------------------------------------
(* What one write may change.                                              *)

LEMMA OthersWait == ASSUME IInv, NEW c \in Clients, NEW d \in Clients \ {c}, ClientStep(d)
                    PROVE  client'[c].at = client[c].at
<1>0. client \in [Clients -> ClientRecord] /\ Typed
  BY DEF IInv, Typed
<1>1. ASSUME NEW next, client' = [client EXCEPT ![d] = next] PROVE client'[c].at = client[c].at
  BY <1>0, <1>1
<1>2. ASSUME NEW next, NEW keys, NEW seen, Wrote(d, next, keys, seen) PROVE client'[c].at = client[c].at
  <2> DEFINE st == IF client[c].at = "idle" THEN {} ELSE client[c].stale \cup keys
             se == client[c].seen \ seen
  <2>1. client'[c] = [client[c] EXCEPT !.stale = st, !.seen = se]
    BY <1>2 DEF Wrote
  <2> HIDE DEF st, se
  <2> QED
    BY <1>0, <2>1 DEF ClientRecord
<1>3. CASE ReplaceRules(d)
  BY <1>2, <1>3 DEF ReplaceRules
<1>4. CASE ReplaceAccounts(d)
  BY <1>2, <1>4 DEF ReplaceAccounts
<1>5. CASE RestoreDealers(d)
  BY <1>2, <1>5 DEF RestoreDealers
<1>6. CASE ShowDealers(d)
  BY <1>2, <1>6 DEF ShowDealers
<1>7. ASSUME NEW x \in Dealers, HideDealer(d, x) PROVE client'[c].at = client[c].at
  BY <1>2, <1>7 DEF HideDealer
<1>8. ASSUME NEW p \in Prefixes, LoadForRule(d, p) \/ LoadForRuleDeletion(d, p) PROVE client'[c].at = client[c].at
  BY <1>1, <1>8 DEF LoadForRule, LoadForRuleDeletion, Begin, Goes
<1>9. CASE DeleteRules(d) \/ LoadAccounts(d) \/ ReloadAccounts(d) \/ UseAccounts(d) \/ ReadHashes(d) \/ DeleteAccounts(d)
  BY <1>1, <1>9 DEF DeleteRules, LoadAccounts, ReloadAccounts, UseAccounts, ReadHashes, DeleteAccounts, Begin, Goes
<1>10. ASSUME NEW i \in Ids, NEW name \in Names, NEW withPassword \in BOOLEAN,
              EditAccount(d, i, name, withPassword) \/ AddAccount(d, i, name) \/ RemoveAccount(d, i)
       PROVE  client'[c].at = client[c].at
  BY <1>1, <1>10 DEF EditAccount, AddAccount, RemoveAccount, Goes
<1>11. ASSUME NEW S \in SUBSET Dealers, LoadHidden(d, S) \/ LoadKnown(d, S) PROVE client'[c].at = client[c].at
  BY <1>1, <1>11 DEF LoadHidden, LoadKnown, Begin, Goes
<1>12. CASE LoadShown(d)
  <2>1. \E next : client' = [client EXCEPT ![d] = next]
    BY <1>12 DEF LoadShown, Goes
  <2> QED
    BY <1>1, <2>1
<1>13. CASE Raise(d)
  BY <1>1, <1>13 DEF Raise, Goes
<1> QED
  BY <1>3, <1>4, <1>5, <1>6, <1>7, <1>8, <1>9, <1>10, <1>11, <1>12, <1>13, Zenon DEF ClientStep

LEMMA WhoWrites ==
  ASSUME IInv, [Next]_vars, NEW c \in Clients, client'[c].at # client[c].at
  PROVE  ClientStep(c)
<1>1. ~UNCHANGED vars
  BY DEF vars
<1>2. PICK d \in Clients : ClientStep(d)
  BY <1>1 DEF Next, Terminating
<1>3. d = c
  BY <1>2, OthersWait
<1> QED
  BY <1>2, <1>3

(* A replacement changes the rows its client edited, and others only where *)
(* somebody else wrote after the list was loaded.                          *)
THEOREM FreshReplacementsCorrect == Spec => FreshReplacementsKeepRows
<1> DEFINE Kept1(c) ==
             client[c].at \in {"insert", "seeding"} /\ client'[c].at \in {"idle", "reload"} =>
               /\ \A p \in RuleKeys : rules'[p] # rules[p] => p \in client[c].about \cup client[c].stale
               /\ \A i \in AccountKeys :
                    accounts'[i] # accounts[i] => i \in client[c].about \cup client[c].stale
           Act == \A c \in Clients : Kept1(c)
<1>1. IInv /\ [Next]_vars => [Act]_vars
  <2> SUFFICES ASSUME IInv, [Next]_vars, NEW c \in Clients,
                      client[c].at \in {"insert", "seeding"}, client'[c].at \in {"idle", "reload"}
               PROVE  /\ \A p \in RuleKeys : rules'[p] # rules[p] => p \in client[c].about \cup client[c].stale
                      /\ \A i \in AccountKeys :
                           accounts'[i] # accounts[i] => i \in client[c].about \cup client[c].stale
    OBVIOUS
  <2>0. Reads(c) /\ Typed
    BY DEF IInv
  <2>1. ClientStep(c)
    BY WhoWrites
  <2>2. CASE UNCHANGED <<rules, accounts>>
    BY <2>2
  <2>3. CASE ReplaceRules(c)
    <3> DEFINE left == RuleKeys \ client[c].seen
    <3>1. /\ client[c].op = "rules" /\ UNCHANGED accounts
          /\ rules' = [p \in Prefixes |-> IF p \in left THEN rules[p] ELSE client[c].list[p]]
      BY <2>3 DEF ReplaceRules
    <3>2. \A p \in Prefixes \ (client[c].about \cup client[c].stale) : client[c].list[p] = rules[p]
      BY <2>0, <3>1 DEF Reads, RulesRead
    <3>3. RuleKeys \subseteq Prefixes
      BY DEF RuleKeys
    <3> QED
      BY <3>1, <3>2, <3>3
  <2>4. CASE ReplaceAccounts(c)
    <3> DEFINE left == AccountKeys \ client[c].seen
    <3>1. /\ client[c].op = "accounts" /\ UNCHANGED rules
          /\ accounts' = [i \in Ids |-> IF i \in left THEN accounts[i] ELSE Inserted(c, i)]
      BY <2>4 DEF ReplaceAccounts
    <3> SUFFICES ASSUME NEW i \in AccountKeys, i \notin client[c].about \cup client[c].stale
                 PROVE  accounts'[i] = accounts[i]
      BY <3>1
    <3>2. i \in Ids /\ accounts[i] \in Row /\ accounts[i] # NoAccount
      BY <2>0 DEF AccountKeys, Typed
    <3>3. client[c].at = "insert"
      BY <2>0, <3>1, <3>2 DEF Reads, AccountsRead
    <3>4. client[c].list[i] = accounts[i].name /\ client[c].hash[accounts[i].name] = accounts[i].secret
      BY <2>0, <3>1, <3>2, <3>3 DEF Reads, AccountsRead
    <3>5. Inserted(c, i) = [name |-> accounts[i].name, secret |-> accounts[i].secret]
      BY <3>2, <3>3, <3>4 DEF Inserted, Row
    <3>6. Inserted(c, i) = accounts[i]
      BY SMTT(30), <3>2, <3>5 DEF Row
    <3> QED
      BY <3>1, <3>2, <3>6
  <2>5. ReplaceRules(c) \/ ReplaceAccounts(c) \/ UNCHANGED <<rules, accounts>>
    BY <2>1 DEF ClientStep, LoadForRule, LoadForRuleDeletion, DeleteRules, LoadAccounts, ReloadAccounts, UseAccounts,
      EditAccount, AddAccount, RemoveAccount, ReadHashes, DeleteAccounts, HideDealer, LoadHidden, RestoreDealers,
      LoadKnown, LoadShown, ShowDealers, Raise
  <2> QED
    BY <2>2, <2>3, <2>4, <2>5
<1> QED
  BY <1>1, TablesSafe, PTL DEF Spec, FreshReplacementsKeepRows

(* A deleted distributor is offered again on purpose, because the list was *)
(* read before it was deleted, or because more are deleted than are kept.  *)
THEOREM HiddenCorrect == Spec => HiddenReappearsOnPurpose
<1> DEFINE Act == \A c \in Clients, d \in Dealers :
             /\ d \in Hidden /\ dealers'[d] = "shown"
             /\ client[c].at \in {"restore", "show"} /\ client'[c].at # client[c].at
             => \/ client[c].op = "save" /\ d \in client[c].about
                \/ d \in client[c].stale
                \/ client[c].at = "restore" /\ Cardinality(client[c].list) > MaxHidden
<1>1. IInv /\ [Next]_vars => [Act]_vars
  <2> SUFFICES ASSUME IInv, [Next]_vars, NEW c \in Clients, NEW d \in Dealers,
                      d \in Hidden, dealers'[d] = "shown",
                      client[c].at \in {"restore", "show"}, client'[c].at # client[c].at
               PROVE  \/ client[c].op = "save" /\ d \in client[c].about
                      \/ d \in client[c].stale
                      \/ client[c].at = "restore" /\ Cardinality(client[c].list) > MaxHidden
    OBVIOUS
  <2>0. Reads(c) /\ dealers[d] = "hidden"
    BY DEF IInv, Hidden
  <2>1. ClientStep(c)
    BY SMTT(30), WhoWrites
  <2>2. RestoreDealers(c) \/ ShowDealers(c) \/ UNCHANGED dealers
    BY <2>1 DEF ClientStep, LoadForRule, LoadForRuleDeletion, DeleteRules, ReplaceRules, LoadAccounts, ReloadAccounts,
      UseAccounts, EditAccount, AddAccount, RemoveAccount, ReadHashes, DeleteAccounts, ReplaceAccounts, HideDealer,
      LoadHidden, LoadKnown, LoadShown, Raise, Begin
  <2>3. CASE ShowDealers(c)
    <3>1. /\ client[c].op \in {"save", "list"} /\ client[c].at = "show"
          /\ dealers'[d] = IF d \in client[c].list THEN "shown" ELSE dealers[d]
      BY <2>3 DEF ShowDealers
    <3>2. d \in client[c].list \cap Hidden
      BY <2>0, <3>1
    <3> QED
      BY <2>0, <3>1, <3>2 DEF Reads, DealersRead
  <2>4. CASE RestoreDealers(c)
    <3>1. client[c].op = "save" /\ client[c].at = "restore" /\ client[c].list \in SUBSET Dealers
      BY <2>0, <2>4 DEF RestoreDealers, Reads, DealersRead
    <3>2. PICK kept \in UpTo(MaxHidden, client[c].list) :
            dealers' = [x \in Dealers |-> IF x \in kept THEN "hidden" ELSE IF x \in Hidden THEN "shown" ELSE dealers[x]]
      BY <2>4 DEF RestoreDealers
    <3>3. d \notin kept
      BY <3>2
    <3>4. IsFiniteSet(client[c].list)
      BY <3>1, FS_Subset
    <3>5. Cardinality(client[c].list) \in Nat
      BY <3>4, FS_CardinalityType
    <3>6. CASE Cardinality(client[c].list) <= MaxHidden
      <4>1. kept \in SUBSET client[c].list /\ Cardinality(kept) = Cardinality(client[c].list)
        BY <3>5, <3>6 DEF UpTo
      <4>2. kept = client[c].list
        BY <3>4, <4>1, FS_Subset
      <4>3. d \in client[c].about \cup client[c].stale
        BY <2>0, <3>1, <3>3, <4>2 DEF Reads, DealersRead
      <4> QED
        BY <3>1, <4>3
    <3> QED
      BY <3>1, <3>5, <3>6
  <2> QED
    BY <2>0, <2>2, <2>3, <2>4
<1> QED
  BY <1>1, TablesSafe, PTL DEF Spec, HiddenReappearsOnPurpose

=============================================================================
