---------------------------- MODULE CatalogTables ----------------------------
(***************************************************************************)
(* Three small tables all nodes edit: product rules, accounts, and the     *)
(* distributors a transfer may go to.  Rules and accounts are edited by    *)
(* loading the table, changing the list and replacing the table by it;     *)
(* distributors by setting and clearing their deleted flags from lists     *)
(* that were loaded before.                                                *)
(*                                                                         *)
(* A replacement is one transaction: DELETE of every row it sees, then an  *)
(* INSERT per row of the list.  Under READ COMMITTED a row that another    *)
(* transaction inserted after the DELETE began is not seen by it, so an    *)
(* INSERT of the same key fails and the replacement is rolled back.        *)
(***************************************************************************)
EXTENDS Integers, FiniteSets

CONSTANTS
  Clients,      (* requests and query workers, of all nodes                *)
  Prefixes,     (* keys of product_rules                                   *)
  Ids, Names,   (* keys of app_accounts: id and username, both unique      *)
  Admin,        (* id and username of the default administrator            *)
  NoName,
  Dealers,      (* distributors                                            *)
  MaxShown,     (* how many shown distributors a save keeps (100)          *)
  MaxHidden,    (* how many deleted ones a restore keeps (300)             *)
  MaxEdits      (* bound of the model: operations that begin               *)

ASSUME TablesAssumption ==
  /\ Admin \in Ids \cap Names /\ NoName \notin Names
  /\ IsFiniteSet(Dealers)
  /\ MaxShown \in Nat /\ MaxHidden \in Nat /\ MaxEdits \in Nat

VARIABLES
  rules,     (* product_rules: the edit that wrote a prefix, 0 without row *)
  accounts,  (* app_accounts: username and password hash of each id        *)
  dealers,   (* distributors: "absent", "shown" or "hidden" (deleted)      *)
  client,    (* what each client is doing                                  *)
  edits      (* how many operations have begun                             *)

vars == <<rules, accounts, dealers, client, edits>>

-----------------------------------------------------------------------------

\* A password hash is known by the account and the edit it was set for.
NoSecret == <<NoName, 0>>
NoAccount == [name |-> NoName, secret |-> NoSecret]
DefaultAdmin == [name |-> Admin, secret |-> <<Admin, 0>>]

RuleKeys == {p \in Prefixes : rules[p] # 0}
AccountKeys == {i \in Ids : accounts[i] # NoAccount}

\* list: what was loaded, with the client's edit in it.  given: the account
\* and password of the edit.  hash: hashes by username.  seen: rows the DELETE
\* saw that are still there.  stale: keys others wrote since the list was
\* loaded.
Idle == [op |-> "none", at |-> "idle", list |-> {}, about |-> {}, edit |-> 0, given |-> NoSecret,
         hash |-> <<>>, seen |-> {}, stale |-> {}]

Goes(c, next) == client' = [client EXCEPT ![c] = next]

\* An operation begins, as the given record.
Begin(c, start) ==
  /\ client[c].at = "idle" /\ edits < MaxEdits
  /\ edits' = edits + 1
  /\ Goes(c, start)

\* Client c goes on with next after it wrote keys, having deleted the rows in
\* seen: the others' lists are stale there, and what they saw is gone.
Wrote(c, next, keys, seen) ==
  client' = [d \in Clients |->
    IF d = c THEN next
    ELSE [client[d] EXCEPT !.stale = IF client[d].at = "idle" THEN {} ELSE @ \cup keys,
                           !.seen = @ \ seen]]

-----------------------------------------------------------------------------

Init ==
  /\ rules = [p \in Prefixes |-> 0]
  /\ accounts = [i \in Ids |-> NoAccount]
  /\ dealers = [d \in Dealers |-> "absent"]
  /\ client = [c \in Clients |-> Idle]
  /\ edits = 0

(* Product rules.                                                          *)

\* Mutant of LoadForRule: the rules that are there are not kept.
LoadForRuleAlone(c, p) ==
  /\ Begin(c, [Idle EXCEPT !.op = "rules", !.at = "delete", !.about = {p},
                           !.list = [q \in Prefixes |-> IF q = p THEN edits + 1 ELSE 0]])
  /\ UNCHANGED <<rules, accounts, dealers>>

\* upsert_product_library: a request of an administrator, or a query that
\* learnt the product of a prefix.
LoadForRule(c, p) ==
  /\ Begin(c, [Idle EXCEPT !.op = "rules", !.at = "delete", !.about = {p},
                           !.list = [rules EXCEPT ![p] = edits + 1]])
  /\ UNCHANGED <<rules, accounts, dealers>>

LoadForRuleDeletion(c, p) ==
  /\ p \in RuleKeys
  /\ Begin(c, [Idle EXCEPT !.op = "rules", !.at = "delete", !.about = {p},
                           !.list = [rules EXCEPT ![p] = 0]])
  /\ UNCHANGED <<rules, accounts, dealers>>

\* replace_product_rules begins.
DeleteRules(c) ==
  /\ client[c].op = "rules" /\ client[c].at = "delete"
  /\ Goes(c, [client[c] EXCEPT !.at = "insert", !.seen = RuleKeys])
  /\ UNCHANGED <<rules, accounts, dealers, edits>>

\* It inserts the list and commits, unless a key is taken.
ReplaceRules(c) ==
  LET list == client[c].list
      left == RuleKeys \ client[c].seen
  IN
  /\ client[c].op = "rules" /\ client[c].at = "insert"
  /\ \A p \in left : list[p] = 0
  /\ rules' = [p \in Prefixes |-> IF p \in left THEN rules[p] ELSE list[p]]
  /\ Wrote(c, Idle, {p \in Prefixes : rules[p] # rules'[p]}, client[c].seen)
  /\ UNCHANGED <<accounts, dealers, edits>>

(* Accounts.  list maps ids to usernames; list_accounts gives no hashes.   *)

Listed == [i \in Ids |-> accounts[i].name]

\* api_accounts_save, api_accounts_delete and every request of a user who is
\* logged in (current_account) load the accounts;
\* an empty table is given its default administrator first.
LoadAccounts(c) ==
  /\ Begin(c, [Idle EXCEPT !.op = "accounts", !.edit = edits + 1,
                           !.at = IF AccountKeys = {} THEN "seed" ELSE "loaded",
                           !.list = IF AccountKeys = {} THEN [i \in Ids |-> IF i = Admin THEN Admin ELSE NoName]
                                    ELSE Listed])
  /\ UNCHANGED <<rules, accounts, dealers>>

\* After seeding, the accounts are listed again.
ReloadAccounts(c) ==
  /\ client[c].op = "accounts" /\ client[c].at = "reload"
  /\ Goes(c, [client[c] EXCEPT !.at = "loaded", !.list = Listed, !.stale = {}])
  /\ UNCHANGED <<rules, accounts, dealers, edits>>

\* A request that only looks for its own account is done.
UseAccounts(c) ==
  /\ client[c].op = "accounts" /\ client[c].at = "loaded"
  /\ Goes(c, Idle)
  /\ UNCHANGED <<rules, accounts, dealers, edits>>

\* An existing account gets a username, with a new password or without.
EditAccount(c, i, name, withPassword) ==
  /\ client[c].op = "accounts" /\ client[c].at = "loaded"
  /\ client[c].list[i] # NoName
  /\ Goes(c, [client[c] EXCEPT !.at = "hashes", !.list[i] = name, !.about = {i},
                               !.given = IF withPassword THEN <<i, client[c].edit>> ELSE NoSecret])
  /\ UNCHANGED <<rules, accounts, dealers, edits>>

\* A new account gets an id of its own.
AddAccount(c, i, name) ==
  /\ client[c].op = "accounts" /\ client[c].at = "loaded"
  /\ client[c].list[i] = NoName /\ accounts[i] = NoAccount
  /\ \A d \in Clients : client[d].op = "accounts" => client[d].list[i] = NoName
  /\ \A j \in Ids : client[c].list[j] # name
  /\ Goes(c, [client[c] EXCEPT !.at = "hashes", !.list[i] = name, !.about = {i},
                               !.given = <<i, client[c].edit>>])
  /\ UNCHANGED <<rules, accounts, dealers, edits>>

\* Mutant of RemoveAccount: the administrator can be deleted.
RemoveAccountAny(c, i) ==
  /\ client[c].op = "accounts" /\ client[c].at = "loaded"
  /\ Goes(c, [client[c] EXCEPT !.at = "hashes", !.list[i] = NoName, !.about = {i}])
  /\ UNCHANGED <<rules, accounts, dealers, edits>>

RemoveAccount(c, i) ==
  /\ client[c].op = "accounts" /\ client[c].at = "loaded"
  /\ i # Admin
  /\ Goes(c, [client[c] EXCEPT !.at = "hashes", !.list[i] = NoName, !.about = {i}])
  /\ UNCHANGED <<rules, accounts, dealers, edits>>

\* replace_accounts reads the hashes that are there, by username.
HashOf(name) == IF \E i \in Ids : accounts[i].name = name
                THEN (CHOOSE r \in {accounts[i] : i \in Ids} : r.name = name).secret ELSE NoSecret

ReadHashes(c) ==
  /\ client[c].op = "accounts" /\ client[c].at = "hashes"
  /\ Goes(c, [client[c] EXCEPT !.at = "delete", !.hash = [n \in Names |-> HashOf(n)]])
  /\ UNCHANGED <<rules, accounts, dealers, edits>>

DeleteAccounts(c) ==
  /\ client[c].op = "accounts" /\ client[c].at \in {"delete", "seed"}
  /\ Goes(c, [client[c] EXCEPT !.at = IF @ = "seed" THEN "seeding" ELSE "insert", !.seen = AccountKeys])
  /\ UNCHANGED <<rules, accounts, dealers, edits>>

\* The row of account i that client c inserts: a password that was given, or
\* the hash its username had.
Inserted(c, i) ==
  IF client[c].list[i] = NoName THEN NoAccount
  ELSE [name |-> client[c].list[i],
        secret |-> IF client[c].at = "seeding" THEN <<Admin, 0>>
                   ELSE IF client[c].given # NoSecret /\ i \in client[c].about THEN client[c].given
                   ELSE client[c].hash[client[c].list[i]]]

\* Mutant of Replaceable: usernames need not be unique.
ReplaceableById(c) ==
  LET left == AccountKeys \ client[c].seen
      rows == [i \in Ids |-> Inserted(c, i)]
      new == {i \in Ids : rows[i] # NoAccount}
  IN left \cap new = {} /\ \A i \in new : rows[i].secret # NoSecret

\* Mutant of Replaceable: an account without a password is stored.
ReplaceableBlank(c) ==
  LET left == AccountKeys \ client[c].seen
      rows == [i \in Ids |-> Inserted(c, i)]
      new == {i \in Ids : rows[i] # NoAccount}
  IN /\ left \cap new = {}
     /\ \A i \in new : \A j \in new \ {i} : rows[i].name # rows[j].name
     /\ \A i \in new, j \in left : rows[i].name # accounts[j].name

\* The INSERTs succeed: every account has a password, and neither an id nor a
\* username is taken.
Replaceable(c) ==
  LET left == AccountKeys \ client[c].seen
      rows == [i \in Ids |-> Inserted(c, i)]
      new == {i \in Ids : rows[i] # NoAccount}
  IN /\ left \cap new = {} /\ \A i \in new : rows[i].secret # NoSecret
     /\ \A i \in new : \A j \in new \ {i} : rows[i].name # rows[j].name
     /\ \A i \in new, j \in left : rows[i].name # accounts[j].name

ReplaceAccounts(c) ==
  LET left == AccountKeys \ client[c].seen IN
  /\ client[c].op = "accounts" /\ client[c].at \in {"insert", "seeding"}
  /\ Replaceable(c)
  /\ accounts' = [i \in Ids |-> IF i \in left THEN accounts[i] ELSE Inserted(c, i)]
  /\ Wrote(c, IF client[c].at = "seeding" THEN [client[c] EXCEPT !.at = "reload", !.seen = {}] ELSE Idle,
           {i \in Ids : accounts[i] # accounts'[i]}, client[c].seen)
  /\ UNCHANGED <<rules, dealers, edits>>

(* Distributors.                                                           *)

Hidden == {d \in Dealers : dealers[d] = "hidden"}
Shown == {d \in Dealers : dealers[d] = "shown"}
UpTo(max, S) == {T \in SUBSET S : Cardinality(T) = IF Cardinality(S) < max THEN Cardinality(S) ELSE max}

\* delete_distributor_history: one UPDATE.
HideDealer(c, d) ==
  /\ client[c].at = "idle" /\ edits < MaxEdits
  /\ edits' = edits + 1
  /\ d \in Shown
  /\ dealers' = [dealers EXCEPT ![d] = "hidden"]
  /\ Wrote(c, Idle, {d}, {})
  /\ UNCHANGED <<rules, accounts>>

\* save_distributor_history, of one, and import_distributor_history_many, of
\* several: what is deleted and not among them is loaded.
LoadHidden(c, S) ==
  /\ Begin(c, [Idle EXCEPT !.op = "save", !.at = "restore", !.about = S, !.list = Hidden \ S])
  /\ UNCHANGED <<rules, accounts, dealers>>

\* set_deleted_distributors clears all flags and sets those of the list, cut
\* to its bound.
RestoreDealers(c) ==
  /\ client[c].op = "save" /\ client[c].at = "restore"
  /\ \E kept \in UpTo(MaxHidden, client[c].list) :
       dealers' = [d \in Dealers |-> IF d \in kept THEN "hidden"
                                     ELSE IF d \in Hidden THEN "shown" ELSE dealers[d]]
  /\ Wrote(c, [client[c] EXCEPT !.at = "load", !.stale = {}],
           {d \in Dealers : dealers[d] # dealers'[d]}, {})
  /\ UNCHANGED <<rules, accounts, edits>>

\* Mutant of LoadKnown: dealers found in query results are shown although
\* they were deleted.
LoadKnownAll(c, S) ==
  /\ Begin(c, [Idle EXCEPT !.op = "list", !.at = "load", !.list = S])
  /\ UNCHANGED <<rules, accounts, dealers>>

\* combined_distributor_history: the dealers S of the query results, without
\* those that are deleted now, which are in about.
LoadKnown(c, S) ==
  /\ Begin(c, [Idle EXCEPT !.op = "list", !.at = "load", !.about = Hidden, !.list = S \ Hidden])
  /\ UNCHANGED <<rules, accounts, dealers>>

\* load_distributor_history: what is shown now joins the list, which is cut,
\* the named ones first.
LoadShown(c) ==
  LET named == IF client[c].op = "save" THEN client[c].about ELSE client[c].list
      others == IF client[c].op = "save" THEN Shown \ named ELSE Shown \ (named \cup client[c].about) IN
  /\ client[c].op \in {"save", "list"} /\ client[c].at = "load"
  /\ \E first \in UpTo(MaxShown, named) :
       \E rest \in UpTo(MaxShown - Cardinality(first), others) :
         Goes(c, [client[c] EXCEPT !.at = "show", !.list = first \cup rest,
                                   !.stale = IF client[c].op = "list" THEN @ ELSE {}])
  /\ UNCHANGED <<rules, accounts, dealers, edits>>

\* upsert_distributors clears the flag of each.
ShowDealers(c) ==
  /\ client[c].op \in {"save", "list"} /\ client[c].at = "show"
  /\ dealers' = [d \in Dealers |-> IF d \in client[c].list THEN "shown" ELSE dealers[d]]
  /\ Wrote(c, Idle, {d \in Dealers : dealers[d] # dealers'[d]}, {})
  /\ UNCHANGED <<rules, accounts, edits>>

\* A call raises, a key is taken, a deadlock is broken, a process ends: what
\* was committed stays.
Raise(c) ==
  /\ client[c].at # "idle"
  /\ Goes(c, Idle)
  /\ UNCHANGED <<rules, accounts, dealers, edits>>

Terminating ==
  /\ edits = MaxEdits /\ \A c \in Clients : client[c].at = "idle"
  /\ UNCHANGED vars

ClientStep(c) ==
  \/ \E p \in Prefixes : LoadForRule(c, p) \/ LoadForRuleDeletion(c, p)
  \/ DeleteRules(c) \/ ReplaceRules(c)
  \/ LoadAccounts(c) \/ ReloadAccounts(c) \/ UseAccounts(c)
  \/ \E i \in Ids, name \in Names, withPassword \in BOOLEAN : EditAccount(c, i, name, withPassword)
  \/ \E i \in Ids, name \in Names : AddAccount(c, i, name)
  \/ \E i \in Ids : RemoveAccount(c, i)
  \/ ReadHashes(c) \/ DeleteAccounts(c) \/ ReplaceAccounts(c)
  \/ \E d \in Dealers : HideDealer(c, d)
  \/ \E S \in SUBSET Dealers \ {{}} : LoadHidden(c, S)
  \/ RestoreDealers(c)
  \/ \E S \in SUBSET Dealers : LoadKnown(c, S)
  \/ LoadShown(c) \/ ShowDealers(c)
  \/ Raise(c)

Next == (\E c \in Clients : ClientStep(c)) \/ Terminating

Spec == Init /\ [][Next]_vars

-----------------------------------------------------------------------------

Secrets == (Ids \X (0 .. edits))

\* What each variable holds: an account in the table has a password.
TypeOK ==
  /\ edits \in 0 .. MaxEdits
  /\ rules \in [Prefixes -> 0 .. edits]
  /\ \A i \in Ids : accounts[i] = NoAccount \/ accounts[i] \in [name : Names, secret : Secrets]
  /\ dealers \in [Dealers -> {"absent", "shown", "hidden"}]
  /\ \A c \in Clients :
       /\ client[c].op \in {"none", "rules", "accounts", "save", "list"}
       /\ client[c].seen \subseteq Prefixes \cup Ids
       /\ client[c].stale \subseteq Prefixes \cup Ids \cup Dealers

AdministratorStays == AccountKeys # {} => Admin \in AccountKeys
SecretsDistinct ==
  \A i, j \in AccountKeys : i # j => /\ accounts[i].secret # accounts[j].secret
                                    /\ accounts[i].name # accounts[j].name

\* Whatever replacements overlap, are seeded from an empty table or fail half
\* way, a table with accounts has the default administrator, who can repair
\* the others (deleting it is refused before the table is loaded), and two
\* accounts never have one password hash, although a row is given its hash by
\* username, after a rename and from a table others have changed since the
\* usernames were listed.  (A renamed account may take over the hash of one
\* that vanishes in the same transaction.)
AccountsSound == AdministratorStays /\ SecretsDistinct

\* A replacement changes the rows its client edited, and no others but those
\* that somebody else wrote after its list was loaded: a rule or an account is
\* lost to a stale list only.
FreshReplacementsKeepRows ==
  [][\A c \in Clients :
       client[c].at \in {"insert", "seeding"} /\ client'[c].at \in {"idle", "reload"} =>
         /\ \A p \in RuleKeys : rules'[p] # rules[p] => p \in client[c].about \cup client[c].stale
         /\ \A i \in AccountKeys :
              accounts'[i] # accounts[i] => i \in client[c].about \cup client[c].stale]_vars

\* A deleted distributor is offered again only when somebody names it in a
\* transfer or an import, when it was deleted after the writer had read the
\* list, or when more are deleted than a restore keeps.
HiddenReappearsOnPurpose ==
  [][\A c \in Clients, d \in Dealers :
       /\ d \in Hidden /\ dealers'[d] = "shown"
       /\ client[c].at \in {"restore", "show"} /\ client'[c].at # client[c].at
       => \/ client[c].op = "save" /\ d \in client[c].about
          \/ d \in client[c].stale
          \/ client[c].at = "restore" /\ Cardinality(client[c].list) > MaxHidden]_vars

=============================================================================
