----------------------------- MODULE Customers ------------------------------
(***************************************************************************)
(* Customers: the registry with its duplicates, merges and companions,     *)
(* erasure on request, and the sealing of passports under keys that are    *)
(* rotated.  Modelled code: src/internal/app/customer/service.go,          *)
(* src/internal/app/privacy/service.go,                                    *)
(* src/internal/app/dataprotection/service.go, their stores under          *)
(* src/internal/adapter/postgres/ and src/internal/domain/shared/pii.go.   *)
(*                                                                         *)
(* Update and Merge read outside their transaction: a desk keeps what it   *)
(* has read.  The backfill writes a row only if it is as it was read.      *)
(***************************************************************************)
EXTENDS Rows, Sequences, SequencesExt, FiniteSetsExt

CONSTANTS CustIds,       \* ids of customers
          MaxCustWork,   \* edits, merges and erasures explored
          LastKey        \* keys the cipher has had: the last is the active one

VARIABLES
    custs,               \* customers: id -> row
    companions,          \* customer_companions: set of pairs
    custBookings,        \* a booking's customer and whether it is closed
    custWork,            \* work begun so far
    activeKey,           \* the key new values are sealed under
    custDesk,            \* desk -> what it has read and is about to write
    custSeen,            \* history: last passport written, late edits, crossed merges, reveals
    custAnswer           \* one question to the registry and its answer

registryVars == <<custs, companions, custBookings, custWork, activeKey, custDesk, custSeen>>
customerVars == <<registryVars, custAnswer>>

-----------------------------------------------------------------------------
(* Passports.  As typed: with blanks, masked, or not at all.               *)
Passports == {"", "P1", "P2"}
PassportInputs == Passports \cup {"p 1", "masked", "none"}
NormalizePassport(p) == IF p = "p 1" THEN "P1" ELSE p
IsMaskedPassport(p) == p = "masked"
PassportUpdate(current, p) == IF p = "none" \/ IsMaskedPassport(p) THEN current ELSE NormalizePassport(p)
(* A stored passport: the old plain column, or sealed under a key with a   *)
(* blind index to look it up by.                                           *)
SealPassport(plain) ==
    LET n == NormalizePassport(plain) IN [legacy |-> "", key |-> IF n = "" THEN 0 ELSE activeKey, value |-> n, hash |-> n]
OpenPassport(stored) == IF stored.legacy # "" \/ stored.key = 0 THEN stored.legacy ELSE stored.value
HashPassport(plain) == NormalizePassport(plain)

-----------------------------------------------------------------------------
(* Rows.                                                                   *)
Placeholder == "anonymized"
CustNames == {"ann", "bob"}
InsertCustomer(id, row) == custs' = [custs EXCEPT ![id] = row]
FindCustomer(id) == {row \in {custs[id]} : row # NoRow}
Searchable(id) == custs[id] # NoRow /\ custs[id].merged = NoRow /\ custs[id].active
SearchCustomers(includeMerged) == IF includeMerged THEN Present(custs) ELSE {id \in CustIds : Searchable(id)}
FindByPassport(plain) == {id \in CustIds : Searchable(id) /\ plain # "" /\ (custs[id].pass.hash = HashPassport(plain) \/ NormalizePassport(custs[id].pass.legacy) = HashPassport(plain))}
FindNameCandidates(name) == {id \in CustIds : Searchable(id) /\ custs[id].name = name}
FindDuplicates(name, passport) == FindByPassport(passport) \cup FindNameCandidates(name)

CustWork == custWork < MaxCustWork /\ custWork' = custWork + 1
NewCustomer(name, stored) == [name |-> name, pass |-> stored, active |-> TRUE, merged |-> NoRow, anon |-> FALSE]
CreateCustomer(names, passports) ==
    /\ CustWork
    /\ \E id \in Fresh(custs), name \in names, p \in passports \ {"none", "masked"} :
        /\ InsertCustomer(id, NewCustomer(name, SealPassport(p)))
        /\ custSeen' = [custSeen EXCEPT !.passport[id] = NormalizePassport(p)]
    /\ UNCHANGED <<companions, custBookings, activeKey, custDesk>>
(* Rows from before the columns were sealed.  Sealing looks at one row.    *)
LegacyCustomer ==
    /\ CustWork
    /\ \E id \in Fresh(custs), p \in {"P1", "p 1"} :
        /\ InsertCustomer(id, NewCustomer("ann", [legacy |-> p, key |-> 0, value |-> "", hash |-> ""]))
        /\ custSeen' = [custSeen EXCEPT !.passport[id] = NormalizePassport(p)]
    /\ UNCHANGED <<companions, custBookings, activeKey, custDesk>>
(* The copy is read and changed before the transaction that writes it.     *)
UpdateCustomerRead(d, names, passports) ==
    /\ custDesk[d] = Free /\ CustWork
    /\ \E id \in CustIds, name \in names, p \in passports : \E row \in FindCustomer(id) :
        /\ row.merged = NoRow
        /\ custDesk' = [custDesk EXCEPT ![d] = [op |-> "update", id |-> id, name |-> name, active |-> row.active, anon |-> row.anon,
                                                 passport |-> PassportUpdate(OpenPassport(row.pass), p)]]
    /\ UNCHANGED <<custs, companions, custBookings, activeKey, custSeen>>
UpdateCustomerWrite(d) ==
    /\ custDesk[d].op = "update"
    /\ LET t == custDesk[d]
           row == custs[t.id]
       IN  /\ InsertCustomer(t.id, [row EXCEPT !.name = t.name, !.active = t.active, !.pass = SealPassport(t.passport)])
           /\ custSeen' = [custSeen EXCEPT !.passport[t.id] = NormalizePassport(t.passport),
                !.edited = IF row.anon THEN @ \cup {t.id} ELSE @, !.late = IF row.anon /\ ~t.anon THEN @ \cup {t.id} ELSE @]
    /\ custDesk' = [custDesk EXCEPT ![d] = Free]
    /\ UNCHANGED <<companions, custBookings, custWork, activeKey>>

-----------------------------------------------------------------------------
(* Companions are linked both ways; a link refuses to be of one customer   *)
(* with himself.                                                           *)
LinkRow(c, e) == c # e
LinkCompanion ==
    /\ CustWork
    /\ \E c, e \in Present(custs) : LinkRow(c, e) /\ companions' = companions \cup {<<c, e>>, <<e, c>>}
    /\ UNCHANGED <<custs, custBookings, activeKey, custDesk, custSeen>>
UnlinkCompanion ==
    /\ \E c, e \in CustIds : {<<c, e>>, <<e, c>>} \cap companions # {} /\ companions' = companions \ {<<c, e>>, <<e, c>>}
    /\ UNCHANGED <<custs, custBookings, custWork, activeKey, custDesk, custSeen>>
ListCompanions(c) == {e \in CustIds : <<c, e>> \in companions}
ReassignBookings(from, to) == [b \in DOMAIN custBookings |-> IF custBookings[b].cust = from THEN [custBookings[b] EXCEPT !.cust = to] ELSE custBookings[b]]
MarkMerged(from, to) == custs' = [custs EXCEPT ![from] = [@ EXCEPT !.merged = to, !.active = FALSE]]
MergeRead(d) ==
    /\ custDesk[d] = Free /\ CustWork
    /\ \E from, to \in Present(custs) :
        /\ from # to /\ custs[to].merged = NoRow
        /\ custDesk' = [custDesk EXCEPT ![d] = [op |-> "merge", from |-> from, to |-> to]]
    /\ UNCHANGED <<custs, companions, custBookings, activeKey, custSeen>>
(* A link of the survivor with itself breaks the whole transaction.        *)
MergeWrite(d) ==
    /\ custDesk[d].op = "merge"
    /\ LET from == custDesk[d].from
           to == custDesk[d].to
           moved == ListCompanions(from)
       IN  IF \A e \in moved : LinkRow(to, e)
           THEN /\ custBookings' = ReassignBookings(from, to)
                /\ companions' = (companions \cup {<<to, e>> : e \in moved}) \ {<<from, e>> : e \in moved}
                /\ MarkMerged(from, to)
                /\ custSeen' = [custSeen EXCEPT !.crossed = @ \/ custs[to].merged # NoRow, !.merged = @ \cup {from, to}]
           ELSE UNCHANGED <<custs, companions, custBookings, custSeen>>
    /\ custDesk' = [custDesk EXCEPT ![d] = Free]
    /\ UNCHANGED <<custWork, activeKey>>
(* A booking is opened for any customer there is, and closed in time.      *)
OpenBooking ==
    /\ CustWork
    /\ \E b \in DOMAIN custBookings, c \in Present(custs) : custBookings[b].cust = NoRow /\ custBookings' = [custBookings EXCEPT ![b] = [cust |-> c, closed |-> FALSE]]
    /\ UNCHANGED <<custs, companions, activeKey, custDesk, custSeen>>
CloseBooking ==
    /\ \E b \in DOMAIN custBookings : custBookings[b].cust # NoRow /\ ~custBookings[b].closed /\ custBookings' = [custBookings EXCEPT ![b].closed = TRUE]
    /\ UNCHANGED <<custs, companions, custWork, activeKey, custDesk, custSeen>>

-----------------------------------------------------------------------------
(* Erasure.                                                                *)
ValidateReason(reason) == reason # "short"
HasActiveBookings(id) == \E b \in DOMAIN custBookings : custBookings[b].cust = id /\ ~custBookings[b].closed
ErasedKeepingHash(row) == [row EXCEPT !.name = Placeholder, !.pass = [legacy |-> "", key |-> 0, value |-> "", hash |-> @.hash], !.active = FALSE, !.anon = TRUE]
Erased(row) == [row EXCEPT !.name = Placeholder, !.pass = [legacy |-> "", key |-> 0, value |-> "", hash |-> ""], !.active = FALSE, !.anon = TRUE]
AnonymizeRows(id) ==
    /\ InsertCustomer(id, Erased(custs[id]))
    /\ companions' = {p \in companions : id \notin {p[1], p[2]}}
Anonymize ==
    /\ CustWork
    /\ \E id \in CustIds, reason \in {"short", "long enough"} : \E row \in FindCustomer(id) :
        /\ ValidateReason(reason) /\ ~row.anon /\ ~HasActiveBookings(id)
        /\ AnonymizeRows(id)
        /\ custSeen' = [custSeen EXCEPT !.passport[id] = "", !.edited = @ \ {id}]
    /\ UNCHANGED <<custBookings, activeKey, custDesk>>

-----------------------------------------------------------------------------
(* Keys are rotated; the backfill opens every row that is plain or sealed  *)
(* under an older key and seals it again, if it is still what it read.     *)
RotateKey ==
    /\ activeKey < LastKey /\ activeKey' = activeKey + 1
    /\ UNCHANGED <<custs, companions, custBookings, custWork, custDesk, custSeen>>
NeedsSealing(stored, rehash) == stored.legacy # "" \/ (stored.key # 0 /\ (stored.key # activeKey \/ rehash))
StillRight(stored) == stored.legacy = "" /\ stored.key = activeKey /\ stored.hash = HashPassport(OpenPassport(stored))
ResealRead(d) ==
    /\ custDesk[d] = Free
    /\ \E id \in Present(custs), rehash \in BOOLEAN :
        /\ NeedsSealing(custs[id].pass, rehash) /\ ~StillRight(custs[id].pass)
        /\ custDesk' = [custDesk EXCEPT ![d] = [op |-> "reseal", id |-> id, was |-> custs[id].pass]]
    /\ UNCHANGED <<custs, companions, custBookings, custWork, activeKey, custSeen>>
ResealMatches(stored, was) == stored.legacy = was.legacy /\ stored.key = was.key /\ stored.value = was.value
ResealWrite(d) ==
    /\ custDesk[d].op = "reseal"
    /\ LET t == custDesk[d]
       IN  IF ResealMatches(custs[t.id].pass, t.was)
           THEN InsertCustomer(t.id, [custs[t.id] EXCEPT !.pass = SealPassport(OpenPassport(t.was))])
           ELSE UNCHANGED custs
    /\ custDesk' = [custDesk EXCEPT ![d] = Free]
    /\ UNCHANGED <<companions, custBookings, custWork, activeKey, custSeen>>

-----------------------------------------------------------------------------
(* Names are compared word by word; a score is a percentage.               *)
Words == {"al", "ali", "omar"}
SharePrefix(a, b) == Head(a) = Head(b) \/ {Head(a), Head(b)} = {"al", "ali"}
NameSimilarity(a, b) ==
    IF a = <<>> \/ b = <<>> THEN 0 ELSE IF a = b THEN 100
    ELSE LET hit == Cardinality({i \in DOMAIN a : a[i] \in Range(b)})
             score == (hit * 100) \div Max({Len(a), Len(b)})
         IN  Min({100, IF SharePrefix(a, b) /\ score < 60 THEN score + 15 ELSE score})
NamesAsked == {<<>>} \cup {<<w>> : w \in Words} \cup {<<v, w>> : v \in Words, w \in Words}
(* A mask shows no more than the last four of a longer number.             *)
PassportLast4(length) == IF length <= 4 THEN 0 ELSE 4
MaskedPassport(length) == IF length = 0 THEN "" ELSE "masked"
(* A blank national id keeps the one that is stored.                       *)
KeepNationalID(stored, typed) == IF typed = "" THEN stored ELSE typed
(* Secrets of an integration or of the assistant: what a change leaves.    *)
SecretKeys == {"api_key", "token"}
SecretMaps == UNION {[S -> {"", "s1", "s2"}] : S \in SUBSET SecretKeys}
ApplySecretChanges(current, incoming) ==
    LET kept == (DOMAIN current \ DOMAIN incoming) \cup {k \in DOMAIN incoming : incoming[k] # ""}
    IN  [k \in kept |-> IF k \in DOMAIN incoming THEN incoming[k] ELSE current[k]]
AskRegistry ==
    /\ custAnswer = Free
    /\ \/ \E a, b \in NamesAsked : custAnswer' = [op |-> "names", in |-> <<a, b>>, out |-> NameSimilarity(a, b)]
       \/ \E length \in 0 .. 6 : custAnswer' = [op |-> "mask", in |-> length, out |-> [shown |-> PassportLast4(length), text |-> MaskedPassport(length)]]
       \/ \E stored \in {"", "n1"}, typed \in {"", "n2"} : custAnswer' = [op |-> "national", in |-> <<stored, typed>>, out |-> KeepNationalID(stored, typed)]
       \/ \E current \in SecretMaps, incoming \in SecretMaps :
            (\A k \in DOMAIN current : current[k] # "") /\ custAnswer' = [op |-> "secrets", in |-> <<current, incoming>>, out |-> ApplySecretChanges(current, incoming)]
    /\ UNCHANGED registryVars

-----------------------------------------------------------------------------
CustomersInit ==
    /\ custs = [i \in CustIds |-> NoRow] /\ companions = {} /\ custBookings = [b \in {1} |-> [cust |-> NoRow, closed |-> FALSE]]
    /\ custWork = 0 /\ activeKey = 1 /\ custDesk = [d \in Desks |-> Free] /\ custAnswer = Free
    /\ custSeen = [passport |-> [i \in CustIds |-> ""], edited |-> {}, late |-> {}, merged |-> {}, crossed |-> FALSE]
RegistryNext ==
    /\ \/ CreateCustomer(CustNames, {""}) \/ LinkCompanion \/ UnlinkCompanion \/ OpenBooking \/ CloseBooking \/ Anonymize
       \/ \E d \in Desks : UpdateCustomerRead(d, CustNames, {"none"}) \/ UpdateCustomerWrite(d) \/ MergeRead(d) \/ MergeWrite(d)
    /\ UNCHANGED custAnswer
SealingNext ==
    /\ \/ Present(custs) = {} /\ (CreateCustomer({"ann"}, PassportInputs) \/ LegacyCustomer)
       \/ Anonymize \/ RotateKey
       \/ \E d \in Desks : UpdateCustomerRead(d, {"bob"}, PassportInputs) \/ UpdateCustomerWrite(d) \/ ResealRead(d) \/ ResealWrite(d)
    /\ UNCHANGED custAnswer

-----------------------------------------------------------------------------
(* Types.                                                                  *)
StoredPassport == [legacy : {"", "P1", "p 1"}, key : Nat, value : Passports, hash : Passports]
CustRow == [name : CustNames \cup {Placeholder}, pass : StoredPassport, active : BOOLEAN,
            merged : CustIds \cup {NoRow}, anon : BOOLEAN]
(* What stands for none is no id and no row; a cipher has had a key.       *)
ASSUME CustomersAssumption == NoRow \notin CustIds \cup CustRow /\ MaxCustWork \in Nat /\ LastKey \in Nat \ {0}

CustomersTypeOK ==
    /\ \A i \in Present(custs) : custs[i] \in CustRow /\ custs[i].pass.key <= activeKey
    /\ companions \subseteq CustIds \X CustIds /\ custWork \in 0 .. MaxCustWork /\ activeKey \in 1 .. LastKey
    /\ \A d \in Desks : custDesk[d].op \in {"free", "update", "merge", "reseal"}
    /\ \A b \in DOMAIN custBookings : custBookings[b].cust \in CustIds \cup {NoRow}
    /\ custAnswer.op \in {"free", "names", "mask", "national", "secrets"}

(* Whatever is sealed again, rotated and edited at the same time, a        *)
(* customer's passport opens to the one written last: the backfill neither *)
(* loses it nor brings an older one back, and it is found by it.           *)
PassportKept ==
    \A i \in Present(custs) : /\ NormalizePassport(OpenPassport(custs[i].pass)) = custSeen.passport[i]
                              /\ (custSeen.passport[i] # "" /\ Searchable(i)) => i \in FindByPassport(custSeen.passport[i])
(* A customer merged away is in no search and no list of duplicates, also  *)
(* when a copy read before the merge is written back as active; and unless *)
(* two merges crossed, following the merges never goes round: it leaves    *)
(* every set of merged customers, so ends at one who stands.               *)
MergedStaysHidden ==
    /\ \A i \in Present(custs) : custs[i].merged # NoRow =>
        \A name \in CustNames, p \in Passports : i \notin SearchCustomers(FALSE) \cup FindDuplicates(name, p)
    /\ ~custSeen.crossed => \A S \in (SUBSET Present(custs)) \ {{}} :
        \E i \in S : custs[i].merged \notin S
(* An erased customer shows no name and no passport, leaves no hash of one *)
(* to match, and is in no search, unless somebody wrote the row            *)
(* afterwards; only a copy read before the erasure makes it show up again. *)
ErasedStaysErased ==
    \A i \in Present(custs) : custs[i].anon =>
        /\ i \notin custSeen.edited => (custs[i].name = Placeholder /\ OpenPassport(custs[i].pass) = "" /\ custs[i].pass.hash = "")
        /\ i \notin custSeen.late => i \notin SearchCustomers(FALSE)
(* Nobody is his own companion, and a link that is not returned was left   *)
(* by a merge.                                                             *)
CompanionsMutual ==
    \A p \in companions : p[1] # p[2] /\ (<<p[2], p[1]>> \in companions \/ {p[1], p[2]} \cap custSeen.merged # {})
(* Scores are symmetric for names without repeated words and reach the top *)
(* only for the same words; masks hide short numbers; a change of secrets  *)
(* leaves no blank one and forgets none it does not name.                  *)
RegistryAnswers ==
    LET in == custAnswer.in
        out == custAnswer.out
    IN  /\ custAnswer.op = "names" =>
            /\ out \in 0 .. 100 /\ (out = 100 => Range(in[1]) \subseteq Range(in[2]))
            /\ (IsInjective(in[1]) /\ IsInjective(in[2])) => NameSimilarity(in[2], in[1]) = out
        /\ custAnswer.op = "mask" => (out.shown > 0 => in > out.shown) /\ (out.text = "") = (in = 0)
        /\ custAnswer.op = "national" => (in[1] # "" => out # "")
        /\ custAnswer.op = "secrets" =>
            /\ \A k \in DOMAIN out : out[k] # ""
            /\ \A k \in DOMAIN in[1] \ DOMAIN in[2] : k \in DOMAIN out /\ out[k] = in[1][k]
(* Neither a merge nor an erasure is ever undone.                          *)
GoneForGood == [][\A i \in Present(custs) : /\ custs[i].merged # NoRow => custs'[i].merged # NoRow
                                            /\ custs[i].anon => custs'[i].anon]_customerVars
=============================================================================
