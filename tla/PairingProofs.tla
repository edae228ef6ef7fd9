---------------------------- MODULE PairingProofs ----------------------------
(* What a ceremony guarantees, for every set of boards and every number of *)
(* contacts, offers and mishaps.                                           *)
EXTENDS Pairing, WellFoundedInduction, TLAPS

Roles == {"L", "R"}

Roots == [dh : SUBSET Nat, t : Offers \X Offers]

Contacts == [peer : Boards, root : Roots, role : Roles]

\* The root of two offers.
Root(o, q) == DeriveRoot({o.eph, q.eph}, TranscriptT(o, q))

\* The proof that the maker of offer o shows to the maker of offer q.
ProofOf(o, q) ==
    ProofRecord(TranscriptT(o, q), RoleFor(o.ed, q.ed), o.ed,
                [root |-> Root(o, q), out |-> RoleFor(o.ed, q.ed)])

\* The confirmation of the maker of o for q, over the proofs it had then: its own for
\* an offer q1, and that of an offer q2 for its own.
ConfirmOf(o, q, q1, q2) ==
    Confirmation(TranscriptT(o, q), RoleFor(o.ed, q.ed),
                 Ordered(RoleFor(o.ed, q.ed), ProofOf(o, q1), ProofOf(q2, o)), Root(o, q))

\* The offers of other boards than the one that made o.
Others(o) == { q \in Offers : q.ed /= o.ed }

\* Every record shown was made as the code makes it; an offer's key is above n, the
\* offers left to make.
RecordOk(r, n) ==
    \/ \E o \in Offers : r = OfferRecord(o) /\ o.eph > n
    \/ \E o \in Offers : \E q \in Others(o) : r = ProofOf(o, q)
    \/ \E o \in Offers : \E q, q1, q2 \in Others(o) : r = ConfirmOf(o, q, q1, q2)

\* A ceremony's fields fit one another; the proofs may be those of an offer replaced since.
CeremonyOk(b, p, n) ==
    /\ p.own.ed = b /\ p.own.eph > n
    /\ p.t /= None =>
          /\ p.peer \in Others(p.own) /\ p.peer.eph > n
          /\ p.t = TranscriptT(p.own, p.peer) /\ p.role = RoleFor(b, p.peer.ed)
    /\ p.own_proof /= None => \E q \in Others(p.own) : p.own_proof = ProofOf(p.own, q)
    /\ p.peer_proof /= None => \E q \in Others(p.own) : p.peer_proof = ProofOf(q, p.own)

\* A contact came out of the ceremony of two offers, and the peer confirmed both proofs.
ContactOk(b, c, n, shown) ==
    \E o \in Offers : \E q \in Others(o) :
        /\ o.ed = b /\ o.eph > n /\ q.eph > n
        /\ c = [peer |-> q.ed, root |-> Root(o, q), role |-> RoleFor(b, q.ed)]
        /\ ConfirmOf(q, o, o, o) \in shown

PendingPairs(shown) ==
    [own : Offers, peer : {None} \union Offers, t : {None} \union (Offers \X Offers),
     role : Roles, own_proof : {None} \union shown, peer_proof : {None} \union shown,
     own_confirm : {None} \union shown, slot : Slots, expired : BOOLEAN]

\* What the types are, as far as the steps on functions and records need them.
Shape ==
    /\ pending \in [Boards -> {None} \union PendingPairs(records)]
    /\ contacts \in [Boards -> [Slots -> {None} \union Contacts]]
    /\ flash \in [Boards -> [Slots -> {None} \union Contacts]]
    /\ staged \in [Boards -> {"clean", "PairActivate", "other"}]
    /\ left \in [boards : SUBSET Boards, offers : Nat, mishaps : Nat]

RecordsOk == \A r \in records : RecordOk(r, left.offers)

CeremoniesOk == \A b \in Boards : pending[b] /= None => CeremonyOk(b, pending[b], left.offers)

\* Every contact of a board in a table of contacts, in RAM or on flash.
TableOk(table, n, shown) ==
    \A b \in Boards, s \in Slots : table[b][s] /= None => ContactOk(b, table[b][s], n, shown)

ContactsOk == TableOk(contacts, left.offers, records) /\ TableOk(flash, left.offers, records)

\* Everything that was shown, is pending or is stored is what the code makes.
Sound == Shape /\ RecordsOk /\ CeremoniesOk /\ ContactsOk

-----------------------------------------------------------------------------

\* A root made from an offer.
From(root, o) == root.t[1] = o \/ root.t[2] = o

Taken(table, b) == { s \in Slots : table[b][s] /= None }

\* The roots a board has used.
Used(b) == durable[b] \union { contacts[b][s].root : s \in Taken(contacts, b) }

\* Until a ceremony activates its contact, its slot is free, its peer no contact, and no
\* root was made from its offer.
Open(b) ==
    pending[b] /= None /\ staged[b] /= "PairActivate" /\ b \notin fault =>
        /\ contacts[b][pending[b].slot] = None
        /\ pending[b].t /= None =>
              \A s \in Taken(contacts, b) : contacts[b][s].peer /= pending[b].peer.ed
        /\ \A root \in Used(b) : ~From(root, pending[b].own)

\* No root is made from an offer yet to come.
Spent(b) == \A root \in Used(b) : root.t[1].eph > left.offers /\ root.t[2].eph > left.offers

Kept(b) == \A s \in Taken(flash, b) : flash[b][s].root \in durable[b]

Distinct(table, b) ==
    \A s, u \in Taken(table, b) : s /= u => table[b][s].peer /= table[b][u].peer

FirstTime(b) == \A a \in activated[b] : a.over = None /\ ~a.again

Exclusive ==
    /\ durable \in [Boards -> SUBSET Roots] /\ DOMAIN activated = Boards
    /\ \A b \in Boards :
          Open(b) /\ Spent(b) /\ Kept(b) /\ Distinct(contacts, b) /\ Distinct(flash, b) /\ FirstTime(b)

-----------------------------------------------------------------------------
(* Facts about records and slots.                                          *)

\* Both sides of a ceremony compute the same transcript and root, and opposite roles.
LEMMA Symmetric ==
    ASSUME NEW o \in Offers, NEW q \in Others(o)
    PROVE  /\ q \in Offers /\ o \in Others(q)
           /\ TranscriptT(o, q) = TranscriptT(q, o)
           /\ RoleFor(o.ed, q.ed) /= RoleFor(q.ed, o.ed)
           /\ Root(o, q) = Root(q, o)
  <1>1. q \in Offers /\ o \in Others(q)
    BY DEF Others
  <1>2. o.ed \in Nat /\ q.ed \in Nat /\ o.ed /= q.ed
    BY PairingAssumption DEF Others, Offers
  <1>3. TranscriptT(o, q) = TranscriptT(q, o)
    BY <1>2 DEF TranscriptT
  <1>4. RoleFor(o.ed, q.ed) /= RoleFor(q.ed, o.ed)
    BY <1>2 DEF RoleFor
  <1>5. {o.eph, q.eph} = {q.eph, o.eph}
    OBVIOUS
  <1> QED BY <1>1, <1>3, <1>4, <1>5 DEF Root

\* A transcript determines its two offers.
LEMMA TranscriptInjective ==
    ASSUME NEW o \in Offers, NEW q \in Others(o), NEW o1 \in Offers, NEW q1 \in Others(o1),
           TranscriptT(o, q) = TranscriptT(o1, q1)
    PROVE  (o = o1 /\ q = q1) \/ (o = q1 /\ q = o1)
  BY DEF TranscriptT

\* Roles, transcripts, roots and proofs have their types.
LEMMA CeremonyTypes ==
    ASSUME NEW o \in Offers, NEW q \in Others(o)
    PROVE  /\ TranscriptT(o, q) \in Offers \X Offers
           /\ RoleFor(o.ed, q.ed) \in Roles
           /\ Root(o, q) \in Roots
  BY DEF Offers, Others, TranscriptT, RoleFor, Roles, Root, Roots, DeriveRoot

\* Equal proofs are made by one board from one transcript.
LEMMA ProofInjective ==
    ASSUME NEW o \in Offers, NEW q \in Others(o), NEW o1 \in Offers, NEW q1 \in Others(o1),
           ProofOf(o, q) = ProofOf(o1, q1)
    PROVE  o = o1 /\ q = q1
  <1>1. TranscriptT(o, q) = TranscriptT(o1, q1) /\ o.ed = o1.ed
    BY DEF ProofOf, ProofRecord
  <1> QED BY <1>1, TranscriptInjective DEF Others

\* A set of numbers that is not empty has a least member.
LEMMA LeastNumber ==
    ASSUME NEW ns \in SUBSET Nat, ns /= {}
    PROVE  \E n \in ns : \A m \in ns : n <= m
  <1> DEFINE less == { ss \in Nat \X Nat : ss[1] < ss[2] }
  <1>1. IsWellFoundedOn(less, Nat)
    BY NatLessThanWellFounded, Zenon DEF OpToRel
  <1>2. PICK n \in ns : \A m \in ns : ~(<<m, n>> \in less)
    <2> HIDE DEF less
    <2> QED BY <1>1, WFMin
  <1>3. ASSUME NEW m \in ns PROVE n <= m
    <2>1. n \in Nat /\ m \in Nat
      OBVIOUS
    <2>2. m < n => <<m, n>> \in less
      BY <2>1
    <2>3. ~(m < n)
      BY <1>2, <2>2
    <2> QED BY <2>1, <2>3
  <1> QED BY <1>3

\* free_slot finds a free slot if there is one.
LEMMA FirstFreeIsFree ==
    ASSUME NEW b, FreeSlots(b) /= {}
    PROVE  FirstFree(b) \in Slots /\ contacts[b][FirstFree(b)] = None
  <1>1. FreeSlots(b) \in SUBSET Nat
    BY PairingAssumption DEF FreeSlots, Slots
  <1>2. \E s \in FreeSlots(b) : \A u \in FreeSlots(b) : s <= u
    BY <1>1, LeastNumber
  <1> QED BY <1>2 DEF FirstFree, FreeSlots

\* import_proof takes only the proof of the offer imported last for this board's offer.
LEMMA FittingProof ==
    ASSUME NEW b \in Boards, NEW n, NEW p, NEW r, p.own \in Offers, CeremonyOk(b, p, n),
           p.t /= None, RecordOk(r, n), r.kind = "proof", ProofFits(p, r)
    PROVE  p.peer \in Others(p.own) /\ r = ProofOf(p.peer, p.own)
  <1>1. PICK o \in Offers : \E q \in Others(o) : r = ProofOf(o, q)
    BY DEF RecordOk, OfferRecord, ConfirmOf, Confirmation
  <1>2. PICK q \in Others(o) : r = ProofOf(o, q)
    BY <1>1
  <1>3. /\ p.peer \in Others(p.own) /\ p.own.ed = b
        /\ p.t = TranscriptT(p.own, p.peer) /\ p.role = RoleFor(b, p.peer.ed)
    BY DEF CeremonyOk
  <1>4. TranscriptT(o, q) = TranscriptT(p.own, p.peer) /\ o.ed = p.peer.ed
    BY <1>2, <1>3 DEF ProofFits, ProofOf, ProofRecord
  <1>5. (o = p.own /\ q = p.peer) \/ (o = p.peer /\ q = p.own)
    BY <1>3, <1>4, TranscriptInjective
  <1> QED BY <1>2, <1>3, <1>4, <1>5 DEF Others

\* import_confirm takes only the peer's confirmation of the two proofs of this very
\* transcript: a proof kept from an offer that was replaced does not fit.
LEMMA FittingConfirm ==
    ASSUME NEW b \in Boards, NEW n, NEW p, NEW r, p.own \in Offers, CeremonyOk(b, p, n),
           p.t /= None, RecordOk(r, n), r.kind = "confirm", ConfirmFits(p, r)
    PROVE  p.peer \in Others(p.own) /\ r = ConfirmOf(p.peer, p.own, p.own, p.own)
  <1>1. PICK o \in Offers : \E q, q1, q2 \in Others(o) : r = ConfirmOf(o, q, q1, q2)
    BY DEF RecordOk, OfferRecord, ProofOf, ProofRecord
  <1>2. PICK q \in Others(o), q1 \in Others(o), q2 \in Others(o) : r = ConfirmOf(o, q, q1, q2)
    BY <1>1
  <1>3. /\ p.peer \in Others(p.own) /\ p.own.ed = b
        /\ p.t = TranscriptT(p.own, p.peer) /\ p.role = RoleFor(b, p.peer.ed)
    BY DEF CeremonyOk
  <1>4. /\ r.t = TranscriptT(o, q) /\ r.role = RoleFor(o.ed, q.ed)
        /\ r.proofs = Ordered(RoleFor(o.ed, q.ed), ProofOf(o, q1), ProofOf(q2, o))
    BY <1>2 DEF ConfirmOf, Confirmation
  <1>5. /\ r.t = p.t /\ r.role /= p.role
        /\ p.own_proof /= None /\ p.peer_proof /= None
        /\ r.proofs = Ordered(p.role, p.own_proof, p.peer_proof)
    BY DEF ConfirmFits
  <1>6. o = p.peer /\ q = p.own
    <2>1. TranscriptT(o, q) = TranscriptT(p.own, p.peer)
      BY <1>3, <1>4, <1>5
    <2>2. (o = p.own /\ q = p.peer) \/ (o = p.peer /\ q = p.own)
      BY <1>3, <2>1, TranscriptInjective
    <2> QED BY <2>2, <1>3, <1>4, <1>5
  <1>7. p.own_proof = ProofOf(q2, o) /\ p.peer_proof = ProofOf(o, q1)
    BY <1>4, <1>5, <1>3 DEF Ordered, RoleFor
  <1>8. q1 \in Offers /\ q2 \in Offers /\ o \in Others(q2) /\ o \in Others(q1)
    BY DEF Others
  <1>9. q2 = p.own
    <2>1. PICK w \in Others(p.own) : p.own_proof = ProofOf(p.own, w)
      BY <1>5 DEF CeremonyOk
    <2>2. ProofOf(p.own, w) = ProofOf(q2, o)
      BY <1>7, <2>1
    <2> QED BY <1>8, <2>2, ProofInjective
  <1>10. q1 = p.own
    <2>1. PICK w \in Others(p.own) : p.peer_proof = ProofOf(w, p.own)
      BY <1>5 DEF CeremonyOk
    <2>2. w \in Offers /\ p.own \in Others(w)
      BY <2>1 DEF Others
    <2>3. ProofOf(w, p.own) = ProofOf(o, q1)
      BY <1>7, <2>1
    <2> QED BY <2>2, <2>3, ProofInjective
  <1> QED BY <1>2, <1>3, <1>6, <1>9, <1>10

\* What was made stays so as more is shown and fewer offers are left.
LEMMA StaysOk ==
    ASSUME NEW n \in Nat, NEW m \in Nat, m <= n, NEW shown, NEW more, shown \subseteq more
    PROVE  /\ \A r : RecordOk(r, n) => RecordOk(r, m)
           /\ \A b, p : p.own \in Offers /\ CeremonyOk(b, p, n) => CeremonyOk(b, p, m)
           /\ \A b, c : ContactOk(b, c, n, shown) => ContactOk(b, c, m, more)
           /\ \A table : TableOk(table, n, shown) => TableOk(table, m, more)
           /\ PendingPairs(shown) \subseteq PendingPairs(more)
  <1>1. \A o \in Offers : o.eph > n => o.eph > m
    BY DEF Offers
  <1>2. \A r : RecordOk(r, n) => RecordOk(r, m)
    BY <1>1 DEF RecordOk
  <1>3. \A b, p : p.own \in Offers /\ CeremonyOk(b, p, n) => CeremonyOk(b, p, m)
    BY <1>1 DEF CeremonyOk, Others
  <1>4. \A b, c : ContactOk(b, c, n, shown) => ContactOk(b, c, m, more)
    BY <1>1 DEF ContactOk, Others
  <1>5. \A table : TableOk(table, n, shown) => TableOk(table, m, more)
    BY <1>4 DEF TableOk
  <1>6. PendingPairs(shown) \subseteq PendingPairs(more)
    BY DEF PendingPairs
  <1> QED BY <1>2, <1>3, <1>4, <1>5, <1>6

-----------------------------------------------------------------------------
(* Sound is inductive, batched commands or not.                            *)

\* Boards start with nothing shown, pending or stored.
LEMMA InitSound == Init => Sound
  <1> SUFFICES ASSUME Init PROVE Sound
    OBVIOUS
  <1>1. Shape
    BY PairingAssumption DEF Init, Shape, NoContacts
  <1>2. RecordsOk /\ CeremoniesOk
    BY DEF Init, RecordsOk, CeremoniesOk
  <1>3. ContactsOk
    BY DEF Init, ContactsOk, TableOk, NoContacts
  <1> QED BY <1>1, <1>2, <1>3 DEF Sound

\* What is kept of the parts a step leaves alone.
LEMMA SoundFrame ==
    ASSUME Sound, records \subseteq records',
           left' \in [boards : SUBSET Boards, offers : Nat, mishaps : Nat],
           left'.offers <= left.offers
    PROVE  /\ \A r \in records : RecordOk(r, left'.offers)
           /\ pending \in [Boards -> {None} \union PendingPairs(records')]
           /\ \A b \in Boards : pending[b] /= None =>
                 /\ pending[b] \in PendingPairs(records)
                 /\ pending[b] \in PendingPairs(records')
                 /\ pending[b].own \in Offers
                 /\ CeremonyOk(b, pending[b], left.offers)
                 /\ CeremonyOk(b, pending[b], left'.offers)
           /\ TableOk(contacts, left'.offers, records')
           /\ TableOk(flash, left'.offers, records')
  <1>1. left.offers \in Nat /\ left'.offers \in Nat
    BY DEF Sound, Shape
  <1>2. \A r \in records : RecordOk(r, left'.offers)
    BY <1>1, StaysOk DEF Sound, RecordsOk
  <1>3. PendingPairs(records) \subseteq PendingPairs(records')
    BY <1>1, StaysOk
  <1>4. pending \in [Boards -> {None} \union PendingPairs(records')]
    BY <1>3 DEF Sound, Shape
  <1>5. ASSUME NEW b \in Boards, pending[b] /= None
        PROVE  /\ pending[b] \in PendingPairs(records)
               /\ pending[b] \in PendingPairs(records')
               /\ pending[b].own \in Offers
               /\ CeremonyOk(b, pending[b], left.offers)
               /\ CeremonyOk(b, pending[b], left'.offers)
    <2>1. pending[b] \in PendingPairs(records)
      BY <1>5 DEF Sound, Shape
    <2>2. pending[b].own \in Offers
      BY <2>1 DEF PendingPairs
    <2>3. CeremonyOk(b, pending[b], left.offers)
      BY <1>5 DEF Sound, CeremoniesOk
    <2>4. CeremonyOk(b, pending[b], left'.offers)
      BY <1>1, <2>2, <2>3, StaysOk
    <2> QED BY <1>3, <2>1, <2>2, <2>3, <2>4
  <1>6. TableOk(contacts, left'.offers, records') /\ TableOk(flash, left'.offers, records')
    BY <1>1, StaysOk DEF Sound, ContactsOk
  <1> QED BY <1>2, <1>4, <1>5, <1>6

\* A ceremony that is there is a sound one.
LEMMA SoundPending ==
    ASSUME Sound, NEW b \in Boards, pending[b] /= None
    PROVE  /\ pending[b] \in PendingPairs(records) /\ pending[b].own \in Offers
           /\ pending[b].slot \in Slots
           /\ CeremonyOk(b, pending[b], left.offers)
  <1>1. pending[b] \in PendingPairs(records)
    BY DEF Sound, Shape
  <1>2. CeremonyOk(b, pending[b], left.offers)
    BY DEF Sound, CeremoniesOk
  <1> QED BY <1>1, <1>2 DEF PendingPairs

\* An offer that was shown has a key that is used up.
LEMMA ShownOffer ==
    ASSUME NEW r, NEW n, RecordOk(r, n), r.kind = "offer"
    PROVE  r.offer \in Offers /\ r.offer.eph > n
  <1>1. \A o, q : ProofOf(o, q).kind = "proof"
    BY DEF ProofOf, ProofRecord
  <1>2. \A o, q, q1, q2 : ConfirmOf(o, q, q1, q2).kind = "confirm"
    BY DEF ConfirmOf, Confirmation
  <1>3. PICK o \in Offers : r = OfferRecord(o) /\ o.eph > n
    BY <1>1, <1>2 DEF RecordOk
  <1> QED BY <1>3 DEF OfferRecord

\* pair_offer: the new offer's key was not used up before.
LEMMA SoundOffer == ASSUME Sound, NEW b \in Boards, PairOffer(b) PROVE Sound'
  <1> DEFINE own == [ed |-> b, eph |-> left.offers]
  <1>1. /\ left \in [boards : SUBSET Boards, offers : Nat, mishaps : Nat]
        /\ left.offers > 0 /\ left' = [left EXCEPT !.offers = left.offers - 1]
    BY DEF Sound, Shape, PairOffer
  <1>2. /\ left' \in [boards : SUBSET Boards, offers : Nat, mishaps : Nat]
        /\ left'.offers <= left.offers /\ left.offers > left'.offers
    BY <1>1
  <1>3. own \in Offers /\ own.ed = b /\ own.eph > left'.offers
    BY <1>1, <1>2 DEF Offers
  <1>4. records' = records \union {OfferRecord(own)}
    BY DEF PairOffer, Show
  <1>5. /\ \A r \in records : RecordOk(r, left'.offers)
        /\ pending \in [Boards -> {None} \union PendingPairs(records')]
        /\ \A d \in Boards : pending[d] /= None => CeremonyOk(d, pending[d], left'.offers)
        /\ TableOk(contacts, left'.offers, records')
        /\ TableOk(flash, left'.offers, records')
    BY <1>2, <1>4, SoundFrame
  <1>6. FirstFree(b) \in Slots
    BY FirstFreeIsFree DEF PairOffer
  <1> DEFINE p == [own |-> own, peer |-> None, t |-> None, role |-> "L",
                   own_proof |-> None, peer_proof |-> None, own_confirm |-> None,
                   slot |-> FirstFree(b), expired |-> FALSE]
  <1>7. pending' = [pending EXCEPT ![b] = p]
    BY DEF PairOffer
  <1>8. p \in PendingPairs(records')
    BY <1>3, <1>6 DEF PendingPairs, Roles
  <1>9. CeremonyOk(b, p, left'.offers)
    BY <1>3 DEF CeremonyOk
  <1> HIDE DEF p
  <1>10. Shape'
    <2>1. UNCHANGED <<contacts, flash, staged>>
      BY DEF PairOffer
    <2>2. pending' \in [Boards -> {None} \union PendingPairs(records')]
      BY <1>5, <1>7, <1>8
    <2> QED BY <1>2, <2>1, <2>2 DEF Sound, Shape
  <1>11. RecordsOk'
    <2>1. RecordOk(OfferRecord(own), left'.offers)
      BY <1>3 DEF RecordOk
    <2> QED BY <1>4, <1>5, <2>1 DEF RecordsOk
  <1>12. CeremoniesOk'
    BY <1>5, <1>7, <1>9 DEF CeremoniesOk
  <1>13. ContactsOk'
    BY <1>5 DEF ContactsOk, PairOffer
  <1> QED BY <1>10, <1>11, <1>12, <1>13 DEF Sound

\* A step that leaves contacts, flash and the offers alone.
LEMMA SoundCeremony ==
    ASSUME Sound, NEW b \in Boards, NEW p, UNCHANGED <<contacts, flash, staged, left>>,
           records \subseteq records', \A r \in records' \ records : RecordOk(r, left.offers),
           pending' = [pending EXCEPT ![b] = p],
           p \in PendingPairs(records'), CeremonyOk(b, p, left.offers)
    PROVE  Sound'
  <1>1. /\ left' \in [boards : SUBSET Boards, offers : Nat, mishaps : Nat]
        /\ left'.offers <= left.offers
    BY DEF Sound, Shape
  <1>2. /\ \A r \in records : RecordOk(r, left'.offers)
        /\ pending \in [Boards -> {None} \union PendingPairs(records')]
        /\ \A d \in Boards : pending[d] /= None => CeremonyOk(d, pending[d], left'.offers)
        /\ TableOk(contacts, left'.offers, records')
        /\ TableOk(flash, left'.offers, records')
    BY <1>1, SoundFrame
  <1>3. Shape'
    BY <1>1, <1>2 DEF Sound, Shape
  <1>4. RecordsOk'
    BY <1>2 DEF RecordsOk
  <1>5. CeremoniesOk'
    BY <1>2 DEF CeremoniesOk
  <1>6. ContactsOk'
    BY <1>2 DEF ContactsOk
  <1> QED BY <1>3, <1>4, <1>5, <1>6 DEF Sound

\* pair_proof: the proof is for the offer imported last.
LEMMA SoundProof == ASSUME Sound, NEW b \in Boards, PairProof(b) PROVE Sound'
  <1> DEFINE p == pending[b]
             proof == ProofRecord(p.t, p.role, b, SetupKeys(p, p.role))
             q == [p EXCEPT !.own_proof = proof]
  <1>1. /\ p /= None /\ p.t /= None
        /\ pending' = [pending EXCEPT ![b] = q]
        /\ records' = records \union {proof}
        /\ UNCHANGED <<contacts, flash, staged, left>>
    BY DEF PairProof, Live, Show
  <1>2. p \in PendingPairs(records') /\ p.own \in Offers /\ CeremonyOk(b, p, left.offers)
    <2>1. PendingPairs(records) \subseteq PendingPairs(records')
      BY <1>1 DEF PendingPairs
    <2> QED BY <1>1, <2>1, SoundPending
  <1>3. /\ p.peer \in Others(p.own) /\ p.own.ed = b
        /\ p.t = TranscriptT(p.own, p.peer) /\ p.role = RoleFor(b, p.peer.ed)
    BY <1>1, <1>2 DEF CeremonyOk
  <1>4. proof = ProofOf(p.own, p.peer)
    BY <1>3 DEF ProofOf, SetupKeys, PairRoot, Root
  <1>5. RecordOk(proof, left.offers)
    BY <1>2, <1>3, <1>4 DEF RecordOk
  <1> HIDE DEF proof
  <1>6. q \in PendingPairs(records') /\ q.own = p.own /\ q.t = p.t /\ q.peer = p.peer
        /\ q.role = p.role /\ q.own_proof = proof /\ q.peer_proof = p.peer_proof
    BY <1>1, <1>2 DEF PendingPairs
  <1>7. CeremonyOk(b, q, left.offers)
    BY <1>2, <1>3, <1>4, <1>6 DEF CeremonyOk
  <1>8. \A r \in records' \ records : RecordOk(r, left.offers)
    BY <1>1, <1>5
  <1>9. records \subseteq records'
    BY <1>1
  <1> HIDE DEF p, q
  <1> QED BY <1>1, <1>6, <1>7, <1>8, <1>9, SoundCeremony

\* pair_confirm: over the proofs as they are.
LEMMA SoundConfirm == ASSUME Sound, NEW b \in Boards, PairConfirm(b) PROVE Sound'
  <1> DEFINE p == pending[b]
             conf == Confirmation(p.t, p.role, Ordered(p.role, p.own_proof, p.peer_proof),
                                  PairRoot(p))
             q == [p EXCEPT !.own_confirm = conf]
  <1>1. /\ p /= None /\ p.t /= None /\ p.own_proof /= None /\ p.peer_proof /= None
        /\ pending' = [pending EXCEPT ![b] = q]
        /\ records' = records \union {conf}
        /\ UNCHANGED <<contacts, flash, staged, left>>
    BY DEF PairConfirm, Live, Show
  <1>2. p \in PendingPairs(records') /\ p.own \in Offers /\ CeremonyOk(b, p, left.offers)
    <2>1. PendingPairs(records) \subseteq PendingPairs(records')
      BY <1>1 DEF PendingPairs
    <2> QED BY <1>1, <2>1, SoundPending
  <1>3. /\ p.peer \in Others(p.own) /\ p.own.ed = b
        /\ p.t = TranscriptT(p.own, p.peer) /\ p.role = RoleFor(b, p.peer.ed)
    BY <1>1, <1>2 DEF CeremonyOk
  <1>4. PICK q1 \in Others(p.own) : p.own_proof = ProofOf(p.own, q1)
    BY <1>1, <1>2 DEF CeremonyOk
  <1>5. PICK q2 \in Others(p.own) : p.peer_proof = ProofOf(q2, p.own)
    BY <1>1, <1>2 DEF CeremonyOk
  <1>6. conf = ConfirmOf(p.own, p.peer, q1, q2)
    BY <1>3, <1>4, <1>5 DEF ConfirmOf, PairRoot, Root
  <1>7. RecordOk(conf, left.offers)
    BY <1>2, <1>3, <1>6 DEF RecordOk
  <1> HIDE DEF conf
  <1>8. q \in PendingPairs(records') /\ q.own = p.own /\ q.t = p.t /\ q.peer = p.peer
        /\ q.role = p.role /\ q.own_proof = p.own_proof /\ q.peer_proof = p.peer_proof
    BY <1>1, <1>2 DEF PendingPairs
  <1>9. CeremonyOk(b, q, left.offers)
    BY <1>2, <1>8 DEF CeremonyOk
  <1>10. \A r \in records' \ records : RecordOk(r, left.offers)
    BY <1>1, <1>7
  <1>11. records \subseteq records'
    BY <1>1
  <1> HIDE DEF p, q
  <1> QED BY <1>1, <1>8, <1>9, <1>10, <1>11, SoundCeremony

\* import_offer: transcript and role follow the new offer, the proofs stay.
LEMMA SoundImportOffer ==
    ASSUME Sound, NEW b \in Boards, NEW r \in records, NEW replace \in BOOLEAN,
           ImportOffer(b, r, replace)
    PROVE  Sound'
  <1> DEFINE p == pending[b]
             slot == IF replace THEN p.slot ELSE FirstFree(b)
             q == [p EXCEPT !.peer = r.offer, !.t = TranscriptT(p.own, r.offer),
                            !.role = RoleFor(b, r.offer.ed), !.slot = slot]
  <1>1. /\ p /= None /\ r.kind = "offer" /\ r.offer.ed /= b
        /\ replace \/ FreeSlots(b) /= {}
        /\ UNCHANGED <<contacts, flash, staged, left, records>>
    BY DEF ImportOffer, Live, NewPeer
  <1>2. p \in PendingPairs(records) /\ p.own \in Offers /\ CeremonyOk(b, p, left.offers)
    BY <1>1, SoundPending
  <1>3. pending' = [pending EXCEPT ![b] = q]
    BY <1>1, <1>2 DEF ImportOffer, Sound, Shape, PendingPairs
  <1>4. r.offer \in Offers /\ r.offer.eph > left.offers
    <2>1. RecordOk(r, left.offers)
      BY DEF Sound, RecordsOk
    <2> QED BY <1>1, <2>1, ShownOffer
  <1>5. r.offer \in Others(p.own) /\ p.own.ed = b
    BY <1>1, <1>2, <1>4 DEF Others, CeremonyOk
  <1>6. TranscriptT(p.own, r.offer) \in Offers \X Offers /\ RoleFor(b, r.offer.ed) \in Roles
    BY <1>2, <1>5, CeremonyTypes
  <1>7. slot \in Slots
    BY <1>1, <1>2, FirstFreeIsFree DEF PendingPairs
  <1> HIDE DEF slot
  <1>8. q \in PendingPairs(records) /\ q.own = p.own /\ q.t = TranscriptT(p.own, r.offer)
        /\ q.peer = r.offer /\ q.role = RoleFor(b, r.offer.ed)
        /\ q.own_proof = p.own_proof /\ q.peer_proof = p.peer_proof
    BY <1>2, <1>4, <1>6, <1>7 DEF PendingPairs
  <1>9. CeremonyOk(b, q, left.offers)
    BY <1>2, <1>4, <1>5, <1>8 DEF CeremonyOk
  <1> HIDE DEF p, q
  <1>10. q \in PendingPairs(records') /\ records \subseteq records'
         /\ \A x \in records' \ records : RecordOk(x, left.offers)
    BY <1>1, <1>8
  <1> QED BY <1>1, <1>3, <1>9, <1>10, SoundCeremony

\* import_proof
LEMMA SoundImportProof ==
    ASSUME Sound, NEW b \in Boards, NEW r \in records, ImportProof(b, r) PROVE Sound'
  <1> DEFINE p == pending[b]
             q == [p EXCEPT !.peer_proof = r]
  <1>1. /\ p /= None /\ p.t /= None /\ r.kind = "proof" /\ ProofFits(p, r)
        /\ pending' = [pending EXCEPT ![b] = q]
        /\ UNCHANGED <<contacts, flash, staged, left, records>>
    BY DEF ImportProof, Live
  <1>2. p \in PendingPairs(records) /\ p.own \in Offers /\ CeremonyOk(b, p, left.offers)
    BY <1>1, SoundPending
  <1>3. RecordOk(r, left.offers)
    BY DEF Sound, RecordsOk
  <1> HIDE DEF p
  <1>4. p.peer \in Others(p.own) /\ r = ProofOf(p.peer, p.own)
    BY <1>1, <1>2, <1>3, FittingProof
  <1>5. q \in PendingPairs(records) /\ q.own = p.own /\ q.t = p.t /\ q.peer = p.peer
        /\ q.role = p.role /\ q.own_proof = p.own_proof /\ q.peer_proof = r
    BY <1>2 DEF PendingPairs
  <1>6. CeremonyOk(b, q, left.offers)
    BY <1>2, <1>4, <1>5 DEF CeremonyOk
  <1> HIDE DEF q
  <1>7. q \in PendingPairs(records') /\ records \subseteq records'
        /\ \A x \in records' \ records : RecordOk(x, left.offers)
    BY <1>1, <1>5
  <1> QED BY <1>1, <1>6, <1>7, SoundCeremony

\* import_confirm: the new contact is the outcome of this ceremony.
LEMMA SoundImportConfirm ==
    ASSUME Sound, NEW b \in Boards, NEW r \in records, ImportConfirm(b, r) PROVE Sound'
  <1> DEFINE p == pending[b]
             c == [peer |-> p.peer.ed, root |-> PairRoot(p), role |-> p.role]
  <1>1. /\ p /= None /\ p.t /= None /\ r.kind = "confirm" /\ ConfirmFits(p, r)
        /\ contacts' = [contacts EXCEPT ![b] = [contacts[b] EXCEPT ![p.slot] = c]]
        /\ staged' = [staged EXCEPT ![b] = "PairActivate"]
        /\ UNCHANGED <<pending, flash, left, records>>
    BY DEF ImportConfirm, Live
  <1>2. /\ p \in PendingPairs(records) /\ p.own \in Offers /\ CeremonyOk(b, p, left.offers)
        /\ p.slot \in Slots
    BY <1>1, SoundPending
  <1>3. RecordOk(r, left.offers)
    BY DEF Sound, RecordsOk
  <1>4. /\ p.peer \in Others(p.own) /\ p.own.ed = b
        /\ p.own.eph > left.offers /\ p.peer.eph > left.offers
        /\ p.t = TranscriptT(p.own, p.peer) /\ p.role = RoleFor(b, p.peer.ed)
    BY <1>1, <1>2 DEF CeremonyOk
  <1>5. c = [peer |-> p.peer.ed, root |-> Root(p.own, p.peer), role |-> RoleFor(b, p.peer.ed)]
    BY <1>4 DEF PairRoot, Root
  <1>6. c \in Contacts
    BY <1>2, <1>4, <1>5, CeremonyTypes DEF Contacts, Others, Offers
  <1> HIDE DEF p, c
  <1>7. r = ConfirmOf(p.peer, p.own, p.own, p.own)
    BY <1>1, <1>2, <1>3, FittingConfirm
  <1>8. ContactOk(b, c, left.offers, records)
    BY <1>2, <1>4, <1>5, <1>7 DEF ContactOk
  <1>9. Shape'
    BY <1>1, <1>2, <1>6 DEF Sound, Shape
  <1>10. RecordsOk' /\ CeremoniesOk'
    BY <1>1 DEF Sound, RecordsOk, CeremoniesOk
  <1>11. ContactsOk'
    BY <1>1, <1>2, <1>8 DEF Sound, Shape, ContactsOk, TableOk
  <1> QED BY <1>9, <1>10, <1>11 DEF Sound

\* Commits, mishaps and the other commands move or drop what is sound.
LEMMA SoundOther ==
    ASSUME Sound, NEW b \in Boards,
           \/ CommitOk(b) \/ CommitFails(b) \/ Reboot(b) \/ Expire(b) \/ StageOther(b)
           \/ \E s \in Slots : DeleteContact(b, s)
    PROVE  Sound'
  <1>1. /\ records' = records
        /\ left' \in [boards : SUBSET Boards, offers : Nat, mishaps : Nat]
        /\ left'.offers = left.offers
    BY DEF Sound, Shape, Mishap, CommitOk, CommitFails, Reboot, Expire, StageOther, DeleteContact
  <1>2. /\ contacts' \in [Boards -> [Slots -> {None} \union Contacts]]
        /\ flash' \in [Boards -> [Slots -> {None} \union Contacts]]
        /\ staged' \in [Boards -> {"clean", "PairActivate", "other"}]
        /\ \A d \in Boards, s \in Slots :
              /\ contacts'[d][s] \in {contacts[d][s], flash[d][s], None}
              /\ flash'[d][s] \in {contacts[d][s], flash[d][s]}
    <2>1. CASE CommitOk(b)
      BY <2>1 DEF Sound, Shape, Write, CommitOk
    <2>2. CASE CommitFails(b)
      BY <2>2 DEF Sound, Shape, Write, CommitFails
    <2>3. CASE Reboot(b)
      BY <2>3 DEF Sound, Shape, Reboot
    <2>4. CASE Expire(b)
      BY <2>4 DEF Sound, Shape, Expire
    <2>5. CASE StageOther(b)
      BY <2>5 DEF Sound, Shape, StageOther
    <2>6. ASSUME NEW u \in Slots, DeleteContact(b, u)
          PROVE  /\ contacts' \in [Boards -> [Slots -> {None} \union Contacts]]
                 /\ flash' \in [Boards -> [Slots -> {None} \union Contacts]]
                 /\ staged' \in [Boards -> {"clean", "PairActivate", "other"}]
                 /\ \A d \in Boards, s \in Slots :
                       /\ contacts'[d][s] \in {contacts[d][s], flash[d][s], None}
                       /\ flash'[d][s] \in {contacts[d][s], flash[d][s]}
      BY <2>6 DEF Sound, Shape, DeleteContact
    <2> QED BY <2>1, <2>2, <2>3, <2>4, <2>5, <2>6
  <1>3. ContactsOk'
    BY <1>1, <1>2 DEF Sound, ContactsOk, TableOk
  <1>4. /\ pending' \in [Boards -> {None} \union PendingPairs(records)]
        /\ \A d \in Boards : pending'[d] /= None =>
              /\ pending[d] /= None /\ pending'[d].own = pending[d].own
              /\ pending'[d].t = pending[d].t /\ pending'[d].peer = pending[d].peer
              /\ pending'[d].role = pending[d].role
              /\ pending'[d].own_proof = pending[d].own_proof
              /\ pending'[d].peer_proof = pending[d].peer_proof
    <2>1. CASE Expire(b)
      <3> DEFINE q == [pending[b] EXCEPT !.expired = TRUE]
      <3>1. pending[b] \in PendingPairs(records) /\ pending' = [pending EXCEPT ![b] = q]
        BY <2>1, SoundPending DEF Expire
      <3>2. /\ q \in PendingPairs(records) /\ q.own = pending[b].own
            /\ q.t = pending[b].t /\ q.peer = pending[b].peer /\ q.role = pending[b].role
            /\ q.own_proof = pending[b].own_proof /\ q.peer_proof = pending[b].peer_proof
        BY <3>1 DEF PendingPairs
      <3> HIDE DEF q
      <3> QED BY <2>1, <3>1, <3>2 DEF Expire, Sound, Shape
    <2>2. CASE ~Expire(b)
      BY <2>2 DEF Sound, Shape, CommitOk, CommitFails, Reboot, StageOther, DeleteContact
    <2> QED BY <2>1, <2>2
  <1>5. CeremoniesOk'
    BY <1>1, <1>4 DEF Sound, CeremoniesOk, CeremonyOk
  <1>6. Shape'
    BY <1>1, <1>2, <1>4 DEF Shape
  <1>7. RecordsOk'
    BY <1>1 DEF Sound, RecordsOk
  <1> QED BY <1>3, <1>5, <1>6, <1>7 DEF Sound

\* Every step keeps what is shown, pending and stored sound.
LEMMA StepSound == Sound /\ [Next]_vars => Sound'
  <1> SUFFICES ASSUME Sound, [Next]_vars PROVE Sound'
    OBVIOUS
  <1>1. ASSUME NEW b \in Boards, PairOffer(b) \/ PairProof(b) \/ PairConfirm(b) PROVE Sound'
    BY <1>1, SoundOffer, SoundProof, SoundConfirm
  <1>2. ASSUME NEW b \in Boards, NEW r \in records, Import(b, r) PROVE Sound'
    BY <1>2, SoundImportOffer, SoundImportProof, SoundImportConfirm DEF Import
  <1>3. ASSUME NEW b \in Boards,
               \/ CommitOk(b) \/ CommitFails(b) \/ Reboot(b) \/ Expire(b) \/ StageOther(b)
               \/ \E s \in Slots : DeleteContact(b, s)
        PROVE  Sound'
    BY <1>3, SoundOther
  <1>4. CASE UNCHANGED vars
    BY <1>4 DEF vars, Sound, Shape, RecordsOk, CeremoniesOk, ContactsOk
  <1> QED BY <1>1, <1>2, <1>3, <1>4 DEF Next

\* Contacts, ceremonies and what is staged keep their types (struct Engine, PendingPair).
THEOREM TypeCorrect == Spec => []TypeOK
  <1>1. Sound => TypeOK
    BY DEF Sound, Shape, TypeOK, PendingPairs, Contacts, Roots, Roles
  <1> QED BY InitSound, StepSound, <1>1, PTL DEF Spec

\* A contact is the outcome of one ceremony that both boards went through, and the peer has
\* confirmed the proofs of this very transcript (import_confirm, activate_contact).
THEOREM AgreementAlways == Spec => []Agreement
  <1>1. Sound => Agreement
    <2> SUFFICES ASSUME Sound, NEW b \in Boards, NEW s \in Slots, contacts[b][s] /= None
                 PROVE  LET c == contacts[b][s]
                            left_offer == c.root.t[1]
                            right_offer == c.root.t[2]
                            proof(role, by) ==
                                ProofRecord(c.root.t, role, by, [root |-> c.root, out |-> role])
                            peer_role == IF c.role = "L" THEN "R" ELSE "L"
                        IN /\ { left_offer.ed, right_offer.ed } = {b, c.peer}
                           /\ c.root.dh = { left_offer.eph, right_offer.eph }
                           /\ c.role = IF left_offer.ed = b THEN "L" ELSE "R"
                           /\ Confirmation(c.root.t, peer_role,
                                 <<proof("L", left_offer.ed), proof("R", right_offer.ed)>>,
                                 c.root) \in records
      BY DEF Agreement
    <2> DEFINE c == contacts[b][s]
    <2>0. PICK o \in Offers : \E q \in Others(o) :
             /\ o.ed = b
             /\ c = [peer |-> q.ed, root |-> Root(o, q), role |-> RoleFor(b, q.ed)]
             /\ ConfirmOf(q, o, o, o) \in records
      BY DEF Sound, ContactsOk, TableOk, ContactOk
    <2>1. PICK q \in Others(o) :
             /\ o.ed = b
             /\ c = [peer |-> q.ed, root |-> Root(o, q), role |-> RoleFor(b, q.ed)]
             /\ ConfirmOf(q, o, o, o) \in records
      BY <2>0
    <2>2. c.peer = q.ed /\ c.root = Root(o, q) /\ c.role = RoleFor(o.ed, q.ed)
      BY <2>1
    <2>3. o.ed \in Nat /\ q.ed \in Nat /\ o.ed /= q.ed
      BY PairingAssumption DEF Others, Offers
    <2>4. c.root.t = TranscriptT(o, q) /\ c.root.dh = {o.eph, q.eph}
      BY <2>2 DEF Root, DeriveRoot
    <2>5. TranscriptT(q, o) = TranscriptT(o, q) /\ Root(q, o) = Root(o, q)
      BY Symmetric
    <2> HIDE DEF c
    <2>6. CASE o.ed < q.ed
      <3>1. TranscriptT(o, q) = <<o, q>> /\ RoleFor(o.ed, q.ed) = "L" /\ RoleFor(q.ed, o.ed) = "R"
        BY <2>3, <2>6 DEF TranscriptT, RoleFor
      <3>2. ConfirmOf(q, o, o, o) =
               Confirmation(c.root.t, "R",
                  <<ProofRecord(c.root.t, "L", o.ed, [root |-> c.root, out |-> "L"]),
                    ProofRecord(c.root.t, "R", q.ed, [root |-> c.root, out |-> "R"])>>, c.root)
        BY <2>2, <2>4, <2>5, <3>1 DEF ConfirmOf, ProofOf, Ordered
      <3> QED BY <2>1, <2>2, <2>3, <2>4, <3>1, <3>2 DEF c
    <2>7. CASE q.ed < o.ed
      <3>1. TranscriptT(o, q) = <<q, o>> /\ RoleFor(o.ed, q.ed) = "R" /\ RoleFor(q.ed, o.ed) = "L"
        BY <2>3, <2>7 DEF TranscriptT, RoleFor
      <3>2. ConfirmOf(q, o, o, o) =
               Confirmation(c.root.t, "L",
                  <<ProofRecord(c.root.t, "L", q.ed, [root |-> c.root, out |-> "L"]),
                    ProofRecord(c.root.t, "R", o.ed, [root |-> c.root, out |-> "R"])>>, c.root)
        BY <2>2, <2>4, <2>5, <3>1 DEF ConfirmOf, ProofOf, Ordered
      <3> QED BY <2>1, <2>2, <2>3, <2>4, <3>1, <3>2 DEF c
    <2>8. o.ed < q.ed \/ q.ed < o.ed
      BY <2>3
    <2> QED BY <2>6, <2>7, <2>8
  <1> QED BY InitSound, StepSound, <1>1, PTL DEF Spec

-----------------------------------------------------------------------------
(* With a commit after every command, no contact is made over another.     *)

\* What Exclusive says of one board; the part about its ceremony is Open.
BoardExclusive(b) ==
    Spent(b) /\ Kept(b) /\ Distinct(contacts, b) /\ Distinct(flash, b) /\ FirstTime(b)

\* Boards start without a ceremony, a contact or a used root.
LEMMA InitExclusive == Init => Exclusive
  BY DEF Init, Exclusive, Open, Spent, Used, Kept, Distinct, Taken, FirstTime, NoContacts

\* A board that the step leaves alone, but for the offers left.
LEMMA ExclusiveFrame ==
    ASSUME Sound, Exclusive, NEW d \in Boards,
           left'.offers \in Nat, left'.offers <= left.offers,
           pending'[d] = pending[d], contacts'[d] = contacts[d], flash'[d] = flash[d],
           staged'[d] = staged[d], d \in fault' <=> d \in fault,
           durable'[d] = durable[d], activated'[d] = activated[d]
    PROVE  Open(d)' /\ BoardExclusive(d)'
  <1>1. /\ Taken(contacts, d)' = Taken(contacts, d) /\ Taken(flash, d)' = Taken(flash, d)
        /\ Used(d)' = Used(d)
    BY DEF Taken, Used
  <1>2. Open(d)'
    BY <1>1 DEF Exclusive, Open
  <1>3. Spent(d)'
    <2>1. \A root \in Used(d) : root \in Roots
      BY DEF Exclusive, Used, Taken, Sound, Shape, Contacts
    <2>2. \A root \in Roots : root.t[1].eph \in Nat /\ root.t[2].eph \in Nat
      BY DEF Roots, Offers
    <2>3. left.offers \in Nat
      BY DEF Sound, Shape
    <2> QED BY <1>1, <2>1, <2>2, <2>3 DEF Exclusive, Spent
  <1>4. Kept(d)' /\ Distinct(contacts, d)' /\ Distinct(flash, d)' /\ FirstTime(d)'
    BY <1>1 DEF Exclusive, Kept, Distinct, FirstTime
  <1> QED BY <1>2, <1>3, <1>4 DEF BoardExclusive

\* The exclusive state of every board follows from that of the board at work.
LEMMA ExclusiveStep ==
    ASSUME Sound, Exclusive, NEW b \in Boards,
           left'.offers \in Nat, left'.offers <= left.offers,
           \A d \in Boards \ {b} :
              /\ pending'[d] = pending[d] /\ contacts'[d] = contacts[d] /\ flash'[d] = flash[d]
              /\ staged'[d] = staged[d] /\ (d \in fault' <=> d \in fault)
              /\ durable'[d] = durable[d] /\ activated'[d] = activated[d],
           durable' \in [Boards -> SUBSET Roots], DOMAIN activated' = Boards,
           Open(b)', BoardExclusive(b)'
    PROVE  Exclusive'
  <1>1. ASSUME NEW d \in Boards \ {b} PROVE Open(d)' /\ BoardExclusive(d)'
    BY ExclusiveFrame
  <1>2. \A d \in Boards : Open(d)' /\ BoardExclusive(d)'
    BY <1>1
  <1> QED BY <1>2 DEF Exclusive, BoardExclusive

\* pair_offer: the slot is free, and the new offer is in no root used so far.
LEMMA ExclusiveOffer ==
    ASSUME Sound, Exclusive, NEW b \in Boards, PairOffer(b) PROVE Exclusive'
  <1> DEFINE own == [ed |-> b, eph |-> left.offers]
  <1>1. /\ left.offers \in Nat /\ left'.offers \in Nat /\ left'.offers < left.offers
        /\ UNCHANGED <<contacts, flash, staged, fault, durable, activated>>
    BY DEF Sound, Shape, PairOffer
  <1>2. /\ \A d \in Boards \ {b} : pending'[d] = pending[d]
        /\ pending'[b].own = own /\ pending'[b].t = None /\ pending'[b].slot = FirstFree(b)
    BY DEF Sound, Shape, PairOffer
  <1>3. contacts[b][FirstFree(b)] = None
    BY FirstFreeIsFree DEF PairOffer
  <1>4. Used(b)' = Used(b) /\ Taken(contacts, b)' = Taken(contacts, b) /\ Taken(flash, b)' = Taken(flash, b)
    BY <1>1 DEF Used, Taken
  <1>5. \A root \in Used(b) :
           /\ root.t[1].eph \in Nat /\ root.t[1].eph > left.offers
           /\ root.t[2].eph \in Nat /\ root.t[2].eph > left.offers
    <2>1. \A root \in Used(b) : root \in Roots
      BY DEF Exclusive, Used, Taken, Sound, Shape, Contacts
    <2>2. \A root \in Roots : root.t[1].eph \in Nat /\ root.t[2].eph \in Nat
      BY DEF Roots, Offers
    <2> QED BY <2>1, <2>2 DEF Exclusive, Spent
  <1>6. \A root \in Used(b) : ~From(root, own)
    BY <1>1, <1>5 DEF From
  <1> HIDE DEF own
  <1>7. Open(b)'
    BY <1>1, <1>2, <1>3, <1>4, <1>6 DEF Open
  <1>8. BoardExclusive(b)'
    BY <1>1, <1>4, <1>5 DEF Exclusive, BoardExclusive, Spent, Kept, Distinct, FirstTime
  <1> QED BY <1>1, <1>2, <1>7, <1>8, ExclusiveStep DEF Exclusive

\* A step that changes only a ceremony, and neither its slot nor its peer.
LEMMA ExclusiveCeremony ==
    ASSUME Sound, Exclusive, NEW b \in Boards,
           UNCHANGED <<contacts, flash, durable, activated, fault>>,
           left'.offers = left.offers,
           \A d \in Boards \ {b} : pending'[d] = pending[d] /\ staged'[d] = staged[d],
           \/ pending'[b] = None
           \/ /\ pending[b] /= None
              /\ pending'[b].slot = pending[b].slot /\ pending'[b].own = pending[b].own
              /\ pending'[b].t = pending[b].t /\ pending'[b].peer = pending[b].peer
              /\ staged[b] = "PairActivate" => staged'[b] = "PairActivate"
    PROVE  Exclusive'
  <1>1. Used(b)' = Used(b) /\ Taken(contacts, b)' = Taken(contacts, b) /\ Taken(flash, b)' = Taken(flash, b)
    BY DEF Used, Taken
  <1>2. left.offers \in Nat
    BY DEF Sound, Shape
  <1>3. Open(b)'
    BY <1>1 DEF Exclusive, Open
  <1>4. BoardExclusive(b)'
    BY <1>1 DEF Exclusive, BoardExclusive, Spent, Kept, Distinct, FirstTime
  <1> QED BY <1>2, <1>3, <1>4, ExclusiveStep DEF Exclusive

\* Proofs, confirmations and expiry leave slot, offers and transcript alone.
LEMMA ExclusiveProofs ==
    ASSUME Sound, Exclusive, NEW b \in Boards,
           \/ PairProof(b) \/ PairConfirm(b) \/ Expire(b) \/ \E r \in records : ImportProof(b, r)
    PROVE  Exclusive'
  <1>1. pending[b] /= None
    BY DEF PairProof, PairConfirm, ImportProof, Expire, Live
  <1>2. pending[b] \in PendingPairs(records) /\ left.offers \in Nat
    BY <1>1, SoundPending DEF Sound, Shape
  <1>3. /\ UNCHANGED <<contacts, flash, durable, activated, fault, staged>>
        /\ left'.offers = left.offers
        /\ \E x : \/ pending' = [pending EXCEPT ![b].own_proof = x]
                  \/ pending' = [pending EXCEPT ![b].own_confirm = x]
                  \/ pending' = [pending EXCEPT ![b].peer_proof = x]
                  \/ pending' = [pending EXCEPT ![b].expired = x]
    BY DEF PairProof, PairConfirm, ImportProof, Expire, Mishap, Sound, Shape
  <1>4. /\ pending'[b].slot = pending[b].slot /\ pending'[b].own = pending[b].own
        /\ pending'[b].t = pending[b].t /\ pending'[b].peer = pending[b].peer
        /\ \A d \in Boards \ {b} : pending'[d] = pending[d]
    BY <1>2, <1>3 DEF Sound, Shape, PendingPairs
  <1> QED BY <1>1, <1>3, <1>4, ExclusiveCeremony

\* Another command finds the last one committed, so it hides no activation.
LEMMA ExclusiveStageOther ==
    ASSUME Sound, Exclusive, ~Batched, NEW b \in Boards, StageOther(b) PROVE Exclusive'
  <1>1. /\ UNCHANGED <<contacts, flash, durable, activated, fault, pending>>
        /\ left'.offers = left.offers /\ staged[b] = "clean"
        /\ \A d \in Boards \ {b} : staged'[d] = staged[d]
    BY DEF StageOther, Usable, Mishap, Sound, Shape
  <1> QED BY <1>1, ExclusiveCeremony

\* import_offer: the peer is no contact, and the slot is free.
LEMMA ExclusiveImportOffer ==
    ASSUME Sound, Exclusive, NEW b \in Boards, NEW r \in records, NEW replace \in BOOLEAN,
           ImportOffer(b, r, replace), ~Batched
    PROVE  Exclusive'
  <1>1. /\ UNCHANGED <<contacts, flash, durable, activated, fault, staged, left>>
        /\ pending[b] /= None /\ b \notin fault /\ staged[b] = "clean"
        /\ replace \/ FreeSlots(b) /= {}
        /\ \A s \in Taken(contacts, b) : contacts[b][s].peer /= r.offer.ed
    BY DEF ImportOffer, Live, Usable, NewPeer, Taken
  <1>2. pending[b] \in PendingPairs(records) /\ left.offers \in Nat
    BY <1>1, SoundPending DEF Sound, Shape
  <1>3. /\ pending'[b].own = pending[b].own /\ pending'[b].peer = r.offer
        /\ pending'[b].slot = IF replace THEN pending[b].slot ELSE FirstFree(b)
        /\ \A d \in Boards \ {b} : pending'[d] = pending[d]
    BY <1>2 DEF ImportOffer, Sound, Shape, PendingPairs
  <1>4. contacts[b][pending[b].slot] = None /\ \A root \in Used(b) : ~From(root, pending[b].own)
    BY <1>1 DEF Exclusive, Open
  <1>5. contacts[b][pending'[b].slot] = None
    BY <1>1, <1>3, <1>4, FirstFreeIsFree
  <1>6. Used(b)' = Used(b) /\ Taken(contacts, b)' = Taken(contacts, b) /\ Taken(flash, b)' = Taken(flash, b)
    BY <1>1 DEF Used, Taken
  <1>7. Open(b)'
    BY <1>1, <1>3, <1>4, <1>5, <1>6 DEF Open
  <1>8. BoardExclusive(b)'
    BY <1>1, <1>6 DEF Exclusive, BoardExclusive, Spent, Kept, Distinct, FirstTime
  <1> QED BY <1>1, <1>2, <1>3, <1>7, <1>8, ExclusiveStep DEF Exclusive

\* import_confirm: the slot is free, the peer is new and the root was never held.
LEMMA ExclusiveImportConfirm ==
    ASSUME Sound, Exclusive, NEW b \in Boards, NEW r \in records, ImportConfirm(b, r), ~Batched
    PROVE  Exclusive'
  <1> DEFINE p == pending[b]
             c == [peer |-> p.peer.ed, root |-> PairRoot(p), role |-> p.role]
             a == [over |-> contacts[b][p.slot], again |-> PairRoot(p) \in durable[b]]
  <1>1. /\ p /= None /\ p.t /= None /\ b \notin fault /\ staged[b] = "clean"
        /\ contacts' = [contacts EXCEPT ![b] = [contacts[b] EXCEPT ![p.slot] = c]]
        /\ activated' = [activated EXCEPT ![b] = activated[b] \union {a}]
        /\ staged' = [staged EXCEPT ![b] = "PairActivate"]
        /\ UNCHANGED <<pending, flash, left, fault, durable>>
    BY DEF ImportConfirm, Live, Usable
  <1>2. /\ p.own \in Offers /\ CeremonyOk(b, p, left.offers)
        /\ p.slot \in Slots
    BY <1>1, SoundPending
  <1>3. /\ p.peer \in Others(p.own) /\ p.own.eph > left.offers /\ p.peer.eph > left.offers
        /\ p.t = TranscriptT(p.own, p.peer)
    BY <1>1, <1>2 DEF CeremonyOk
  <1>4. c.peer = p.peer.ed /\ c.root = PairRoot(p) /\ c.root.t = p.t
    BY DEF PairRoot, DeriveRoot
  <1>5. (p.t[1] = p.own /\ p.t[2] = p.peer) \/ (p.t[1] = p.peer /\ p.t[2] = p.own)
    BY <1>3 DEF TranscriptT
  <1>6. /\ contacts[b][p.slot] = None
        /\ \A s \in Taken(contacts, b) : contacts[b][s].peer /= p.peer.ed
        /\ \A root \in Used(b) : ~From(root, p.own)
    BY <1>1 DEF Exclusive, Open
  <1>7. PairRoot(p) \notin durable[b]
    BY <1>4, <1>5, <1>6 DEF From, Used
  <1>8. a.over = None /\ ~a.again
    BY <1>6, <1>7
  <1> HIDE DEF a, c, p
  <1>9. FirstTime(b)'
    BY <1>1, <1>8 DEF Exclusive, FirstTime
  <1>10. /\ \A s \in Slots : s /= p.slot => contacts'[b][s] = contacts[b][s]
         /\ contacts'[b][p.slot] = c
         /\ \A d \in Boards \ {b} : contacts'[d] = contacts[d] /\ staged'[d] = staged[d]
         /\ staged'[b] = "PairActivate"
    BY <1>1, <1>2 DEF Sound, Shape
  <1>11. Spent(b)'
    <2>1. Used(b)' \subseteq Used(b) \union {c.root}
      BY <1>1, <1>2, <1>10 DEF Used, Taken
    <2>2. c.root.t[1].eph > left.offers /\ c.root.t[2].eph > left.offers
      BY <1>3, <1>4, <1>5
    <2> QED BY <1>1, <2>1, <2>2 DEF Exclusive, Spent
  <1>12. Distinct(contacts, b)'
    BY <1>2, <1>4, <1>6, <1>10 DEF Exclusive, Distinct, Taken
  <1>13. Kept(b)' /\ Distinct(flash, b)'
    BY <1>1 DEF Exclusive, Kept, Distinct, Taken
  <1>14. Open(b)'
    BY <1>10 DEF Open
  <1>15. left.offers \in Nat
    BY DEF Sound, Shape
  <1>16. /\ DOMAIN activated' = Boards
         /\ \A d \in Boards \ {b} : activated'[d] = activated[d]
    BY <1>1 DEF Exclusive
  <1>17. BoardExclusive(b)'
    BY <1>9, <1>11, <1>12, <1>13 DEF BoardExclusive
  <1>18. \A d \in Boards \ {b} :
            /\ pending'[d] = pending[d] /\ contacts'[d] = contacts[d] /\ flash'[d] = flash[d]
            /\ staged'[d] = staged[d] /\ (d \in fault' <=> d \in fault)
            /\ durable'[d] = durable[d] /\ activated'[d] = activated[d]
    BY <1>1, <1>10, <1>16
  <1>19. durable' \in [Boards -> SUBSET Roots] /\ left' = left
    BY <1>1 DEF Exclusive
  <1> QED BY <1>14, <1>15, <1>16, <1>17, <1>18, <1>19, ExclusiveStep

\* The snapshot is written: what the record holds was used already.
LEMMA ExclusiveWrite ==
    ASSUME Sound, Exclusive, NEW b \in Boards, Write(b) \/ UNCHANGED <<flash, durable>>,
           UNCHANGED <<contacts, activated>>, left'.offers = left.offers,
           \A d \in Boards \ {b} :
              pending'[d] = pending[d] /\ staged'[d] = staged[d] /\ (d \in fault' <=> d \in fault),
           b \in fault' \/ pending'[b] = None
              \/ (staged[b] /= "PairActivate" /\ pending'[b] = pending[b] /\ fault' = fault)
    PROVE  Exclusive'
  <1>1. /\ durable \in [Boards -> SUBSET Roots] /\ left.offers \in Nat
        /\ \A d \in Boards : \A s \in Taken(contacts, d) : contacts[d][s].root \in Roots
        /\ contacts \in [Boards -> [Slots -> {None} \union Contacts]]
        /\ flash \in [Boards -> [Slots -> {None} \union Contacts]]
    BY DEF Exclusive, Sound, Shape, Taken, Contacts
  <1>2. Slots \ FreeSlots(b) = Taken(contacts, b)
    BY DEF FreeSlots, Taken
  <1>3. Taken(contacts, b)' = Taken(contacts, b)
    BY DEF Taken
  <1>4. \/ flash'[b] = contacts[b] /\ durable'[b] = Used(b)
        \/ flash'[b] = flash[b] /\ durable'[b] = durable[b]
    BY <1>1, <1>2 DEF Write, Used
  <1>5. /\ durable' \in [Boards -> SUBSET Roots]
        /\ \A d \in Boards \ {b} : flash'[d] = flash[d] /\ durable'[d] = durable[d]
    BY <1>1, <1>2 DEF Write
  <1>6. Used(b)' = Used(b)
    BY <1>3, <1>4 DEF Used
  <1>7. Open(b)'
    BY <1>3, <1>6 DEF Exclusive, Open
  <1>8. Spent(b)' /\ Distinct(contacts, b)' /\ FirstTime(b)'
    BY <1>3, <1>6 DEF Exclusive, Spent, Distinct, FirstTime
  <1>9. Kept(b)' /\ Distinct(flash, b)'
    <2>1. CASE flash'[b] = contacts[b] /\ durable'[b] = Used(b)
      <3>1. Taken(flash, b)' = Taken(contacts, b)
        BY <2>1 DEF Taken
      <3> QED BY <2>1, <3>1 DEF Exclusive, Kept, Distinct, Used
    <2>2. CASE flash'[b] = flash[b] /\ durable'[b] = durable[b]
      <3>1. Taken(flash, b)' = Taken(flash, b)
        BY <2>2 DEF Taken
      <3> QED BY <2>2, <3>1 DEF Exclusive, Kept, Distinct
    <2> QED BY <1>4, <2>1, <2>2
  <1>10. BoardExclusive(b)'
    BY <1>8, <1>9 DEF BoardExclusive
  <1> QED BY <1>1, <1>5, <1>7, <1>10, ExclusiveStep DEF Exclusive

\* A commit of an activation ends the ceremony, a failed one the use of the board.
LEMMA ExclusiveCommit ==
    ASSUME Sound, Exclusive, NEW b \in Boards, CommitOk(b) \/ CommitFails(b) PROVE Exclusive'
  <1>1. /\ Write(b) \/ UNCHANGED <<flash, durable>>
        /\ UNCHANGED <<contacts, activated>> /\ left'.offers = left.offers
    BY DEF CommitOk, CommitFails, Mishap, Sound, Shape
  <1>2. \A d \in Boards \ {b} :
           pending'[d] = pending[d] /\ staged'[d] = staged[d] /\ (d \in fault' <=> d \in fault)
    BY DEF CommitOk, CommitFails, Sound, Shape
  <1>3. b \in fault' \/ pending'[b] = None
           \/ (staged[b] /= "PairActivate" /\ pending'[b] = pending[b] /\ fault' = fault)
    BY DEF CommitOk, CommitFails, Sound, Shape
  <1> QED BY <1>1, <1>2, <1>3, ExclusiveWrite

\* A restart forgets the ceremony and goes back to contacts whose roots are durable.
LEMMA ExclusiveReboot ==
    ASSUME Sound, Exclusive, NEW b \in Boards, Reboot(b) PROVE Exclusive'
  <1>1. /\ UNCHANGED <<flash, durable, activated>> /\ left'.offers = left.offers
        /\ pending'[b] = None /\ contacts'[b] = flash[b]
        /\ \A d \in Boards \ {b} :
              /\ pending'[d] = pending[d] /\ contacts'[d] = contacts[d]
              /\ staged'[d] = staged[d] /\ (d \in fault' <=> d \in fault)
    BY DEF Reboot, Mishap, Sound, Shape
  <1>2. Taken(contacts, b)' = Taken(flash, b) /\ Taken(flash, b)' = Taken(flash, b)
    BY <1>1 DEF Taken
  <1>3. Used(b)' \subseteq Used(b)
    BY <1>1, <1>2 DEF Used, Exclusive, Kept
  <1>4. Open(b)'
    BY <1>1 DEF Open
  <1>5. BoardExclusive(b)'
    BY <1>1, <1>2, <1>3 DEF Exclusive, BoardExclusive, Spent, Kept, Distinct, FirstTime
  <1>6. left.offers \in Nat
    BY DEF Sound, Shape
  <1> QED BY <1>1, <1>4, <1>5, <1>6, ExclusiveStep DEF Exclusive

\* delete_contact frees a slot; the root stays used in the record.
LEMMA ExclusiveDelete ==
    ASSUME Sound, Exclusive, NEW b \in Boards, NEW u \in Slots, DeleteContact(b, u), ~Batched
    PROVE  Exclusive'
  <1>1. /\ UNCHANGED <<pending, flash, fault, durable, activated>> /\ left'.offers = left.offers
        /\ staged[b] = "clean" /\ b \notin fault
        /\ \A s \in Slots : contacts'[b][s] = IF s = u THEN None ELSE contacts[b][s]
        /\ \A d \in Boards \ {b} : contacts'[d] = contacts[d] /\ staged'[d] = staged[d]
    BY DEF DeleteContact, Usable, Mishap, Sound, Shape
  <1>2. /\ Taken(contacts, b)' \subseteq Taken(contacts, b)
        /\ \A s \in Taken(contacts, b)' : contacts'[b][s] = contacts[b][s]
        /\ Taken(flash, b)' = Taken(flash, b)
    BY <1>1 DEF Taken
  <1>3. Used(b)' \subseteq Used(b)
    BY <1>1, <1>2 DEF Used
  <1>4. Open(b)'
    <2> SUFFICES ASSUME pending[b] /= None PROVE Open(b)'
      BY <1>1 DEF Open
    <2>1. pending[b].slot \in Slots
      BY SoundPending
    <2> QED BY <1>1, <1>2, <1>3, <2>1 DEF Exclusive, Open
  <1>5. BoardExclusive(b)'
    BY <1>1, <1>2, <1>3 DEF Exclusive, BoardExclusive, Spent, Kept, Distinct, FirstTime
  <1>6. left.offers \in Nat
    BY DEF Sound, Shape
  <1> QED BY <1>1, <1>4, <1>5, <1>6, ExclusiveStep DEF Exclusive

\* Every step of a board that commits after every command keeps this.
LEMMA StepExclusive ==
    ASSUME ~Batched PROVE Sound /\ Exclusive /\ [Next]_vars => Exclusive'
  <1> SUFFICES ASSUME Sound, Exclusive, [Next]_vars PROVE Exclusive'
    OBVIOUS
  <1>1. ASSUME NEW b \in Boards, PairOffer(b) \/ PairProof(b) \/ PairConfirm(b) \/ Expire(b)
        PROVE  Exclusive'
    BY <1>1, ExclusiveOffer, ExclusiveProofs
  <1>2. ASSUME NEW b \in Boards, NEW r \in records, Import(b, r) PROVE Exclusive'
    BY <1>2, ExclusiveImportOffer, ExclusiveProofs, ExclusiveImportConfirm DEF Import
  <1>3. ASSUME NEW b \in Boards, CommitOk(b) \/ CommitFails(b) \/ Reboot(b) \/ StageOther(b)
        PROVE  Exclusive'
    BY <1>3, ExclusiveCommit, ExclusiveReboot, ExclusiveStageOther
  <1>4. ASSUME NEW b \in Boards, NEW s \in Slots, DeleteContact(b, s) PROVE Exclusive'
    BY <1>4, ExclusiveDelete
  <1>5. CASE UNCHANGED vars
    BY <1>5 DEF vars, Exclusive, Open, Spent, Used, Kept, Distinct, Taken, FirstTime
  <1> QED BY <1>1, <1>2, <1>3, <1>4, <1>5 DEF Next

\* A board whose image commits after every command never has two contacts with one peer,
\* and an activation never takes a slot in use (import_offer, import_confirm).
THEOREM OneContactAlways == ASSUME ~Batched PROVE Spec => []OneContactPerPeer
  <1>1. Exclusive => OneContactPerPeer
    BY DEF Exclusive, Distinct, Taken, FirstTime, OneContactPerPeer, FreeSlots
  <1> QED BY InitSound, StepSound, InitExclusive, StepExclusive, <1>1, PTL DEF Spec

\* Nor does it ever start the sequence numbers of a root over (activate_contact).
THEOREM RootFresh == ASSUME ~Batched PROVE Spec => []RootNeverRestarted
  <1>1. Exclusive => RootNeverRestarted
    BY DEF Exclusive, FirstTime, RootNeverRestarted
  <1> QED BY InitSound, StepSound, InitExclusive, StepExclusive, <1>1, PTL DEF Spec
=============================================================================
