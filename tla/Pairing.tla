------------------------------- MODULE Pairing -------------------------------
(***************************************************************************)
(* The pairing ceremony of crates/mesh-node/src/engine.rs over the records *)
(* of crates/mesh-core/src/pairing.rs: two boards exchange an offer, a     *)
(* proof and a confirmation, which an operator carries by hand, in any     *)
(* order, as often and to whichever board he likes, and a confirmation     *)
(* turns the peer into a contact.                                          *)
(*                                                                         *)
(* Abstractions.                                                           *)
(*  - A board is a number, its Ed25519 key: numbers order as keys do.  An  *)
(*    ephemeral key is its offer's number, a transcript the two offers in  *)
(*    order, the Diffie-Hellman secret the set of the two ephemeral keys,  *)
(*    and a derived key what it is derived from.  A proof is what it signs *)
(*    and the key it is sealed with, a confirmation its MAC's key and what *)
(*    that covers.  No record is forged.                                   *)
(*  - Boards are provisioned and have their radio off.  The operator       *)
(*    always says that the fingerprints match.                             *)
(*  - pair_cancel is left out: no USB command reaches it.                  *)
(***************************************************************************)
EXTENDS Naturals, Sequences

CONSTANTS
    Boards,           \* boards, each its signing key as a number
    MaxContacts,      \* MAX_CONTACTS, 16 in the code
    Batched,          \* whether a command may run before the last one's commit
    Experiments,      \* bounds: the boards that take part, how many offers they make and
                      \* how many restarts, failed writes, expiries and other commands happen
    None              \* Option::None

ASSUME PairingAssumption ==
    /\ Boards \subseteq Nat
    /\ MaxContacts \in Nat \ {0}
    /\ Batched \in BOOLEAN
    /\ Experiments \subseteq [boards : SUBSET Boards, offers : Nat, mishaps : Nat]
    /\ None \notin Nat

VARIABLES
    pending,          \* board -> PendingPair, or None
    contacts,         \* board -> slot -> contact, or None
    flash,            \* board -> the contacts of the durable record
    staged,           \* board -> StagedCommit, "clean" when there is nothing to commit
    fault,            \* boards whose store failed
    records,          \* records some board has shown
    left,             \* what is left of the experiment
    durable,          \* history: board -> roots its record has ever held
    activated         \* history: board -> its activations: what the slot held, and whether
                      \* the record had held the root before

vars == <<pending, contacts, flash, staged, fault, records, left, durable, activated>>

Slots == 1 .. MaxContacts

NoContacts == [s \in Slots |-> None]

Init ==
    /\ pending = [b \in Boards |-> None]
    /\ contacts = [b \in Boards |-> NoContacts]
    /\ flash = contacts
    /\ staged = [b \in Boards |-> "clean"]
    /\ fault = {}
    /\ records = {}
    /\ left \in Experiments
    /\ durable = [b \in Boards |-> {}]
    /\ activated = [b \in Boards |-> {}]

-----------------------------------------------------------------------------
(* Records and what they are made from.                                    *)

\* encode_offer_record and decode_offer_record, and so on: strict inverses, told apart
\* by their type byte.
OfferRecord(offer) == [kind |-> "offer", offer |-> offer]
ProofRecord(t, role, by, key) ==
    [kind |-> "proof", t |-> t, role |-> role, by |-> by, key |-> key]
Confirmation(t, role, proofs, key) ==
    [kind |-> "confirm", t |-> t, role |-> role, proofs |-> proofs, key |-> key]

\* role_for: L has the smaller key.
RoleFor(own, peer) == IF own < peer THEN "L" ELSE "R"

\* transcript_t of two offers, ordered by signing key.
TranscriptT(own, peer) == IF own.ed <= peer.ed THEN <<own, peer>> ELSE <<peer, own>>

\* derive_root of a shared secret, with the transcript as salt.
DeriveRoot(dh, t) == [dh |-> dh, t |-> t]

\* pair_root: this board's ephemeral key with that of the offer imported last.
PairRoot(p) == DeriveRoot({p.own.eph, p.peer.eph}, p.t)

\* setup_keys: the key under which the side with this role seals its proof.
SetupKeys(p, role) == [root |-> PairRoot(p), out |-> role]

\* Proofs in canonical order, L first.
Ordered(role, own, peer) == IF role = "L" THEN <<own, peer>> ELSE <<peer, own>>

FreeSlots(b) == { s \in Slots : contacts[b][s] = None }

\* Mutant of FirstFree: the position in the array, for a slot numbered from one.
FirstFreeFromZero(b) == (CHOOSE s \in FreeSlots(b) : \A u \in FreeSlots(b) : s <= u) - 1

\* free_slot
FirstFree(b) == CHOOSE s \in FreeSlots(b) : \A u \in FreeSlots(b) : s <= u

\* check_usable and require_radio_off; a command of the next batch finds the last one
\* committed, a command of the same batch may not.
Usable(b) == b \notin fault /\ (Batched \/ staged[b] = "clean")

\* The ceremony is there and not over its 600 seconds.
Live(b) == Usable(b) /\ pending[b] /= None /\ ~pending[b].expired

Show(record) == records' = records \union {record}

-----------------------------------------------------------------------------
(* Exports.                                                                *)

\* pair_offer of a new ceremony; an expired one is replaced.  While one is live its offer,
\* already shown, is shown again.
PairOffer(b) ==
    /\ Usable(b)
    /\ pending[b] /= None => pending[b].expired
    /\ FreeSlots(b) /= {}
    /\ b \in left.boards /\ left.offers > 0
    /\ left' = [left EXCEPT !.offers = @ - 1]
    /\ LET own == [ed |-> b, eph |-> left.offers] IN
       /\ Show(OfferRecord(own))
       /\ pending' = [pending EXCEPT ![b] =
             [own |-> own, peer |-> None, t |-> None, role |-> "L",
              own_proof |-> None, peer_proof |-> None, own_confirm |-> None,
              slot |-> FirstFree(b), expired |-> FALSE]]
    /\ UNCHANGED <<contacts, flash, staged, fault, durable, activated>>

\* pair_proof: made once, then the saved one is shown, whatever was imported since.
PairProof(b) ==
    /\ Live(b)
    /\ pending[b].t /= None
    /\ pending[b].own_proof = None
    /\ LET p == pending[b]
           proof == ProofRecord(p.t, p.role, b, SetupKeys(p, p.role)) IN
       /\ pending' = [pending EXCEPT ![b].own_proof = proof]
       /\ Show(proof)
    /\ UNCHANGED <<contacts, flash, staged, fault, left, durable, activated>>

\* pair_confirm: made once, from the proofs as they are then.
PairConfirm(b) ==
    /\ Live(b)
    /\ LET p == pending[b]
           conf == Confirmation(p.t, p.role, Ordered(p.role, p.own_proof, p.peer_proof),
                                PairRoot(p)) IN
       /\ p.t /= None /\ p.own_proof /= None /\ p.peer_proof /= None
       /\ p.own_confirm = None
       /\ pending' = [pending EXCEPT ![b].own_confirm = conf]
       /\ Show(conf)
    /\ UNCHANGED <<contacts, flash, staged, fault, left, durable, activated>>

-----------------------------------------------------------------------------
(* Imports.                                                                *)

\* check_not_self, and the signing key belongs to no contact.
NewPeer(b, offer) ==
    /\ offer.ed /= b
    /\ \A s \in Slots : contacts[b][s] /= None => contacts[b][s].peer /= offer.ed

\* import_offer.  A second offer replaces the first, but not the proofs; with replace the
\* slot of the ceremony stays.
ImportOffer(b, record, replace) ==
    /\ Live(b)
    /\ record.kind = "offer"
    /\ NewPeer(b, record.offer)
    /\ replace \/ FreeSlots(b) /= {}
    /\ pending' = [pending EXCEPT
          ![b].peer = record.offer,
          ![b].t = TranscriptT(pending[b].own, record.offer),
          ![b].role = RoleFor(b, record.offer.ed),
          ![b].slot = IF replace THEN @ ELSE FirstFree(b)]
    /\ UNCHANGED <<contacts, flash, staged, fault, records, left, durable, activated>>

\* decrypt_data of a proof, with transcript and role as associated data.
Opens(p, proof, role) == proof.key = SetupKeys(p, role) /\ proof.t = p.t /\ proof.role = role

\* import_proof's checks: transcript, the peer's role, signed by the key of its offer,
\* and sealed under the peer's setup key.
ProofFits(p, proof) ==
    /\ proof.t = p.t /\ proof.role /= p.role
    /\ proof.by = p.peer.ed
    /\ Opens(p, proof, proof.role)

ImportProof(b, record) ==
    /\ Live(b)
    /\ record.kind = "proof"
    /\ pending[b].t /= None
    /\ ProofFits(pending[b], record)
    /\ pending' = [pending EXCEPT ![b].peer_proof = record]
    /\ UNCHANGED <<contacts, flash, staged, fault, records, left, durable, activated>>

\* Mutant of ConfirmFits: the MAC covers the transcript and the role only.
ConfirmFitsLoosely(p, conf) ==
    /\ conf.t = p.t /\ conf.role /= p.role
    /\ p.own_proof /= None /\ p.peer_proof /= None

\* import_confirm's checks: transcript, role, the MAC over both proofs, and the stored
\* proof of the peer still opens under the keys of this transcript.
ConfirmFits(p, conf) ==
    /\ conf.t = p.t /\ conf.role /= p.role
    /\ p.own_proof /= None /\ p.peer_proof /= None
    /\ conf.proofs = Ordered(p.role, p.own_proof, p.peer_proof)
    /\ conf.key = PairRoot(p)
    /\ Opens(p, p.peer_proof, conf.role)

\* import_confirm with sas_match, activate_contact and stage_persist.
ImportConfirm(b, record) ==
    /\ Live(b)
    /\ record.kind = "confirm"
    /\ pending[b].t /= None
    /\ ConfirmFits(pending[b], record)
    /\ LET p == pending[b] IN
       /\ contacts' = [contacts EXCEPT ![b][p.slot] =
                          [peer |-> p.peer.ed, root |-> PairRoot(p), role |-> p.role]]
       /\ activated' = [activated EXCEPT ![b] = @ \union
                 {[over |-> contacts[b][p.slot], again |-> PairRoot(p) \in durable[b]]}]
    /\ staged' = [staged EXCEPT ![b] = "PairActivate"]
    /\ UNCHANGED <<pending, flash, fault, records, left, durable>>

-----------------------------------------------------------------------------
(* Commits, and what else happens to a board.                              *)

\* The snapshot of the present contacts reaches the flash.
Write(b) ==
    /\ flash' = [flash EXCEPT ![b] = contacts[b]]
    /\ durable' = [durable EXCEPT ![b] =
          @ \union { contacts[b][s].root : s \in Slots \ FreeSlots(b) }]

\* Mutant of CommitOk: the ceremony stays after its contact was committed.
CommitKeepsCeremony(b) ==
    /\ staged[b] /= "clean"
    /\ Write(b)
    /\ staged' = [staged EXCEPT ![b] = "clean"]
    /\ UNCHANGED <<pending, contacts, fault, records, left, activated>>

\* The staged snapshot is written, then commit_ok: an activation ends the ceremony.
CommitOk(b) ==
    /\ staged[b] /= "clean"
    /\ Write(b)
    /\ staged' = [staged EXCEPT ![b] = "clean"]
    /\ pending' = [pending EXCEPT ![b] = IF staged[b] = "PairActivate" THEN None ELSE @]
    /\ UNCHANGED <<contacts, fault, records, left, activated>>

Mishap == left.mishaps > 0 /\ left' = [left EXCEPT !.mishaps = @ - 1]

\* The write is reported as failed, having happened or not: discard_staged, mark_fault.
CommitFails(b) ==
    /\ Mishap
    /\ staged[b] /= "clean"
    /\ Write(b) \/ UNCHANGED <<flash, durable>>
    /\ staged' = [staged EXCEPT ![b] = "clean"]
    /\ fault' = fault \union {b}
    /\ UNCHANGED <<pending, contacts, records, activated>>

\* Power is lost: the ceremony lives in RAM only.
Reboot(b) ==
    /\ Mishap
    /\ pending' = [pending EXCEPT ![b] = None]
    /\ contacts' = [contacts EXCEPT ![b] = flash[b]]
    /\ staged' = [staged EXCEPT ![b] = "clean"]
    /\ fault' = fault \ {b}
    /\ UNCHANGED <<flash, records, durable, activated>>

\* is_expired: ten minutes have passed since the offer was made.
Expire(b) ==
    /\ Mishap
    /\ pending[b] /= None
    /\ ~pending[b].expired
    /\ pending' = [pending EXCEPT ![b].expired = TRUE]
    /\ UNCHANGED <<contacts, flash, staged, fault, records, durable, activated>>

\* delete_contact, which stages a snapshot of its own.
DeleteContact(b, s) ==
    /\ Mishap
    /\ Usable(b)
    /\ contacts[b][s] /= None
    /\ contacts' = [contacts EXCEPT ![b][s] = None]
    /\ staged' = [staged EXCEPT ![b] = "other"]
    /\ UNCHANGED <<pending, flash, fault, records, durable, activated>>

\* set_time, radio_arm_next_boot and the other commands that stage a snapshot.
StageOther(b) ==
    /\ Mishap
    /\ Usable(b)
    /\ staged' = [staged EXCEPT ![b] = "other"]
    /\ UNCHANGED <<pending, contacts, flash, fault, records, durable, activated>>

-----------------------------------------------------------------------------

Import(b, r) ==
    \/ \E replace \in BOOLEAN : ImportOffer(b, r, replace)
    \/ ImportProof(b, r)
    \/ ImportConfirm(b, r)

Next ==
    \E b \in Boards :
        \/ PairOffer(b) \/ PairProof(b) \/ PairConfirm(b)
        \/ \E r \in records : Import(b, r)
        \/ CommitOk(b) \/ CommitFails(b) \/ Reboot(b) \/ Expire(b) \/ StageOther(b)
        \/ \E s \in Slots : DeleteContact(b, s)

Spec == Init /\ [][Next]_vars

-----------------------------------------------------------------------------

Offers == [ed : Boards, eph : Nat]

TypeOK ==
    /\ \A b \in Boards, s \in Slots :
          contacts[b][s] \in {None} \union
             [peer : Boards, root : [dh : SUBSET Nat, t : Offers \X Offers], role : {"L", "R"}]
    /\ \A b \in Boards : pending[b] /= None =>
          pending[b].own \in Offers /\ pending[b].slot \in Slots
    /\ \A b \in Boards : staged[b] \in {"clean", "PairActivate", "other"}

\* A contact is the outcome of one ceremony that both boards went through: the root comes
\* from an offer of each, the roles are opposite, and the peer, with the same root, has
\* confirmed the two proofs of this very transcript, not those of an offer that was replaced since.
Agreement ==
    \A b \in Boards, s \in Slots :
        LET c == contacts[b][s] IN
        c /= None =>
            LET left_offer == c.root.t[1]
                right_offer == c.root.t[2]
                proof(role, by) == ProofRecord(c.root.t, role, by, [root |-> c.root, out |-> role])
                peer_role == IF c.role = "L" THEN "R" ELSE "L"
            IN /\ { left_offer.ed, right_offer.ed } = {b, c.peer}
               /\ c.root.dh = { left_offer.eph, right_offer.eph }
               /\ c.role = IF left_offer.ed = b THEN "L" ELSE "R"
               /\ Confirmation(c.root.t, peer_role,
                     <<proof("L", left_offer.ed), proof("R", right_offer.ed)>>, c.root) \in records

\* A board has no two contacts with one peer, and none is overwritten by another: both
\* were checked when the offer was imported, and the contact is made long after it.
OneContactPerPeer ==
    \A b \in Boards :
        /\ \A s, u \in Slots \ FreeSlots(b) : s /= u => contacts[b][s].peer /= contacts[b][u].peer
        /\ \A a \in activated[b] : a.over = None

\* No contact is made under a root that the board's record has held before.
\* activate_contact starts the sequence numbers at zero, so the old root again would be
\* the old keys and nonces again: importing a confirmation once more must not do it.
RootNeverRestarted ==
    \A b \in Boards : \A a \in activated[b] : ~a.again
=============================================================================
