---------------------------- MODULE EngineProofs ----------------------------
(***************************************************************************)
(* For every value of the constants: what each operation of Engine does to *)
(* a Good set of contacts (any number of contacts, any block size, window  *)
(* width and limits on numbers, epochs and ceremonies); then that every    *)
(* action preserves the inductive invariant, and the properties follow.    *)
(***************************************************************************)
EXTENDS Engine, WindowLemmas

AllContacts == [Contacts -> Contact]

\* The windows of a new contact are windows.
LEMMA FreshType == Fresh \in [Epochs -> ReplayWindow]
  BY NewWindowType DEF Fresh

\* An empty slot is a contact that decode_view accepts.
LEMMA EmptyContactType == EmptyContact \in Contact /\ WindowsStorable(EmptyContact)
  <1>1. 0 \in Epochs
    BY EngineAssumption DEF Epochs
  <1>2. EmptyContact \in Contact
    BY <1>1, FreshType DEF EmptyContact, Contact
  <1>3. WindowsStorable(EmptyContact)
    BY NewWindowType DEF EmptyContact, Fresh, WindowsStorable
  <1> QED BY <1>2, <1>3

\* Writing tx_reserved changes nothing else in a contact.
LEMMA SetReserved ==
    ASSUME NEW ct \in Contact, NEW n \in Nat
    PROVE  LET new == [ct EXCEPT !.tx_reserved = n]
           IN  /\ new \in Contact
               /\ new.present = ct.present /\ new.blocked = ct.blocked /\ new.root = ct.root
               /\ new.tx_next = ct.tx_next /\ new.tx_reserved = n
               /\ new.tx_epoch_max = ct.tx_epoch_max /\ new.anchor = ct.anchor
               /\ new.win_data = ct.win_data /\ new.win_ack = ct.win_ack
  BY DEF Contact

\* Taking a number moves tx_next and tx_epoch_max and nothing else.
LEMMA TakeNumberFields ==
    ASSUME NEW ct \in Contact, NEW e \in Epochs
    PROVE  /\ TakeNumber(ct, e) \in Contact
           /\ TakeNumber(ct, e).present = ct.present
           /\ TakeNumber(ct, e).blocked = ct.blocked /\ TakeNumber(ct, e).root = ct.root
           /\ TakeNumber(ct, e).tx_next = ct.tx_next + 1
           /\ TakeNumber(ct, e).tx_reserved = ct.tx_reserved
           /\ TakeNumber(ct, e).tx_epoch_max = Max2(ct.tx_epoch_max, e)
           /\ TakeNumber(ct, e).anchor = ct.anchor
           /\ TakeNumber(ct, e).win_data = ct.win_data /\ TakeNumber(ct, e).win_ack = ct.win_ack
  <1> DEFINE n == ct.tx_next + 1
             m == Max2(ct.tx_epoch_max, e)
  <1>1. n \in Nat
    BY DEF Contact
  <1>2. m \in Epochs
    BY DEF Contact, Max2
  <1>3. TakeNumber(ct, e) = [ct EXCEPT !.tx_next = n, !.tx_epoch_max = m]
    BY DEF TakeNumber
  <1> HIDE DEF n, m
  <1> DEFINE new == [ct EXCEPT !.tx_next = n, !.tx_epoch_max = m]
  <1>4. /\ new \in Contact
        /\ new.present = ct.present /\ new.blocked = ct.blocked /\ new.root = ct.root
        /\ new.tx_next = n /\ new.tx_reserved = ct.tx_reserved
        /\ new.tx_epoch_max = m /\ new.anchor = ct.anchor
        /\ new.win_data = ct.win_data /\ new.win_ack = ct.win_ack
    BY <1>1, <1>2 DEF Contact
  <1> QED BY <1>3, <1>4 DEF n, m

-----------------------------------------------------------------------------
(* What the operations do to a Good set of contacts.                       *)

\* set_time_confirmed: moving every anchor forward retires windows but lets no
\* delivered message back in.
LEMMA GoodAdvance ==
    ASSUME NEW cs \in AllContacts, NEW epoch \in Epochs, NEW frames, NEW keys \in SUBSET Keys,
           NEW rs \in Nat, Good(cs, epoch, frames, keys, rs),
           NEW e \in Epochs, \A c \in Contacts : cs[c].present => e >= cs[c].anchor
    PROVE  LET new == [c \in Contacts |-> AdvanceContact(cs[c], e)]
           IN  new \in AllContacts /\ Good(new, epoch, frames, keys, rs)
  <1> DEFINE new == [c \in Contacts |-> AdvanceContact(cs[c], e)]
  <1> USE EngineAssumption
  <1>1. ASSUME NEW w \in [Epochs -> ReplayWindow], NEW a \in Epochs
        PROVE  AdvanceWindows(w, a, e) \in [Epochs -> ReplayWindow]
    BY <1>1, NewWindowType DEF AdvanceWindows
  <1>2. ASSUME NEW c \in Contacts
        PROVE  /\ new[c] \in Contact
               /\ new[c].present = cs[c].present /\ new[c].root = cs[c].root
               /\ new[c].tx_next = cs[c].tx_next /\ new[c].tx_reserved = cs[c].tx_reserved
               /\ new[c].tx_epoch_max = cs[c].tx_epoch_max
               /\ ~cs[c].present => new[c] = cs[c]
               /\ cs[c].present =>
                    /\ new[c].anchor = e
                    /\ new[c].win_data = AdvanceWindows(cs[c].win_data, cs[c].anchor, e)
                    /\ new[c].win_ack = AdvanceWindows(cs[c].win_ack, cs[c].anchor, e)
    <2>1. cs[c] \in Contact
      BY DEF AllContacts
    <2>2. /\ AdvanceWindows(cs[c].win_data, cs[c].anchor, e) \in [Epochs -> ReplayWindow]
          /\ AdvanceWindows(cs[c].win_ack, cs[c].anchor, e) \in [Epochs -> ReplayWindow]
      BY <1>1, <2>1 DEF Contact
    <2> QED BY <2>1, <2>2 DEF AdvanceContact, Contact
  <1>3. new \in AllContacts
    BY <1>2 DEF AllContacts
  <1> HIDE DEF new
  <1>4. GoodRoots(new, rs)
    BY <1>2 DEF Good, GoodRoots
  <1>5. GoodTx(new, epoch, frames)
    BY <1>2 DEF Good, GoodTx, Below
  <1>6. ASSUME NEW c \in Contacts PROVE WindowsStorable(new[c])
    <2>1. WindowsStorable(cs[c])
      BY DEF Good, GoodRx
    <2>2. CASE cs[c].present
      <3> SUFFICES ASSUME NEW s \in Epochs
                   PROVE  WellFormed(new[c].win_data[s]) /\ WellFormed(new[c].win_ack[s])
        BY DEF WindowsStorable
      <3>0. /\ new[c].win_data = AdvanceWindows(cs[c].win_data, cs[c].anchor, e)
            /\ new[c].win_ack = AdvanceWindows(cs[c].win_ack, cs[c].anchor, e)
        BY <1>2, <2>2
      <3>1. /\ new[c].win_data[s] = cs[c].win_data[s] \/ new[c].win_data[s] = NewWindow
            /\ new[c].win_ack[s] = cs[c].win_ack[s] \/ new[c].win_ack[s] = NewWindow
        BY <3>0 DEF AdvanceWindows
      <3>2. WellFormed(cs[c].win_data[s]) /\ WellFormed(cs[c].win_ack[s])
        BY <2>1 DEF WindowsStorable
      <3> QED BY <3>1, <3>2, NewWindowType
    <2>3. CASE ~cs[c].present
      BY <1>2, <2>1, <2>3
    <2> QED BY <2>2, <2>3
  <1>7. ASSUME NEW k \in keys PROVE Refuses(new, k)
    <2> SUFFICES ASSUME NEW c \in Contacts, new[c].present, new[c].root = k.root
                 PROVE  \/ k.epoch < new[c].anchor /\ k.epoch \notin Slots(new[c].anchor)
                        \/ /\ k.epoch \in Slots(new[c].anchor)
                           /\ Verdict(new[c].win_data[k.epoch], k.seq) /= "Accepted"
      BY DEF Refuses
    <2>1. \/ k.epoch < cs[c].anchor /\ k.epoch \notin Slots(cs[c].anchor)
          \/ /\ k.epoch \in Slots(cs[c].anchor)
             /\ Verdict(cs[c].win_data[k.epoch], k.seq) /= "Accepted"
      BY <1>2 DEF Good, GoodRx, Refuses
    <2>2. /\ k.epoch \in Epochs /\ cs[c].anchor \in Epochs /\ e >= cs[c].anchor
          /\ new[c].anchor = e
          /\ new[c].win_data = AdvanceWindows(cs[c].win_data, cs[c].anchor, e)
      BY <1>2 DEF Keys, AllContacts, Contact
    <2>3. CASE k.epoch \in Slots(cs[c].anchor) /\ k.epoch \in Slots(e)
      <3>1. new[c].win_data[k.epoch] = cs[c].win_data[k.epoch]
        BY <2>2, <2>3 DEF AdvanceWindows
      <3>2. Verdict(cs[c].win_data[k.epoch], k.seq) /= "Accepted"
        BY <2>1, <2>3
      <3> QED BY <2>2, <2>3, <3>1, <3>2
    <2>4. CASE ~(k.epoch \in Slots(cs[c].anchor) /\ k.epoch \in Slots(e))
      BY <2>1, <2>2, <2>4 DEF Slots, Epochs
    <2> QED BY <2>3, <2>4
  <1>8. new \in AllContacts /\ Good(new, epoch, frames, keys, rs)
    BY <1>3, <1>4, <1>5, <1>6, <1>7 DEF Good, GoodRx
  <1> QED BY <1>8 DEF new

\* activate_contact: a new root, on which nothing was sent or received.
LEMMA GoodActivate ==
    ASSUME NEW cs \in AllContacts, NEW epoch \in Epochs, NEW frames, NEW keys, NEW rs \in Nat,
           Good(cs, epoch, frames, keys, rs),
           \A f \in frames : f.root \in Nat /\ f.root <= rs,
           \A k \in keys : k.root \in Nat /\ k.root <= rs,
           NEW c \in Contacts, NEW e \in Epochs
    PROVE  LET new == [cs EXCEPT ![c] = NewContact(rs + 1, e)]
           IN  new \in AllContacts /\ Good(new, epoch, frames, keys, rs + 1)
  <1> DEFINE new == [cs EXCEPT ![c] = NewContact(rs + 1, e)]
  <1> USE EngineAssumption
  <1>1. /\ NewContact(rs + 1, e) \in Contact
        /\ NewContact(rs + 1, e).present /\ NewContact(rs + 1, e).root = rs + 1
        /\ NewContact(rs + 1, e).tx_next <= NewContact(rs + 1, e).tx_reserved
        /\ WindowsStorable(NewContact(rs + 1, e))
    <2>1. 0 \in Epochs
      BY DEF Epochs
    <2>2. NewContact(rs + 1, e) \in Contact
      BY <2>1, FreshType DEF NewContact, Contact
    <2>3. WindowsStorable(NewContact(rs + 1, e))
      BY NewWindowType DEF NewContact, Fresh, WindowsStorable
    <2> QED BY <2>2, <2>3 DEF NewContact
  <1>2. /\ new \in AllContacts /\ new[c] = NewContact(rs + 1, e)
        /\ \A d \in Contacts : d /= c => new[d] = cs[d]
    BY <1>1 DEF AllContacts
  <1>3. \A d \in Contacts : cs[d].present => cs[d].root \in 1 .. rs
    BY DEF Good, GoodRoots
  <1>4. GoodRoots(new, rs + 1)
    BY <1>1, <1>2, <1>3 DEF Good, GoodRoots
  <1>5. GoodTx(new, epoch, frames)
    BY <1>1, <1>2 DEF Good, GoodTx, Below
  <1>6. GoodRx(new, keys)
    BY <1>1, <1>2 DEF Good, GoodRx, Refuses
  <1> QED BY <1>2, <1>4, <1>5, <1>6 DEF Good

\* delete_contact
LEMMA GoodDelete ==
    ASSUME NEW cs \in AllContacts, NEW epoch, NEW frames, NEW keys, NEW rs \in Nat,
           Good(cs, epoch, frames, keys, rs), NEW c \in Contacts
    PROVE  LET new == [cs EXCEPT ![c] = EmptyContact]
           IN  new \in AllContacts /\ Good(new, epoch, frames, keys, rs)
  <1> DEFINE new == [cs EXCEPT ![c] = EmptyContact]
  <1>1. /\ new \in AllContacts /\ new[c] = EmptyContact
        /\ \A d \in Contacts : d /= c => new[d] = cs[d]
    BY EmptyContactType DEF AllContacts
  <1>2. EmptyContact.present = FALSE /\ EmptyContact.tx_next <= EmptyContact.tx_reserved
    BY DEF EmptyContact
  <1>3. GoodRoots(new, rs)
    BY <1>1, <1>2 DEF Good, GoodRoots
  <1>4. GoodTx(new, epoch, frames)
    BY <1>1, <1>2 DEF Good, GoodTx, Below
  <1>5. GoodRx(new, keys)
    BY <1>1, <1>2, EmptyContactType DEF Good, GoodRx, Refuses
  <1> QED BY <1>1, <1>3, <1>4, <1>5 DEF Good

\* set_blocked
LEMMA GoodBlock ==
    ASSUME NEW cs \in AllContacts, NEW epoch, NEW frames, NEW keys, NEW rs \in Nat,
           Good(cs, epoch, frames, keys, rs), NEW c \in Contacts, cs[c].present,
           NEW blocked \in BOOLEAN
    PROVE  LET new == [cs EXCEPT ![c].blocked = blocked]
           IN  new \in AllContacts /\ Good(new, epoch, frames, keys, rs)
  <1> DEFINE new == [cs EXCEPT ![c].blocked = blocked]
  <1>1. new \in AllContacts
    BY DEF AllContacts, Contact
  <1>2. ASSUME NEW d \in Contacts
        PROVE  /\ new[d].present = cs[d].present /\ new[d].root = cs[d].root
               /\ new[d].tx_next = cs[d].tx_next /\ new[d].tx_reserved = cs[d].tx_reserved
               /\ new[d].tx_epoch_max = cs[d].tx_epoch_max /\ new[d].anchor = cs[d].anchor
               /\ new[d].win_data = cs[d].win_data /\ new[d].win_ack = cs[d].win_ack
               /\ d /= c => new[d] = cs[d]
    BY DEF AllContacts, Contact
  <1>3. GoodRoots(new, rs)
    BY <1>2 DEF Good, GoodRoots
  <1>4. GoodTx(new, epoch, frames)
    BY <1>2 DEF Good, GoodTx, Below
  <1>5. GoodRx(new, keys)
    BY <1>2 DEF Good, GoodRx, Refuses, WindowsStorable
  <1> QED BY <1>1, <1>3, <1>4, <1>5 DEF Good

\* A staged reservation only raises tx_reserved.
LEMMA GoodReserve ==
    ASSUME NEW cs \in AllContacts, NEW epoch, NEW frames, NEW keys, NEW rs \in Nat,
           Good(cs, epoch, frames, keys, rs), NEW c \in Contacts, cs[c].present
    PROVE  LET new == Reserve(cs, TxReserve(c, cs[c].tx_next + Block))
           IN  new \in AllContacts /\ Good(new, epoch, frames, keys, rs)
  <1> USE EngineAssumption
  <1> DEFINE new == Reserve(cs, TxReserve(c, cs[c].tx_next + Block))
  <1>1. new = [cs EXCEPT ![c].tx_reserved = cs[c].tx_next + Block]
    BY DEF Reserve, TxReserve
  <1> HIDE DEF new
  <1> DEFINE ct == [cs[c] EXCEPT !.tx_reserved = cs[c].tx_next + Block]
  <1>a. /\ ct \in Contact
        /\ ct.present = cs[c].present /\ ct.root = cs[c].root /\ ct.tx_next = cs[c].tx_next
        /\ ct.tx_reserved = cs[c].tx_next + Block
        /\ ct.tx_epoch_max = cs[c].tx_epoch_max /\ ct.anchor = cs[c].anchor
        /\ ct.win_data = cs[c].win_data /\ ct.win_ack = cs[c].win_ack
    <2>1. cs[c] \in Contact /\ cs[c].tx_next + Block \in Nat
      BY DEF AllContacts, Contact
    <2> QED BY <2>1, SetReserved
  <1>b. new = [cs EXCEPT ![c] = ct]
    BY <1>1
  <1> HIDE DEF ct
  <1>2. new \in AllContacts
    BY <1>a, <1>b DEF AllContacts
  <1>3. ASSUME NEW d \in Contacts
        PROVE  /\ new[d].present = cs[d].present /\ new[d].root = cs[d].root
               /\ new[d].tx_next = cs[d].tx_next
               /\ new[d].tx_epoch_max = cs[d].tx_epoch_max /\ new[d].anchor = cs[d].anchor
               /\ new[d].win_data = cs[d].win_data /\ new[d].win_ack = cs[d].win_ack
               /\ d /= c => new[d] = cs[d]
               /\ new[d].tx_next <= new[d].tx_reserved
    <2>1. cs[d].tx_next <= cs[d].tx_reserved
      BY DEF Good, GoodTx
    <2>2. CASE d = c
      <3>1. new[d] = ct
        BY <1>a, <1>b, <2>2 DEF AllContacts
      <3>2. ct.tx_next <= ct.tx_reserved
        BY <1>a DEF AllContacts, Contact
      <3> QED BY <1>a, <2>2, <3>1, <3>2
    <2>3. CASE d /= c
      <3>1. new[d] = cs[d]
        BY <1>b, <2>3 DEF AllContacts
      <3> QED BY <2>1, <2>3, <3>1
    <2> QED BY <2>2, <2>3
  <1>4. GoodRoots(new, rs)
    BY <1>3 DEF Good, GoodRoots
  <1>5. GoodTx(new, epoch, frames)
    BY <1>3 DEF Good, GoodTx, Below
  <1>6. GoodRx(new, keys)
    BY <1>3 DEF Good, GoodRx, Refuses, WindowsStorable
  <1>7. new \in AllContacts /\ Good(new, epoch, frames, keys, rs)
    BY <1>2, <1>4, <1>5, <1>6 DEF Good
  <1> QED BY <1>7 DEF new

\* The contacts after number tx_next of slot c is used in epoch e.
Taken(cs, c, e) == [cs EXCEPT ![c] = TakeNumber(cs[c], e)]

\* The frame sealed under that number.
Sealed(cs, c, e, body) ==
    [root |-> cs[c].root, epoch |-> e, seq |-> cs[c].tx_next, body |-> body]

\* The number is reserved, or op reserves it.
Covers(op, cs, c) ==
    \/ op = TxReserve(c, cs[c].tx_next + Block)
    \/ op \in Staged /\ op.op /= "TxReserve" /\ cs[c].tx_next < cs[c].tx_reserved

\* send_emit and build_ack: taking the next number covers the new frame too.
LEMMA GoodSeal ==
    ASSUME NEW cs \in AllContacts, NEW epoch \in Epochs, NEW frames \in SUBSET Frames,
           NEW keys, NEW rs \in Nat, Good(cs, epoch, frames, keys, rs),
           NEW c \in Contacts, cs[c].present, NEW e \in Epochs, NEW body \in Bodies,
           NEW op, Covers(op, cs, c)
    PROVE  /\ Taken(cs, c, e) \in AllContacts
           /\ Reserve(Taken(cs, c, e), op) \in AllContacts
           /\ Sealed(cs, c, e, body) \in Frames
           /\ Max2(epoch, e) \in Epochs
           /\ Good(Reserve(Taken(cs, c, e), op), Max2(epoch, e),
                   frames \union {Sealed(cs, c, e, body)}, keys, rs)
           /\ FramesAbove({Sealed(cs, c, e, body)}, frames, rs)
  <1> USE EngineAssumption
  <1> DEFINE new == Reserve(Taken(cs, c, e), op)
             f == Sealed(cs, c, e, body)
  <1>0. cs[c] \in Contact /\ cs[c].tx_next \in Nat /\ cs[c].tx_epoch_max \in Epochs
    BY DEF AllContacts, Contact
  <1> DEFINE ct == TakeNumber(cs[c], e)
             rt == [ct EXCEPT !.tx_reserved = cs[c].tx_next + Block]
  <1>a. /\ ct \in Contact
        /\ ct.present = cs[c].present /\ ct.root = cs[c].root
        /\ ct.tx_next = cs[c].tx_next + 1 /\ ct.tx_reserved = cs[c].tx_reserved
        /\ ct.tx_epoch_max = Max2(cs[c].tx_epoch_max, e)
        /\ ct.anchor = cs[c].anchor
        /\ ct.win_data = cs[c].win_data /\ ct.win_ack = cs[c].win_ack
    BY <1>0, TakeNumberFields
  <1> HIDE DEF ct
  <1>b. /\ rt \in Contact
        /\ rt.present = ct.present /\ rt.root = ct.root
        /\ rt.tx_next = ct.tx_next /\ rt.tx_reserved = cs[c].tx_next + Block
        /\ rt.tx_epoch_max = ct.tx_epoch_max /\ rt.anchor = ct.anchor
        /\ rt.win_data = ct.win_data /\ rt.win_ack = ct.win_ack
    <2>1. cs[c].tx_next + Block \in Nat
      BY <1>0
    <2> QED BY <1>a, <2>1, SetReserved
  <1>1. Taken(cs, c, e) = [cs EXCEPT ![c] = ct] /\ Taken(cs, c, e) \in AllContacts
    BY <1>a DEF AllContacts, Taken, ct
  <1>2. \/ /\ op.op /= "TxReserve" /\ cs[c].tx_next < cs[c].tx_reserved
           /\ new = [cs EXCEPT ![c] = ct]
        \/ new = [cs EXCEPT ![c] = rt]
    <2>1. CASE op = TxReserve(c, cs[c].tx_next + Block)
      <3>1. new = [Taken(cs, c, e) EXCEPT ![c].tx_reserved = cs[c].tx_next + Block]
        BY <2>1 DEF Reserve, TxReserve
      <3>2. Taken(cs, c, e)[c] = ct
        BY <1>1 DEF AllContacts
      <3> QED BY <1>1, <3>1, <3>2 DEF AllContacts
    <2>2. CASE op.op /= "TxReserve" /\ cs[c].tx_next < cs[c].tx_reserved
      BY <1>1, <2>2 DEF Reserve
    <2> QED BY <2>1, <2>2 DEF Covers
  <1> HIDE DEF rt
  <1>3. new \in AllContacts
    BY <1>a, <1>b, <1>2 DEF AllContacts
  <1>c. \/ op.op /= "TxReserve" /\ cs[c].tx_next < cs[c].tx_reserved /\ new[c] = ct
        \/ new[c] = rt
    BY <1>2 DEF AllContacts
  <1>4. f \in Frames
    BY <1>0 DEF Sealed, Frames, Contact
  <1>5. /\ Max2(epoch, e) \in Epochs /\ epoch <= Max2(epoch, e) /\ e <= Max2(epoch, e)
        /\ Max2(cs[c].tx_epoch_max, e) \in Epochs
        /\ cs[c].tx_epoch_max <= Max2(cs[c].tx_epoch_max, e) /\ e <= Max2(cs[c].tx_epoch_max, e)
    BY <1>0 DEF Max2, Epochs
  <1>6. ASSUME NEW d \in Contacts, d /= c PROVE new[d] = cs[d]
    BY <1>2, <1>6 DEF AllContacts
  <1>7. /\ new[c].present = cs[c].present /\ new[c].root = cs[c].root
        /\ new[c].tx_next = cs[c].tx_next + 1
        /\ new[c].tx_epoch_max = Max2(cs[c].tx_epoch_max, e)
        /\ new[c].anchor = cs[c].anchor
        /\ new[c].win_data = cs[c].win_data /\ new[c].win_ack = cs[c].win_ack
    BY <1>a, <1>b, <1>c
  <1>8. new[c].tx_next <= new[c].tx_reserved
    <2>1. CASE new[c] = rt
      BY <1>0, <1>a, <1>b, <2>1
    <2>2. CASE cs[c].tx_next < cs[c].tx_reserved /\ new[c] = ct
      BY <1>0, <1>a, <2>2 DEF Contact
    <2> QED BY <1>c, <2>1, <2>2
  <1>9. f.root = cs[c].root /\ f.epoch = e /\ f.seq = cs[c].tx_next
    BY DEF Sealed
  <1> HIDE DEF new, f
  <1>10. GoodRoots(new, rs)
    <2>1. \A d \in Contacts : new[d].present = cs[d].present /\ new[d].root = cs[d].root
      BY <1>6, <1>7
    <2>2. \A d \in Contacts : new[d].present \/ new[d] = EmptyContact
      BY <1>6, <1>7 DEF Good, GoodRoots
    <2> QED BY <2>1, <2>2 DEF Good, GoodRoots
  <1>11. GoodTx(new, Max2(epoch, e), frames \union {f})
    <2>1. \A d \in Contacts : new[d].tx_next <= new[d].tx_reserved
      BY <1>6, <1>8 DEF Good, GoodTx
    <2>2. ASSUME NEW g \in frames PROVE g.epoch <= Max2(epoch, e) /\ Below(g, new)
      <3>1. g.epoch <= epoch /\ Below(g, cs) /\ g.epoch \in Epochs /\ g.seq \in Nat
        BY DEF Good, GoodTx, Frames
      <3>2. g.epoch <= Max2(epoch, e)
        BY <1>5, <3>1 DEF Epochs
      <3>3. ASSUME NEW d \in Contacts, new[d].present, new[d].root = g.root
            PROVE  g.seq < new[d].tx_next /\ g.epoch <= new[d].tx_epoch_max
        <4>1. CASE d /= c
          BY <1>6, <3>1, <3>3, <4>1 DEF Below
        <4>2. CASE d = c
          <5>1. g.seq < cs[c].tx_next /\ g.epoch <= cs[c].tx_epoch_max
            BY <1>7, <3>1, <3>3, <4>2 DEF Below
          <5> QED BY <1>0, <1>5, <1>7, <3>1, <4>2, <5>1 DEF Epochs
        <4> QED BY <4>1, <4>2
      <3> QED BY <3>2, <3>3 DEF Below
    <2>3. f.epoch <= Max2(epoch, e)
      BY <1>5, <1>9
    <2>4. ASSUME NEW d \in Contacts, new[d].present, new[d].root = f.root
          PROVE  f.seq < new[d].tx_next /\ f.epoch <= new[d].tx_epoch_max
      <3>1. d = c
        BY <1>6, <1>9, <2>4 DEF Good, GoodRoots
      <3> QED BY <1>0, <1>5, <1>7, <1>9, <3>1
    <2> QED BY <2>1, <2>2, <2>3, <2>4 DEF GoodTx, Below
  <1>12. GoodRx(new, keys)
    BY <1>6, <1>7 DEF Good, GoodRx, Refuses, WindowsStorable
  <1>13. FramesAbove({f}, frames, rs)
    <2>1. f.root <= rs
      BY <1>9 DEF Good, GoodRoots
    <2>2. \A g \in frames : g.root = f.root => g.seq < f.seq
      BY <1>9 DEF Good, GoodTx, Below
    <2> QED BY <2>1, <2>2 DEF FramesAbove
  <1>14. Good(new, Max2(epoch, e), frames \union {f}, keys, rs)
    BY <1>10, <1>11, <1>12 DEF Good
  <1> QED BY <1>1, <1>3, <1>4, <1>5, <1>13, <1>14 DEF new, f

\* What is good for more frames and more messages is good for fewer.
LEMMA GoodSubset ==
    ASSUME NEW cs \in AllContacts, NEW epoch, NEW F, NEW K, NEW rs \in Nat, Good(cs, epoch, F, K, rs),
           NEW G, NEW L, G \subseteq F, L \subseteq K, NEW more \in Nat, rs <= more
    PROVE  Good(cs, epoch, G, L, more)
  <1>1. GoodRoots(cs, more)
    <2>1. \A c \in Contacts : cs[c].present => cs[c].root \in 1 .. rs
      BY DEF Good, GoodRoots
    <2>2. 1 .. rs \subseteq 1 .. more
      OBVIOUS
    <2>3. \A c \in Contacts : cs[c].present => cs[c].root \in 1 .. more
      BY <2>1, <2>2
    <2> QED BY <2>3 DEF Good, GoodRoots
  <1>2. GoodTx(cs, epoch, G)
    BY DEF Good, GoodTx
  <1>3. GoodRx(cs, L)
    BY DEF Good, GoodRx
  <1> QED BY <1>1, <1>2, <1>3 DEF Good

\* The contacts after the DATA (or the ACK) window of slot c takes (e, s).
TookData(cs, c, e, s) == [cs EXCEPT ![c].win_data[e] = Accept(cs[c].win_data[e], s)]
TookAck(cs, c, e, s) == [cs EXCEPT ![c].win_ack[e] = Accept(cs[c].win_ack[e], s)]

\* on_frame, DATA: the message is refused from now on, and so is all that was.
LEMMA GoodData ==
    ASSUME NEW cs \in AllContacts, NEW epoch, NEW frames, NEW keys \in SUBSET Keys,
           NEW rs \in Nat, Good(cs, epoch, frames, keys, rs),
           NEW c \in Contacts, cs[c].present, NEW e \in Epochs, e \in Slots(cs[c].anchor),
           NEW s \in Nat
    PROVE  LET new == TookData(cs, c, e, s)
               k == [root |-> cs[c].root, epoch |-> e, seq |-> s]
           IN  /\ new \in AllContacts
               /\ \A d \in Contacts :
                     /\ new[d].present = cs[d].present /\ new[d].blocked = cs[d].blocked
                     /\ new[d].root = cs[d].root
                     /\ new[d].tx_next = cs[d].tx_next /\ new[d].tx_reserved = cs[d].tx_reserved
                     /\ new[d].tx_epoch_max = cs[d].tx_epoch_max
               /\ Good(new, epoch, frames, keys \union {k}, rs)
  <1> DEFINE new == TookData(cs, c, e, s)
             k == [root |-> cs[c].root, epoch |-> e, seq |-> s]
             w == Accept(cs[c].win_data[e], s)
             ct == [cs[c] EXCEPT !.win_data[e] = w]
  <1>0. cs[c] \in Contact /\ cs[c].win_data[e] \in ReplayWindow /\ WellFormed(cs[c].win_data[e])
    BY DEF AllContacts, Contact, Good, GoodRx, WindowsStorable
  <1>1. w \in ReplayWindow /\ WellFormed(w) /\ Verdict(w, s) /= "Accepted"
    BY <1>0, AcceptType, AcceptWellFormed, AcceptRefusesNext
  <1>2. \A old \in Nat : Verdict(cs[c].win_data[e], old) /= "Accepted"
                              => Verdict(w, old) /= "Accepted"
    BY <1>0, AcceptMonotone
  <1>3. new = [cs EXCEPT ![c] = ct]
    BY DEF TookData
  <1> HIDE DEF w
  <1>4. /\ ct \in Contact
        /\ ct.present = cs[c].present /\ ct.blocked = cs[c].blocked /\ ct.root = cs[c].root
        /\ ct.tx_next = cs[c].tx_next /\ ct.tx_reserved = cs[c].tx_reserved
        /\ ct.tx_epoch_max = cs[c].tx_epoch_max /\ ct.anchor = cs[c].anchor
        /\ ct.win_data = [cs[c].win_data EXCEPT ![e] = w] /\ ct.win_ack = cs[c].win_ack
    BY <1>0, <1>1 DEF Contact
  <1> HIDE DEF ct, new
  <1>5. new \in AllContacts /\ new[c] = ct /\ \A d \in Contacts : d /= c => new[d] = cs[d]
    BY <1>3, <1>4 DEF AllContacts
  <1>6. ASSUME NEW d \in Contacts
        PROVE  /\ new[d].present = cs[d].present /\ new[d].blocked = cs[d].blocked
               /\ new[d].root = cs[d].root
               /\ new[d].tx_next = cs[d].tx_next /\ new[d].tx_reserved = cs[d].tx_reserved
               /\ new[d].tx_epoch_max = cs[d].tx_epoch_max /\ new[d].anchor = cs[d].anchor
               /\ new[d].win_ack = cs[d].win_ack
    BY <1>4, <1>5
  <1>7. GoodRoots(new, rs)
    BY <1>5, <1>6 DEF Good, GoodRoots
  <1>8. GoodTx(new, epoch, frames)
    BY <1>6 DEF Good, GoodTx, Below
  <1>9. /\ new[c].win_data[e] = w
        /\ \A x \in Epochs : x /= e => new[c].win_data[x] = cs[c].win_data[x]
    BY <1>0, <1>4, <1>5 DEF Contact
  <1>10. ASSUME NEW d \in Contacts PROVE WindowsStorable(new[d])
    <2>1. WindowsStorable(cs[d])
      BY DEF Good, GoodRx
    <2>2. CASE d /= c
      BY <1>5, <2>1, <2>2
    <2>3. CASE d = c
      BY <1>1, <1>6, <1>9, <2>1, <2>3 DEF WindowsStorable
    <2> QED BY <2>2, <2>3
  <1>11. ASSUME NEW l \in keys PROVE Refuses(new, l)
    <2>0. Refuses(cs, l) /\ l.epoch \in Epochs /\ l.seq \in Nat
      BY DEF Good, GoodRx, Keys
    <2> SUFFICES ASSUME NEW d \in Contacts, new[d].present, new[d].root = l.root
                 PROVE  \/ l.epoch < new[d].anchor /\ l.epoch \notin Slots(new[d].anchor)
                        \/ /\ l.epoch \in Slots(new[d].anchor)
                           /\ Verdict(new[d].win_data[l.epoch], l.seq) /= "Accepted"
      BY DEF Refuses
    <2>1. \/ l.epoch < cs[d].anchor /\ l.epoch \notin Slots(cs[d].anchor)
          \/ /\ l.epoch \in Slots(cs[d].anchor)
             /\ Verdict(cs[d].win_data[l.epoch], l.seq) /= "Accepted"
      BY <1>6, <2>0 DEF Refuses
    <2>2. CASE d /= c
      BY <1>5, <2>1, <2>2
    <2>3. CASE d = c /\ l.epoch /= e
      BY <1>6, <1>9, <2>0, <2>1, <2>3
    <2>4. CASE d = c /\ l.epoch = e
      BY <1>2, <1>6, <1>9, <2>0, <2>1, <2>4
    <2> QED BY <2>2, <2>3, <2>4
  <1>12. Refuses(new, k)
    <2> SUFFICES ASSUME NEW d \in Contacts, new[d].present, new[d].root = k.root
                 PROVE  /\ k.epoch \in Slots(new[d].anchor)
                        /\ Verdict(new[d].win_data[k.epoch], k.seq) /= "Accepted"
      BY DEF Refuses
    <2>1. d = c
      BY <1>6 DEF Good, GoodRoots
    <2> QED BY <1>1, <1>6, <1>9, <2>1
  <1>13. Good(new, epoch, frames, keys \union {k}, rs)
    BY <1>7, <1>8, <1>10, <1>11, <1>12 DEF Good, GoodRx
  <1> QED BY <1>5, <1>6, <1>13 DEF new

\* on_frame, ACK: only the ACK window moves.
LEMMA GoodAck ==
    ASSUME NEW cs \in AllContacts, NEW epoch, NEW frames, NEW keys, NEW rs \in Nat,
           Good(cs, epoch, frames, keys, rs),
           NEW c \in Contacts, cs[c].present, NEW e \in Epochs, NEW s \in Nat
    PROVE  LET new == TookAck(cs, c, e, s)
           IN  /\ new \in AllContacts
               /\ \A d \in Contacts : /\ new[d].present = cs[d].present
                                       /\ new[d].blocked = cs[d].blocked
                                       /\ new[d].root = cs[d].root
               /\ Good(new, epoch, frames, keys, rs)
  <1> DEFINE new == TookAck(cs, c, e, s)
             w == Accept(cs[c].win_ack[e], s)
             ct == [cs[c] EXCEPT !.win_ack[e] = w]
  <1>0. cs[c] \in Contact /\ cs[c].win_ack[e] \in ReplayWindow /\ WellFormed(cs[c].win_ack[e])
    BY DEF AllContacts, Contact, Good, GoodRx, WindowsStorable
  <1>1. w \in ReplayWindow /\ WellFormed(w)
    BY <1>0, AcceptType, AcceptWellFormed
  <1>3. new = [cs EXCEPT ![c] = ct]
    BY DEF TookAck
  <1> HIDE DEF w
  <1>4. /\ ct \in Contact
        /\ ct.present = cs[c].present /\ ct.blocked = cs[c].blocked /\ ct.root = cs[c].root
        /\ ct.tx_next = cs[c].tx_next /\ ct.tx_reserved = cs[c].tx_reserved
        /\ ct.tx_epoch_max = cs[c].tx_epoch_max /\ ct.anchor = cs[c].anchor
        /\ ct.win_ack = [cs[c].win_ack EXCEPT ![e] = w] /\ ct.win_data = cs[c].win_data
    BY <1>0, <1>1 DEF Contact
  <1> HIDE DEF ct, new
  <1>5. new \in AllContacts /\ new[c] = ct /\ \A d \in Contacts : d /= c => new[d] = cs[d]
    BY <1>3, <1>4 DEF AllContacts
  <1>6. ASSUME NEW d \in Contacts
        PROVE  /\ new[d].present = cs[d].present /\ new[d].blocked = cs[d].blocked
               /\ new[d].root = cs[d].root
               /\ new[d].tx_next = cs[d].tx_next /\ new[d].tx_reserved = cs[d].tx_reserved
               /\ new[d].tx_epoch_max = cs[d].tx_epoch_max /\ new[d].anchor = cs[d].anchor
               /\ new[d].win_data = cs[d].win_data
    BY <1>4, <1>5
  <1>7. GoodRoots(new, rs)
    BY <1>5, <1>6 DEF Good, GoodRoots
  <1>8. GoodTx(new, epoch, frames)
    BY <1>6 DEF Good, GoodTx, Below
  <1>9. \A x \in Epochs : new[c].win_ack[x] = w \/ new[c].win_ack[x] = cs[c].win_ack[x]
    BY <1>0, <1>4, <1>5 DEF Contact
  <1>10. ASSUME NEW d \in Contacts PROVE WindowsStorable(new[d])
    <2>1. WindowsStorable(cs[d])
      BY DEF Good, GoodRx
    <2>2. CASE d /= c
      BY <1>5, <2>1, <2>2
    <2>3. CASE d = c
      <3> SUFFICES ASSUME NEW x \in Epochs
                   PROVE  WellFormed(new[d].win_data[x]) /\ WellFormed(new[d].win_ack[x])
        BY DEF WindowsStorable
      <3>1. WellFormed(cs[d].win_data[x]) /\ WellFormed(cs[d].win_ack[x])
        BY <2>1 DEF WindowsStorable
      <3> QED BY <1>1, <1>6, <1>9, <2>3, <3>1
    <2> QED BY <2>2, <2>3
  <1>11. \A l \in keys : Refuses(new, l)
    BY <1>6 DEF Good, GoodRx, Refuses
  <1>12. Good(new, epoch, frames, keys, rs)
    BY <1>7, <1>8, <1>10, <1>11 DEF Good, GoodRx
  <1> QED BY <1>5, <1>6, <1>12 DEF new

\* Engine::restore of a good record: the windows come back as they were, and the
\* numbers below the end of the reserved block are skipped.
LEMMA GoodRestore ==
    ASSUME NEW cs \in AllContacts, NEW epoch, NEW frames \in SUBSET Frames, NEW keys, NEW rs \in Nat,
           Good(cs, epoch, frames, keys, rs)
    PROVE  LET new == [c \in Contacts |-> RestoreContact(cs[c])]
           IN  new \in AllContacts /\ Good(new, epoch, frames, keys, rs)
  <1> DEFINE new == [c \in Contacts |-> RestoreContact(cs[c])]
  <1>1. ASSUME NEW c \in Contacts, cs[c].present
        PROVE  /\ new[c] \in Contact
               /\ new[c].present = cs[c].present /\ new[c].root = cs[c].root
               /\ new[c].tx_next = cs[c].tx_reserved /\ new[c].tx_reserved = cs[c].tx_reserved
               /\ new[c].tx_epoch_max = cs[c].tx_epoch_max /\ new[c].anchor = cs[c].anchor
               /\ new[c].win_data = cs[c].win_data /\ new[c].win_ack = cs[c].win_ack
    <2>1. /\ cs[c] \in Contact /\ cs[c].tx_next <= cs[c].tx_reserved /\ WindowsStorable(cs[c])
          /\ cs[c].tx_next \in Nat /\ cs[c].tx_reserved \in Nat
          /\ cs[c].win_data \in [Epochs -> ReplayWindow]
          /\ cs[c].win_ack \in [Epochs -> ReplayWindow]
      BY DEF AllContacts, Good, GoodTx, GoodRx, Contact
    <2>2. /\ [s \in Epochs |-> RestoreWindow(cs[c].win_data[s])] = cs[c].win_data
          /\ [s \in Epochs |-> RestoreWindow(cs[c].win_ack[s])] = cs[c].win_ack
      BY <2>1, RestoreIdentity DEF WindowsStorable
    <2>3. cs[c].tx_reserved >= cs[c].tx_next
      BY <2>1
    <2>4. new[c] = [cs[c] EXCEPT !.tx_next = cs[c].tx_reserved,
                                 !.tx_reserved = cs[c].tx_reserved,
                                 !.win_data = cs[c].win_data, !.win_ack = cs[c].win_ack]
      BY <1>1, <2>2, <2>3 DEF RestoreContact
    <2> HIDE DEF new
    <2> QED BY <2>1, <2>4 DEF Contact
  <1>2. ASSUME NEW c \in Contacts, ~cs[c].present
        PROVE  new[c] = EmptyContact /\ cs[c] = EmptyContact /\ new[c] \in Contact
    BY <1>2, EmptyContactType DEF RestoreContact, Good, GoodRoots
  <1>3. new \in AllContacts
    BY <1>1, <1>2 DEF AllContacts
  <1> HIDE DEF new
  <1>4. ASSUME NEW c \in Contacts
        PROVE  /\ new[c].present = cs[c].present /\ new[c].root = cs[c].root
               /\ new[c].tx_epoch_max = cs[c].tx_epoch_max /\ new[c].anchor = cs[c].anchor
               /\ new[c].win_data = cs[c].win_data /\ new[c].win_ack = cs[c].win_ack
    BY <1>1, <1>2
  <1>5. GoodRoots(new, rs)
    BY <1>2, <1>4 DEF Good, GoodRoots
  <1>6. ASSUME NEW c \in Contacts PROVE cs[c].tx_next <= new[c].tx_next /\ new[c].tx_next <= new[c].tx_reserved
    <2>1. cs[c].tx_next <= cs[c].tx_reserved /\ cs[c].tx_reserved \in Nat
      BY DEF AllContacts, Contact, Good, GoodTx
    <2>2. CASE cs[c].present
      BY <1>1, <2>1, <2>2
    <2>3. CASE ~cs[c].present
      BY <1>2, <2>3 DEF EmptyContact
    <2> QED BY <2>2, <2>3
  <1>7. GoodTx(new, epoch, frames)
    <2>1. ASSUME NEW f \in frames PROVE Below(f, new)
      <3> SUFFICES ASSUME NEW c \in Contacts, new[c].present, new[c].root = f.root
                   PROVE  f.seq < new[c].tx_next /\ f.epoch <= new[c].tx_epoch_max
        BY DEF Below
      <3>1. f.seq < cs[c].tx_next /\ f.epoch <= cs[c].tx_epoch_max
        BY <1>4 DEF Good, GoodTx, Below
      <3>2. f.seq \in Nat /\ cs[c].tx_next \in Nat /\ new[c].tx_next \in Nat
        BY <1>3 DEF Frames, AllContacts, Contact
      <3> QED BY <1>4, <1>6, <3>1, <3>2
    <2> QED BY <1>6, <2>1 DEF Good, GoodTx
  <1>8. GoodRx(new, keys)
    BY <1>4 DEF Good, GoodRx, Refuses, WindowsStorable
  <1>9. new \in AllContacts /\ Good(new, epoch, frames, keys, rs)
    BY <1>3, <1>5, <1>7, <1>8 DEF Good
  <1> QED BY <1>9 DEF new

-----------------------------------------------------------------------------
(* Every operation that stages a record ends the same way.                 *)

\* The effects that wait for the commit are of the right kind and new.
Pending(then, rs) ==
    /\ then \in After
    /\ FramesAbove(then.frames, air, rs)
    /\ \A k \in then.events : k \notin delivered /\ k.root <= rs
    /\ then.emit => then.frames = {} /\ ~then.complete

\* What is common to the operations that stage: between two of the caller's
\* steps, with storage working, the RAM becomes (prov, epoch, cs) and the record
\* that is staged is good for all that is out and all that is about to be.
LEMMA Staging ==
    ASSUME IndInv, caller /= "commit", ~fault, fault' = fault,
           NEW op \in Staged, NEW prov \in BOOLEAN, NEW epoch \in Epochs,
           NEW cs \in AllContacts, NEW then,
           StagePersist(op, prov, epoch, cs, then),
           provisioned' = prov, persisted_tx_epoch' = epoch, contacts' = cs,
           persisted_tx_epoch <= epoch,
           air' = air, delivered' = delivered, roots' \in Nat, roots <= roots',
           radio_on' \in BOOLEAN, time_valid' \in BOOLEAN, now' \in Epochs,
           time_valid' => epoch <= now',
           pending_send' \in Sending \union {NoSend},
           Reserve(cs, op) \in AllContacts,
           Good(Reserve(cs, op), epoch, air \union then.frames,
                delivered \union then.events, roots'),
           Pending(then, roots'),
           SendInv'
    PROVE  IndInv'
  <1> USE EngineAssumption
  <1>1. /\ staged' = op /\ scratch' = PersistView(prov, epoch, cs, op)
        /\ caller' = "commit" /\ after' = then /\ flash' = flash
    BY DEF StagePersist
  <1>2. scratch' \in Record /\ scratch'.contacts = Reserve(cs, op)
    BY <1>1 DEF PersistView, Record, AllContacts
  <1>3. TypeOK'
    BY <1>1, <1>2 DEF IndInv, TypeOK, AllContacts, Pending
  <1>4. HistoryInv'
    <2>1. NonceNeverReused'
      BY DEF IndInv, HistoryInv, NonceNeverReused
    <2>2. \A f \in air : f.root <= roots' /\ f.epoch <= epoch
      <3> SUFFICES ASSUME NEW f \in air PROVE f.root <= roots' /\ f.epoch <= epoch
        OBVIOUS
      <3>1. /\ f.root \in Nat /\ f.epoch \in Nat /\ f.root <= roots /\ f.epoch <= persisted_tx_epoch
            /\ roots \in Nat /\ persisted_tx_epoch \in Nat /\ epoch \in Nat
        BY DEF IndInv, HistoryInv, TypeOK, Frames, Epochs
      <3> QED BY <3>1
    <2>3. \A k \in delivered : k.root <= roots'
      <3> SUFFICES ASSUME NEW k \in delivered PROVE k.root <= roots'
        OBVIOUS
      <3>1. k.root \in Nat /\ k.root <= roots /\ roots \in Nat
        BY DEF IndInv, HistoryInv, TypeOK, Keys
      <3> QED BY <3>1
    <2> QED BY <2>1, <2>2, <2>3 DEF HistoryInv
  <1>5. FlashInv'
    <2>1. /\ flash.contacts \in AllContacts /\ roots \in Nat
          /\ Good(flash.contacts, flash.tx_epoch, air, delivered, roots)
      BY DEF IndInv, TypeOK, Record, FlashInv, AllContacts
    <2>2. Good(flash.contacts, flash.tx_epoch, air, delivered, roots')
      BY <2>1, GoodSubset
    <2> QED BY <1>1, <2>2 DEF FlashInv
  <1>6. StagedInv'
    BY <1>1, <1>2 DEF StagedInv, Pending
  <1>7. SettledInv'
    BY <1>1 DEF SettledInv
  <1>8. FaultInv'
    BY DEF FaultInv
  <1> QED BY <1>3, <1>4, <1>5, <1>6, <1>7, <1>8 DEF IndInv

\* Nothing waits for the commit.
LEMMA NothingPending ==
    ASSUME NEW rs
    PROVE  /\ Pending(Nothing, rs) /\ Nothing.frames = {} /\ Nothing.events = {}
           /\ ~Nothing.emit /\ ~Nothing.complete
           /\ [Nothing EXCEPT !.emit = TRUE].emit
           /\ [Nothing EXCEPT !.emit = TRUE].frames = {}
           /\ [Nothing EXCEPT !.emit = TRUE].events = {}
           /\ Pending([Nothing EXCEPT !.emit = TRUE], rs)
  BY DEF Nothing, Pending, After, FramesAbove

\* An operation that reserves nothing stages the contacts as they are.
LEMMA StageFact ==
    ASSUME NEW o \in {"None", "Provision", "Time", "PairActivate", "RxAccept"}, NEW cs
    PROVE  Stage(o) \in Staged /\ Reserve(cs, Stage(o)) = cs
  BY DEF Stage, Staged, Reserve

\* What every operation may assume between two of the caller's steps.
LEMMA Between ==
    ASSUME IndInv, caller = "idle", ~fault
    PROVE  /\ TypeOK
           /\ Good(contacts, persisted_tx_epoch, air, delivered, roots)
           /\ contacts \in AllContacts /\ air \in SUBSET Frames /\ delivered \in SUBSET Keys
           /\ roots \in Nat /\ persisted_tx_epoch \in Epochs /\ now \in Epochs
           /\ persisted_tx_epoch <= persisted_tx_epoch /\ roots <= roots
           /\ time_valid => persisted_tx_epoch <= now
           /\ \A f \in air : f.root \in Nat /\ f.root <= roots
           /\ \A k \in delivered : k.root \in Nat /\ k.root <= roots
           /\ air \union {} = air /\ delivered \union {} = delivered
           /\ staged = NoStage /\ after = Nothing
           /\ pending_send /= NoSend =>
                /\ pending_send \in Sending
                /\ contacts[pending_send.contact].present
                /\ ~contacts[pending_send.contact].blocked
                /\ DataFrame(pending_send) \in air
  <1>1. caller /= "commit" /\ caller /= "emit" /\ after = Nothing /\ staged = NoStage
    BY DEF IndInv, SettledInv
  <1>2. ~Sealing
    BY <1>1, NothingPending DEF Sealing
  <1>3. after.frames = {}
    BY <1>1, NothingPending
  <1>4. /\ Good(contacts, persisted_tx_epoch, air, delivered, roots)
        /\ contacts \in AllContacts /\ air \in SUBSET Frames /\ delivered \in SUBSET Keys
        /\ roots \in Nat /\ persisted_tx_epoch \in Epochs /\ now \in Epochs
        /\ time_valid => persisted_tx_epoch <= now
    BY <1>1 DEF IndInv, SettledInv, HistoryInv, TypeOK, AllContacts
  <1>5. persisted_tx_epoch <= persisted_tx_epoch /\ roots <= roots
    BY <1>4, EngineAssumption DEF Epochs
  <1>6. /\ \A f \in air : f.root \in Nat /\ f.root <= roots
        /\ \A k \in delivered : k.root \in Nat /\ k.root <= roots
    BY DEF IndInv, HistoryInv, TypeOK, Frames, Keys
  <1>7. pending_send /= NoSend =>
                /\ pending_send \in Sending
                /\ contacts[pending_send.contact].present
                /\ ~contacts[pending_send.contact].blocked
                /\ DataFrame(pending_send) \in air
    BY <1>2, <1>3 DEF IndInv, SendInv, TypeOK
  <1> QED BY <1>1, <1>4, <1>5, <1>6, <1>7 DEF IndInv

\* A send in flight is untouched by what leaves its contact's root and block.
LEMMA SendKept ==
    ASSUME IndInv, caller = "idle", ~fault, caller' = "commit", ~after'.emit, air' = air,
           \/ pending_send' = NoSend
           \/ /\ pending_send' = pending_send
              /\ pending_send /= NoSend =>
                    LET c == pending_send.contact IN
                    /\ contacts'[c].present = contacts[c].present
                    /\ contacts'[c].blocked = contacts[c].blocked
                    /\ contacts'[c].root = contacts[c].root
    PROVE  SendInv'
  <1>1. ~Sealing'
    BY DEF Sealing
  <1>2. CASE pending_send' = NoSend
    BY <1>1, <1>2 DEF SendInv
  <1>3. CASE pending_send' = pending_send /\ pending_send /= NoSend
    <2>1. /\ contacts[pending_send.contact].present
          /\ ~contacts[pending_send.contact].blocked
          /\ DataFrame(pending_send) \in air
      BY <1>3, Between
    <2>2. DataFrame(pending_send)' = DataFrame(pending_send)
      BY <1>3 DEF DataFrame, Frame
    <2> QED BY <1>1, <1>3, <2>1, <2>2 DEF SendInv
  <1> QED BY <1>2, <1>3

-----------------------------------------------------------------------------
(* Administrative operations.                                              *)

\* The operations after whose commit nothing is sent and nothing delivered.
LEMMA QuietStaging ==
    ASSUME IndInv, caller = "idle", ~fault, fault' = fault,
           NEW o \in {"None", "Provision", "Time", "PairActivate", "RxAccept"},
           NEW prov \in BOOLEAN, NEW cs \in AllContacts,
           StagePersist(Stage(o), prov, persisted_tx_epoch, cs, Nothing),
           provisioned' = prov, persisted_tx_epoch' = persisted_tx_epoch, contacts' = cs,
           air' = air, delivered' = delivered, roots' \in Nat, roots <= roots',
           radio_on' \in BOOLEAN, time_valid' \in BOOLEAN, now' \in Epochs,
           time_valid' => persisted_tx_epoch <= now',
           Good(cs, persisted_tx_epoch, air, delivered, roots'),
           \/ pending_send' = NoSend
           \/ /\ pending_send' = pending_send
              /\ pending_send /= NoSend =>
                    LET c == pending_send.contact IN
                    /\ cs[c].present = contacts[c].present
                    /\ cs[c].blocked = contacts[c].blocked
                    /\ cs[c].root = contacts[c].root
    PROVE  IndInv'
  <1> DEFINE op == Stage(o)
  <1>1. op \in Staged /\ Reserve(cs, op) = cs
    BY StageFact
  <1>2. caller' = "commit" /\ after' = Nothing
    BY DEF StagePersist
  <1>3. SendInv'
    BY <1>2, SendKept, NothingPending
  <1>4. pending_send' \in Sending \union {NoSend}
    BY DEF IndInv, TypeOK
  <1>5. StagePersist(op, prov, persisted_tx_epoch, cs, Nothing)
    OBVIOUS
  <1>6. /\ Good(cs, persisted_tx_epoch, air \union Nothing.frames,
                delivered \union Nothing.events, roots')
        /\ Pending(Nothing, roots')
    BY NothingPending, Between
  <1>7. persisted_tx_epoch \in Epochs /\ persisted_tx_epoch <= persisted_tx_epoch /\ caller /= "commit"
    BY Between
  <1> HIDE DEF op
  <1> QED BY <1>1, <1>3, <1>4, <1>5, <1>6, <1>7, Staging

\* provision changes no contact and no history: the record staged is as good as RAM.
LEMMA ProvisionStep == ASSUME IndInv, Provision PROVE IndInv'
  <1>1. /\ caller = "idle" /\ ~fault /\ fault' = fault
        /\ StagePersist(Stage("Provision"), TRUE, persisted_tx_epoch, contacts, Nothing)
        /\ provisioned' = TRUE /\ persisted_tx_epoch' = persisted_tx_epoch /\ contacts' = contacts
        /\ air' = air /\ delivered' = delivered /\ roots' = roots
        /\ radio_on' = radio_on /\ time_valid' = time_valid /\ now' = now
        /\ pending_send' = pending_send
    BY DEF Provision, history
  <1>2. radio_on' \in BOOLEAN /\ time_valid' \in BOOLEAN
    BY <1>1 DEF IndInv, TypeOK
  <1> QED BY <1>1, <1>2, Between, QuietStaging

\* set_time_confirmed and advance_time
LEMMA MoveTimeStep ==
    ASSUME IndInv, NEW e \in Epochs, caller = "idle", ~fault, TimeFloorOK(e), MoveTime(e)
    PROVE  IndInv'
  <1> DEFINE cs == [c \in Contacts |-> AdvanceContact(contacts[c], e)]
  <1>1. /\ fault' = fault
        /\ StagePersist(Stage("Time"), provisioned, persisted_tx_epoch, cs, Nothing)
        /\ provisioned' = provisioned /\ persisted_tx_epoch' = persisted_tx_epoch /\ contacts' = cs
        /\ air' = air /\ delivered' = delivered /\ roots' = roots
        /\ radio_on' = radio_on /\ time_valid' = TRUE /\ now' = e
        /\ pending_send' = pending_send
    BY DEF MoveTime, history
  <1>2. radio_on' \in BOOLEAN /\ provisioned \in BOOLEAN
    BY <1>1 DEF IndInv, TypeOK
  <1>3. cs \in AllContacts /\ Good(cs, persisted_tx_epoch, air, delivered, roots)
    <2>1. \A c \in Contacts : contacts[c].present => e >= contacts[c].anchor
      BY DEF TimeFloorOK
    <2> QED BY <2>1, Between, GoodAdvance
  <1>4. ASSUME NEW c \in Contacts
        PROVE  /\ cs[c].present = contacts[c].present /\ cs[c].blocked = contacts[c].blocked
               /\ cs[c].root = contacts[c].root
    <2>1. contacts[c] \in Contact
      BY Between DEF AllContacts
    <2> QED BY <2>1 DEF AdvanceContact, Contact
  <1>5. pending_send /= NoSend => pending_send.contact \in Contacts
    BY Between DEF Sending
  <1>6. persisted_tx_epoch <= e
    <2>1. e >= persisted_tx_epoch /\ e \in Nat /\ persisted_tx_epoch \in Nat
      BY Between, EngineAssumption DEF TimeFloorOK, Epochs
    <2> QED BY <2>1
  <1> HIDE DEF cs
  <1> QED BY <1>1, <1>2, <1>3, <1>4, <1>5, <1>6, Between, QuietStaging

\* set_time_confirmed is a move of the time.
LEMMA SetTimeConfirmedStep ==
    ASSUME IndInv, NEW e \in Epochs, NEW confirmed \in BOOLEAN, SetTimeConfirmed(e, confirmed)
    PROVE  IndInv'
  BY MoveTimeStep DEF SetTimeConfirmed

\* advance_time across an hour is a move of the time.
LEMMA AdvanceTimeStep == ASSUME IndInv, AdvanceTime PROVE IndInv'
  BY MoveTimeStep DEF AdvanceTime

\* set_radio drops the send in flight or leaves it alone.
LEMMA SetRadioStep ==
    ASSUME IndInv, NEW enabled \in BOOLEAN, SetRadio(enabled)
    PROVE  IndInv'
  <1>1. /\ caller = "idle" /\ ~fault /\ fault' = fault
        /\ StagePersist(Stage("None"), provisioned, persisted_tx_epoch, contacts, Nothing)
        /\ provisioned' = provisioned /\ persisted_tx_epoch' = persisted_tx_epoch
        /\ contacts' = contacts
        /\ air' = air /\ delivered' = delivered /\ roots' = roots
        /\ radio_on' = enabled /\ time_valid' = time_valid /\ now' = now
        /\ pending_send' = pending_send \/ pending_send' = NoSend
    BY DEF SetRadio, history
  <1>2. time_valid' \in BOOLEAN /\ provisioned \in BOOLEAN
    BY <1>1 DEF IndInv, TypeOK
  <1> QED BY <1>1, <1>2, Between, QuietStaging

\* A contact activated under a root nobody used has nothing to answer for.
LEMMA PairActivateStep ==
    ASSUME IndInv, NEW c \in Contacts, PairActivate(c)
    PROVE  IndInv'
  <1> DEFINE cs == [contacts EXCEPT ![c] = NewContact(roots + 1, Epoch)]
  <1>1. /\ caller = "idle" /\ ~fault /\ fault' = fault /\ ~contacts[c].present
        /\ StagePersist(Stage("PairActivate"), provisioned, persisted_tx_epoch, cs, Nothing)
        /\ provisioned' = provisioned /\ persisted_tx_epoch' = persisted_tx_epoch /\ contacts' = cs
        /\ air' = air /\ delivered' = delivered /\ roots' = roots + 1
        /\ radio_on' = radio_on /\ time_valid' = time_valid /\ now' = now
        /\ pending_send' = pending_send
    BY DEF PairActivate, Usable
  <1>2. radio_on' \in BOOLEAN /\ time_valid' \in BOOLEAN /\ provisioned \in BOOLEAN
    BY <1>1 DEF IndInv, TypeOK
  <1>3. Epoch \in Epochs
    BY <1>1, Between, EngineAssumption DEF Epoch, Epochs
  <1>4. cs \in AllContacts /\ Good(cs, persisted_tx_epoch, air, delivered, roots + 1)
    BY <1>1, <1>3, Between, GoodActivate
  <1>5. pending_send /= NoSend => cs[pending_send.contact] = contacts[pending_send.contact]
    BY <1>1, Between DEF AllContacts
  <1>6. roots + 1 \in Nat /\ roots <= roots + 1
    BY <1>1, Between
  <1> HIDE DEF cs
  <1> QED BY <1>1, <1>2, <1>4, <1>5, <1>6, Between, QuietStaging

\* delete_contact empties a slot and drops the send that went to it.
LEMMA DeleteContactStep ==
    ASSUME IndInv, NEW c \in Contacts, DeleteContact(c)
    PROVE  IndInv'
  <1> DEFINE cs == [contacts EXCEPT ![c] = EmptyContact]
  <1>1. /\ caller = "idle" /\ ~fault /\ fault' = fault
        /\ StagePersist(Stage("None"), provisioned, persisted_tx_epoch, cs, Nothing)
        /\ provisioned' = provisioned /\ persisted_tx_epoch' = persisted_tx_epoch /\ contacts' = cs
        /\ air' = air /\ delivered' = delivered /\ roots' = roots
        /\ radio_on' = radio_on /\ time_valid' = time_valid /\ now' = now
        /\ pending_send' = UnlessTo(c)
    BY DEF DeleteContact, Usable, history
  <1>2. radio_on' \in BOOLEAN /\ time_valid' \in BOOLEAN /\ provisioned \in BOOLEAN
    BY <1>1 DEF IndInv, TypeOK
  <1>3. cs \in AllContacts /\ Good(cs, persisted_tx_epoch, air, delivered, roots)
    BY <1>1, Between, GoodDelete
  <1>4. \/ pending_send' = NoSend
        \/ /\ pending_send' = pending_send
           /\ pending_send /= NoSend => cs[pending_send.contact] = contacts[pending_send.contact]
    BY <1>1, Between DEF UnlessTo, AllContacts
  <1> HIDE DEF cs
  <1> QED BY <1>1, <1>2, <1>3, <1>4, Between, QuietStaging

\* set_blocked changes one flag and drops the send to a contact it blocks.
LEMMA SetBlockedStep ==
    ASSUME IndInv, NEW c \in Contacts, NEW blocked \in BOOLEAN, SetBlocked(c, blocked)
    PROVE  IndInv'
  <1> DEFINE cs == [contacts EXCEPT ![c].blocked = blocked]
  <1>1. /\ caller = "idle" /\ ~fault /\ fault' = fault /\ contacts[c].present
        /\ StagePersist(Stage("None"), provisioned, persisted_tx_epoch, cs, Nothing)
        /\ provisioned' = provisioned /\ persisted_tx_epoch' = persisted_tx_epoch /\ contacts' = cs
        /\ air' = air /\ delivered' = delivered /\ roots' = roots
        /\ radio_on' = radio_on /\ time_valid' = time_valid /\ now' = now
        /\ pending_send' = IF blocked THEN UnlessTo(c) ELSE pending_send
    BY DEF SetBlocked, Usable, history
  <1>2. radio_on' \in BOOLEAN /\ time_valid' \in BOOLEAN /\ provisioned \in BOOLEAN
    BY <1>1 DEF IndInv, TypeOK
  <1>3. cs \in AllContacts /\ Good(cs, persisted_tx_epoch, air, delivered, roots)
    BY <1>1, Between, GoodBlock
  <1>4. CASE blocked \/ pending_send = NoSend \/ pending_send.contact /= c
    <2>1. \/ pending_send' = NoSend
          \/ /\ pending_send' = pending_send
             /\ pending_send /= NoSend => cs[pending_send.contact] = contacts[pending_send.contact]
      BY <1>1, <1>4, Between DEF UnlessTo, AllContacts
    <2> HIDE DEF cs
    <2> QED BY <1>1, <1>2, <1>3, <2>1, Between, QuietStaging
  <1>5. CASE ~blocked /\ pending_send /= NoSend /\ pending_send.contact = c
    <2>1. contacts[c] \in Contact /\ ~contacts[c].blocked
      BY <1>1, <1>5, Between DEF AllContacts
    <2>2. cs[c] = [contacts[c] EXCEPT !.blocked = blocked]
      BY <1>1, Between DEF AllContacts
    <2> HIDE DEF cs
    <2>3. /\ cs[c].present = contacts[c].present /\ cs[c].root = contacts[c].root
          /\ cs[c].blocked = blocked
      BY <2>1, <2>2 DEF Contact
    <2>4. contacts[c].blocked = blocked
      BY <1>5, <2>1 DEF Contact
    <2>5. pending_send' = pending_send
      BY <1>1, <1>5
    <2> QED BY <1>1, <1>2, <1>3, <1>5, <2>3, <2>4, <2>5, Between, QuietStaging
  <1> QED BY <1>4, <1>5

-----------------------------------------------------------------------------
(* Transmit path.                                                          *)

\* send_begin stages the block that covers the number it is going to use.
LEMMA SendBeginStep ==
    ASSUME IndInv, NEW c \in Contacts, NEW body \in Bodies, SendBegin(c, body)
    PROVE  IndInv'
  <1> USE EngineAssumption
  <1> DEFINE ct == contacts[c]
             op == IF Exhausted(ct) THEN TxReserve(c, ct.tx_next + Block) ELSE Stage("None")
             then == [Nothing EXCEPT !.emit = TRUE]
             ps == [contact |-> c, epoch |-> Epoch, seq |-> ct.tx_next, body |-> body]
  <1>1. /\ caller = "idle" /\ ~fault /\ fault' = fault /\ ct.present /\ ~ct.blocked
        /\ time_valid /\ Epoch >= ct.tx_epoch_max
        /\ StagePersist(op, provisioned, persisted_tx_epoch, contacts, then)
        /\ provisioned' = provisioned /\ persisted_tx_epoch' = persisted_tx_epoch
        /\ contacts' = contacts
        /\ air' = air /\ delivered' = delivered /\ roots' = roots
        /\ radio_on' = radio_on /\ time_valid' = time_valid /\ now' = now
        /\ pending_send' = ps
    BY DEF SendBegin, Usable, history
  <1>2. /\ radio_on' \in BOOLEAN /\ time_valid' \in BOOLEAN /\ provisioned \in BOOLEAN
    BY <1>1 DEF IndInv, TypeOK
  <1>3. /\ ct \in Contact /\ ct.tx_next \in Nat /\ ct.tx_reserved \in Nat /\ Epoch = now
        /\ Epoch \in Epochs
    BY <1>1, Between DEF AllContacts, Contact, Epoch
  <1>4. ps \in Sending /\ ps /= NoSend
    BY <1>3 DEF Sending, Epochs
  <1>5. op \in Staged
    BY <1>3, StageFact DEF TxReserve, Staged
  <1>6. /\ Reserve(contacts, op) \in AllContacts
        /\ Good(Reserve(contacts, op), persisted_tx_epoch, air, delivered, roots)
    BY <1>1, Between, GoodReserve, StageFact
  <1>7. ct.tx_next < Reserve(contacts, op)[c].tx_reserved
    <2>1. CASE Exhausted(ct)
      <3>1. Reserve(contacts, op) = [contacts EXCEPT ![c].tx_reserved = ct.tx_next + Block]
        BY <2>1 DEF Reserve, TxReserve
      <3>2. contacts \in [Contacts -> Contact]
        BY <1>1, Between DEF AllContacts
      <3> HIDE DEF op
      <3>3. Reserve(contacts, op)[c].tx_reserved = ct.tx_next + Block
        BY <3>1, <3>2 DEF Contact
      <3> QED BY <1>3, <3>3
    <2>2. CASE ~Exhausted(ct)
      BY <1>3, <2>2, StageFact DEF Exhausted
    <2> QED BY <2>1, <2>2
  <1> HIDE DEF op, then
  <1>8. /\ then.emit /\ then.frames = {} /\ then.events = {} /\ Pending(then, roots)
    BY NothingPending DEF then
  <1>9. SendInv'
    <2>1. /\ caller' = "commit" /\ after' = then
          /\ scratch'.contacts = Reserve(contacts, op)
      BY <1>1 DEF StagePersist, PersistView
    <2>2. Sealing'
      BY <1>8, <2>1 DEF Sealing
    <2>3. /\ pending_send'.contact = c /\ pending_send'.epoch = now /\ pending_send'.seq = ct.tx_next
          /\ pending_send' /= NoSend
      BY <1>1, <1>3, <1>4
    <2> QED BY <1>1, <1>3, <1>7, <2>1, <2>2, <2>3 DEF SendInv
  <1>10. /\ Good(Reserve(contacts, op), persisted_tx_epoch, air \union then.frames,
                 delivered \union then.events, roots)
         /\ caller /= "commit"
    BY <1>1, <1>6, <1>8, Between
  <1> HIDE DEF ps, ct
  <1> QED BY <1>1, <1>2, <1>4, <1>5, <1>6, <1>8, <1>9, <1>10, Between, Staging

\* send_emit uses a number that is reserved, on flash, and on no frame so far.
LEMMA SendEmitStep == ASSUME IndInv, SendEmit PROVE IndInv'
  <1> USE EngineAssumption
  <1> DEFINE ps == pending_send
             c == ps.contact
             e == ps.epoch
             cs == Taken(contacts, c, e)
             epoch == Max2(persisted_tx_epoch, e)
             f == Sealed(contacts, c, e, ps.body)
             then == [Nothing EXCEPT !.frames = {f}]
             op == Stage("None")
  <1>1. /\ caller = "emit" /\ EmitAllowed /\ fault' = fault
        /\ provisioned' = provisioned /\ persisted_tx_epoch' = epoch
        /\ contacts' = cs
        /\ air' = air /\ delivered' = delivered /\ roots' = roots
        /\ radio_on' = radio_on /\ time_valid' = time_valid /\ now' = now
        /\ pending_send' = pending_send
        /\ StagePersist(op, provisioned, epoch, cs, [Nothing EXCEPT !.frames = {DataFrame(ps)}])
    BY DEF SendEmit, history, Taken
  <1>2. /\ ps \in Sending /\ ps /= NoSend /\ contacts[c].present
        /\ contacts[c].tx_next = ps.seq /\ ps.seq < contacts[c].tx_reserved
    BY <1>1 DEF EmitAllowed, IndInv, TypeOK
  <1>3. c \in Contacts /\ e \in Epochs /\ ps.body \in Bodies
    BY <1>2 DEF Sending
  <1>4. /\ ~fault /\ Good(contacts, persisted_tx_epoch, air, delivered, roots)
        /\ contacts \in AllContacts /\ persisted_tx_epoch \in Epochs /\ now \in Epochs
        /\ air \in SUBSET Frames /\ delivered \in SUBSET Keys /\ roots \in Nat
        /\ radio_on \in BOOLEAN /\ time_valid \in BOOLEAN /\ provisioned \in BOOLEAN
        /\ time_valid => persisted_tx_epoch <= now
    BY <1>1 DEF IndInv, FaultInv, SettledInv, TypeOK, AllContacts, HistoryInv
  <1>5. time_valid /\ e = now /\ ~contacts[c].blocked
    BY <1>1, <1>2 DEF IndInv, SendInv, Sealing
  <1>6. DataFrame(ps) = f
    BY <1>2 DEF DataFrame, Frame, Sealed
  <1>7. op \in Staged /\ Covers(op, contacts, c) /\ Reserve(cs, op) = cs
    BY <1>2, StageFact DEF Covers, Stage
  <1>8. /\ cs \in AllContacts /\ f \in Frames /\ epoch \in Epochs
        /\ Good(Reserve(cs, op), epoch, air \union {f}, delivered, roots)
        /\ FramesAbove({f}, air, roots)
    BY <1>2, <1>3, <1>4, <1>7, GoodSeal
  <1>9. persisted_tx_epoch <= epoch /\ epoch <= now
    BY <1>4, <1>5 DEF Max2, Epochs
  <1>10. /\ cs[c].present = contacts[c].present /\ cs[c].blocked = contacts[c].blocked
         /\ cs[c].root = contacts[c].root
    <2>1. contacts[c] \in Contact /\ cs[c] = TakeNumber(contacts[c], e)
      BY <1>3, <1>4 DEF AllContacts, Taken
    <2> QED BY <1>3, <2>1, TakeNumberFields
  <1>11. /\ then.frames = {f} /\ then.events = {} /\ ~then.emit /\ then \in After
    BY <1>8 DEF Nothing, After
  <1>12. StagePersist(op, provisioned, epoch, cs, then)
    BY <1>1, <1>6
  <1>13. f = [root |-> contacts[c].root, epoch |-> e, seq |-> ps.seq, body |-> ps.body]
    BY <1>2 DEF Sealed
  <1> HIDE DEF cs, epoch, then, op
  <1>14. SendInv'
    <2>1. caller' = "commit" /\ after' = then
      BY <1>12 DEF StagePersist
    <2>2. ~Sealing'
      BY <1>11, <2>1 DEF Sealing
    <2>3. DataFrame(pending_send)' = f
      BY <1>1, <1>10, <1>13 DEF DataFrame, Frame
    <2>4. f \in after'.frames
      BY <1>11, <2>1
    <2> QED BY <1>1, <1>2, <1>5, <1>10, <2>2, <2>3, <2>4 DEF SendInv
  <1>15. Pending(then, roots)
    BY <1>8, <1>11 DEF Pending
  <1>16. Good(Reserve(cs, op), epoch, air \union then.frames, delivered \union then.events, roots)
    BY <1>8, <1>11
  <1>17. /\ roots <= roots /\ pending_send' \in Sending \union {NoSend} /\ caller /= "commit"
         /\ Reserve(cs, op) \in AllContacts
    BY <1>1, <1>2, <1>4, <1>7, <1>8
  <1> HIDE DEF f
  <1> QED BY <1>1, <1>4, <1>7, <1>8, <1>9, <1>12, <1>14, <1>15, <1>16, <1>17, Staging

-----------------------------------------------------------------------------
(* Receive path.                                                           *)

\* build_ack, whatever on_frame did to the windows before it.
LEMMA BuildAckStep ==
    ASSUME IndInv, caller = "idle", ~fault, fault' = fault, time_valid,
           NEW c \in Contacts, NEW cs \in AllContacts, NEW o \in {"None", "RxAccept"},
           NEW ack \in Bodies, NEW events \in SUBSET Keys,
           \A d \in Contacts : /\ cs[d].present = contacts[d].present
                               /\ cs[d].blocked = contacts[d].blocked
                               /\ cs[d].root = contacts[d].root,
           cs[c].present,
           Good(cs, persisted_tx_epoch, air, delivered \union events, roots),
           \A k \in events : k \notin delivered /\ k.root <= roots,
           BuildAck(c, cs, Stage(o), ack, events),
           UNCHANGED <<provisioned, radio_on, time_valid, now, pending_send, history>>
    PROVE  IndInv'
  <1> USE EngineAssumption
  <1>1. /\ provisioned' = provisioned /\ air' = air /\ delivered' = delivered /\ roots' = roots
        /\ radio_on' = radio_on /\ time_valid' = time_valid /\ now' = now
        /\ pending_send' = pending_send
    BY DEF history
  <1>2. /\ radio_on' \in BOOLEAN /\ time_valid' \in BOOLEAN /\ provisioned \in BOOLEAN
        /\ now' \in Epochs /\ pending_send' \in Sending \union {NoSend} /\ roots' \in Nat
        /\ roots <= roots' /\ caller /= "commit"
    BY <1>1, Between DEF TypeOK
  <1>3. Epoch \in Epochs /\ Epoch = now
    BY Between DEF Epoch
  <1>4. /\ cs[c] \in Contact /\ cs[c].tx_next \in Nat /\ cs[c].tx_reserved \in Nat
    BY DEF AllContacts, Contact
  <1>5. CASE Exhausted(cs[c]) /\ ~CanReserve(cs[c])
    <2> DEFINE then == [Nothing EXCEPT !.events = events]
               op == Stage(o)
    <2>1. /\ contacts' = cs /\ persisted_tx_epoch' = persisted_tx_epoch
          /\ StagePersist(op, provisioned, persisted_tx_epoch, cs, then)
      BY <1>5 DEF BuildAck
    <2>2. then.frames = {} /\ then.events = events /\ ~then.emit /\ then \in After
      BY DEF Nothing, After
    <2>3. op \in Staged /\ Reserve(cs, op) = cs
      BY StageFact
    <2> HIDE DEF then, op
    <2>4. Pending(then, roots')
      BY <1>1, <2>2 DEF Pending, FramesAbove
    <2>5. SendInv'
      <3>1. caller' = "commit" /\ ~after'.emit
        BY <2>1, <2>2 DEF StagePersist
      <3>2. pending_send /= NoSend => pending_send.contact \in Contacts
        BY Between DEF Sending
      <3> QED BY <1>1, <2>1, <3>1, <3>2, SendKept
    <2>6. Good(Reserve(cs, op), persisted_tx_epoch, air \union then.frames,
               delivered \union then.events, roots')
      BY <1>1, <2>2, <2>3, Between
    <2>7. time_valid' => persisted_tx_epoch <= now'
      BY <1>1, Between
    <2> QED BY <1>1, <1>2, <2>1, <2>3, <2>4, <2>5, <2>6, <2>7, Between, Staging
  <1>6. CASE ~(Exhausted(cs[c]) /\ ~CanReserve(cs[c]))
    <2> DEFINE f == Sealed(cs, c, Epoch, ack)
               then == [Nothing EXCEPT !.frames = {f}, !.events = events]
               op == IF Exhausted(cs[c]) THEN TxReserve(c, cs[c].tx_next + Block)
                     ELSE Stage("RxAccept")
               new == Taken(cs, c, Epoch)
               epoch == Max2(persisted_tx_epoch, Epoch)
    <2>0. Frame(c, Epoch, cs[c].tx_next, ack) = f
      BY DEF Frame, Sealed
    <2>1. /\ contacts' = new /\ persisted_tx_epoch' = epoch
          /\ StagePersist(op, provisioned, epoch, new, then)
      BY <1>6, <2>0 DEF BuildAck, Taken
    <2>2. op \in Staged /\ Covers(op, cs, c)
      <3>1. CASE Exhausted(cs[c])
        BY <1>4, <3>1 DEF TxReserve, Staged, Covers
      <3>2. CASE ~Exhausted(cs[c])
        <4>1. cs[c].tx_next < cs[c].tx_reserved
          BY <1>4, <3>2 DEF Exhausted
        <4>2. Stage("RxAccept") \in Staged /\ Stage("RxAccept").op /= "TxReserve"
          BY DEF Stage, Staged
        <4> QED BY <3>2, <4>1, <4>2 DEF Covers
      <3> QED BY <3>1, <3>2
    <2> HIDE DEF op
    <2>3. /\ new \in AllContacts /\ Reserve(new, op) \in AllContacts /\ f \in Frames
          /\ epoch \in Epochs
          /\ Good(Reserve(new, op), epoch, air \union {f}, delivered \union events, roots)
          /\ FramesAbove({f}, air, roots)
      BY <1>3, <1>4, <2>2, Between, GoodSeal
    <2>4. persisted_tx_epoch <= epoch /\ epoch <= now
      BY <1>3, Between DEF Max2, Epochs
    <2>5. then.frames = {f} /\ then.events = events /\ ~then.emit /\ then \in After
      BY <2>3 DEF Nothing, After
    <2>6. ASSUME NEW d \in Contacts
          PROVE  /\ new[d].present = contacts[d].present /\ new[d].blocked = contacts[d].blocked
                 /\ new[d].root = contacts[d].root
      <3>1. CASE d = c
        <4>1. new[c] = TakeNumber(cs[c], Epoch)
          BY DEF Taken, AllContacts
        <4> QED BY <1>3, <1>4, <3>1, <4>1, TakeNumberFields
      <3>2. CASE d /= c
        BY <3>2 DEF Taken, AllContacts
      <3> QED BY <3>1, <3>2
    <2> HIDE DEF f, then, new, epoch
    <2>7. Pending(then, roots')
      BY <1>1, <2>3, <2>5 DEF Pending
    <2>8. SendInv'
      <3>1. caller' = "commit" /\ ~after'.emit
        BY <2>1, <2>5 DEF StagePersist
      <3>2. pending_send /= NoSend => pending_send.contact \in Contacts
        BY Between DEF Sending
      <3> QED BY <1>1, <2>1, <2>6, <3>1, <3>2, SendKept
    <2>9. Good(Reserve(new, op), epoch, air \union then.frames, delivered \union then.events, roots')
      BY <1>1, <2>3, <2>5
    <2> QED BY <1>1, <1>2, <2>1, <2>2, <2>3, <2>4, <2>7, <2>8, <2>9, Staging
  <1> QED BY <1>5, <1>6

\* on_frame of a DATA frame: the window moves, and the ACK takes a number.
LEMMA OnDataStep ==
    ASSUME IndInv, NEW c \in Contacts, NEW e \in Epochs, NEW s \in RxSeqs, NEW ack \in Bodies,
           OnData(c, e, s, ack)
    PROVE  IndInv'
  <1>1. /\ caller = "idle" /\ ~fault /\ fault' = fault /\ time_valid
        /\ contacts[c].present /\ e \in Slots(contacts[c].anchor)
        /\ UNCHANGED <<provisioned, radio_on, time_valid, now, pending_send, history>>
    BY DEF OnData, CanReceive, Usable
  <1>2. s \in Nat
    BY EngineAssumption
  <1> DEFINE cs == TookData(contacts, c, e, s)
             k == Key(c, e, s)
  <1>3. CASE /\ Verdict(contacts[c].win_data[e], s) = "Accepted"
             /\ BuildAck(c, cs, Stage("RxAccept"), ack, {k})
    <2>1. k = [root |-> contacts[c].root, epoch |-> e, seq |-> s]
      BY DEF Key
    <2>2. /\ cs \in AllContacts
          /\ \A d \in Contacts : /\ cs[d].present = contacts[d].present
                                  /\ cs[d].blocked = contacts[d].blocked
                                  /\ cs[d].root = contacts[d].root
          /\ Good(cs, persisted_tx_epoch, air, delivered \union {k}, roots)
      BY <1>1, <1>2, <2>1, Between, GoodData
    <2>3. k \in Keys /\ k.root <= roots
      <3>1. contacts[c] \in Contact /\ contacts[c].root \in 1 .. roots /\ roots \in Nat
        BY <1>1, Between DEF AllContacts, Good, GoodRoots
      <3> QED BY <1>2, <2>1, <3>1 DEF Keys
    <2>4. k \notin delivered
      <3> SUFFICES ASSUME k \in delivered PROVE FALSE
        OBVIOUS
      <3>1. Refuses(contacts, k)
        BY <1>1, Between DEF Good, GoodRx
      <3> QED BY <1>1, <1>3, <2>1, <3>1 DEF Refuses
    <2> HIDE DEF cs, k
    <2> QED BY <1>1, <1>3, <2>2, <2>3, <2>4, BuildAckStep
  <1>4. CASE BuildAck(c, contacts, Stage("None"), ack, {})
    <2>1. Good(contacts, persisted_tx_epoch, air, delivered \union {}, roots)
      BY <1>1, Between
    <2> QED BY <1>1, <1>4, <2>1, Between, BuildAckStep
  <1> QED BY <1>3, <1>4 DEF OnData, TookData

\* on_frame of an ACK: the window moves, and the send in flight may be over.
LEMMA OnAckStep ==
    ASSUME IndInv, NEW c \in Contacts, NEW e \in Epochs, NEW s \in RxSeqs, NEW matches \in BOOLEAN,
           OnAck(c, e, s, matches)
    PROVE  IndInv'
  <1> DEFINE cs == TookAck(contacts, c, e, s)
             then == [Nothing EXCEPT !.complete = matches]
             op == Stage("RxAccept")
  <1>1. /\ caller = "idle" /\ ~fault /\ fault' = fault /\ time_valid /\ contacts[c].present
        /\ contacts' = cs /\ StagePersist(op, provisioned, persisted_tx_epoch, cs, then)
        /\ provisioned' = provisioned /\ persisted_tx_epoch' = persisted_tx_epoch
        /\ air' = air /\ delivered' = delivered /\ roots' = roots
        /\ radio_on' = radio_on /\ time_valid' = time_valid /\ now' = now
        /\ pending_send' = pending_send
    BY DEF OnAck, CanReceive, Usable, history, TookAck
  <1>2. /\ radio_on' \in BOOLEAN /\ time_valid' \in BOOLEAN /\ provisioned \in BOOLEAN
        /\ now' \in Epochs /\ pending_send' \in Sending \union {NoSend} /\ roots' \in Nat
        /\ roots <= roots' /\ caller /= "commit" /\ time_valid' => persisted_tx_epoch <= now'
    BY <1>1, Between DEF TypeOK
  <1>3. s \in Nat
    BY EngineAssumption
  <1>4. /\ cs \in AllContacts
        /\ \A d \in Contacts : /\ cs[d].present = contacts[d].present
                                /\ cs[d].blocked = contacts[d].blocked
                                /\ cs[d].root = contacts[d].root
        /\ Good(cs, persisted_tx_epoch, air, delivered, roots)
    BY <1>1, <1>3, Between, GoodAck
  <1>5. op \in Staged /\ Reserve(cs, op) = cs
    BY StageFact
  <1>6. then.frames = {} /\ then.events = {} /\ ~then.emit /\ then \in After
    BY DEF Nothing, After
  <1> HIDE DEF cs, then, op
  <1>7. Pending(then, roots')
    BY <1>6 DEF Pending, FramesAbove
  <1>8. SendInv'
    <2>1. caller' = "commit" /\ ~after'.emit
      BY <1>1, <1>6 DEF StagePersist
    <2>2. pending_send /= NoSend => pending_send.contact \in Contacts
      BY <1>1, Between DEF Sending
    <2> QED BY <1>1, <1>4, <2>1, <2>2, SendKept
  <1>9. Good(Reserve(cs, op), persisted_tx_epoch, air \union then.frames,
             delivered \union then.events, roots')
    BY <1>1, <1>4, <1>5, <1>6, Between
  <1> QED BY <1>1, <1>2, <1>4, <1>5, <1>7, <1>8, <1>9, Between, Staging

-----------------------------------------------------------------------------
(* Steps that stage nothing.                                               *)

\* Giving a send up, or giving the time up, between two of the caller's steps.
LEMMA GiveUpStep ==
    ASSUME IndInv, PairCancel \/ SendComplete \/ AdvanceTimeFails
    PROVE  IndInv'
  <1>1. /\ caller = "idle"
        /\ provisioned' = provisioned /\ radio_on' = radio_on /\ now' = now
        /\ contacts' = contacts /\ persisted_tx_epoch' = persisted_tx_epoch /\ fault' = fault
        /\ staged' = staged /\ scratch' = scratch /\ flash' = flash
        /\ caller' = caller /\ after' = after
        /\ air' = air /\ delivered' = delivered /\ roots' = roots
        /\ time_valid' = time_valid \/ time_valid' = FALSE
        /\ pending_send' = pending_send \/ pending_send' = NoSend
    BY DEF PairCancel, SendComplete, AdvanceTimeFails, persist, history
  <1>2. TypeOK'
    BY <1>1 DEF IndInv, TypeOK
  <1>3. HistoryInv' /\ FlashInv'
    BY <1>1 DEF IndInv, HistoryInv, NonceNeverReused, FlashInv
  <1>4. StagedInv' /\ SettledInv' /\ FaultInv'
    BY <1>1 DEF IndInv, StagedInv, SettledInv, FaultInv
  <1>5. SendInv'
    <2>1. ~Sealing /\ ~Sealing'
      BY <1>1, NothingPending DEF Sealing, IndInv, SettledInv
    <2>2. CASE pending_send' = NoSend
      BY <2>1, <2>2 DEF SendInv
    <2>3. CASE pending_send' = pending_send
      <3>1. DataFrame(pending_send)' = DataFrame(pending_send)
        BY <1>1, <2>3 DEF DataFrame, Frame
      <3> QED BY <1>1, <2>1, <2>3, <3>1 DEF IndInv, SendInv
    <2> QED BY <1>1, <2>2, <2>3
  <1> QED BY <1>2, <1>3, <1>4, <1>5 DEF IndInv

\* Nothing changes.
LEMMA StutterStep == ASSUME IndInv, UNCHANGED vars PROVE IndInv'
  <1>1. /\ provisioned' = provisioned /\ radio_on' = radio_on /\ time_valid' = time_valid
        /\ now' = now /\ contacts' = contacts /\ persisted_tx_epoch' = persisted_tx_epoch
        /\ pending_send' = pending_send /\ fault' = fault
        /\ staged' = staged /\ scratch' = scratch /\ flash' = flash
        /\ caller' = caller /\ after' = after
        /\ air' = air /\ delivered' = delivered /\ roots' = roots
    BY DEF vars, ram, persist, history
  <1>2. TypeOK'
    BY <1>1 DEF IndInv, TypeOK
  <1>3. HistoryInv' /\ FlashInv'
    BY <1>1 DEF IndInv, HistoryInv, NonceNeverReused, FlashInv
  <1>4. StagedInv' /\ SettledInv' /\ FaultInv'
    BY <1>1 DEF IndInv, StagedInv, SettledInv, FaultInv
  <1>5. SendInv'
    BY <1>1 DEF IndInv, SendInv, Sealing, DataFrame, Frame
  <1> QED BY <1>2, <1>3, <1>4, <1>5 DEF IndInv

\* A retry repeats a frame that is already on the air.
LEMMA SendRetryEchoStep == ASSUME IndInv, SendRetryEcho PROVE IndInv'
  <1>1. caller = "idle" /\ pending_send /= NoSend
    BY DEF SendRetryEcho
  <1>2. ~fault
    BY <1>1 DEF IndInv, FaultInv
  <1>3. DataFrame(pending_send) \in air
    BY <1>1, <1>2, Between
  <1>4. air' = air
    BY <1>3 DEF SendRetryEcho
  <1>5. UNCHANGED vars
    BY <1>4 DEF SendRetryEcho, vars, history
  <1> QED BY <1>5, StutterStep

-----------------------------------------------------------------------------
(* The commit, its failure, and the loss of power.                         *)

\* What holds of the staged record while the caller owes its commit.
LEMMA Owed ==
    ASSUME IndInv, caller = "commit"
    PROVE  /\ ~fault /\ staged \in Staged
           /\ scratch \in Record /\ scratch.contacts \in AllContacts
           /\ scratch.contacts = Reserve(contacts, staged)
           /\ scratch.tx_epoch = persisted_tx_epoch
           /\ Good(scratch.contacts, persisted_tx_epoch, air \union after.frames,
                   delivered \union after.events, roots)
           /\ Good(scratch.contacts, scratch.tx_epoch, air, delivered, roots)
  <1>1. /\ ~fault /\ staged \in Staged
        /\ scratch = PersistView(provisioned, persisted_tx_epoch, contacts, staged)
        /\ Good(scratch.contacts, persisted_tx_epoch, air \union after.frames,
                delivered \union after.events, roots)
    BY DEF IndInv, StagedInv
  <1>2. scratch \in Record /\ scratch.contacts \in AllContacts /\ roots \in Nat
    BY DEF IndInv, TypeOK, Record, AllContacts
  <1>3. scratch.contacts = Reserve(contacts, staged) /\ scratch.tx_epoch = persisted_tx_epoch
    BY <1>1 DEF PersistView
  <1>4. Good(scratch.contacts, persisted_tx_epoch, air, delivered, roots)
    <2>1. air \subseteq air \union after.frames /\ delivered \subseteq delivered \union after.events
      OBVIOUS
    <2> QED BY <1>1, <1>2, <2>1, GoodSubset
  <1> QED BY <1>1, <1>2, <1>3, <1>4

\* Applying a reservation leaves all but tx_reserved alone.
LEMMA ReserveFields ==
    ASSUME NEW cs \in AllContacts, NEW op \in Staged, NEW c \in Contacts
    PROVE  LET new == Reserve(cs, op)
           IN  /\ new[c].present = cs[c].present /\ new[c].blocked = cs[c].blocked
               /\ new[c].root = cs[c].root /\ new[c].tx_next = cs[c].tx_next
               /\ new[c].tx_epoch_max = cs[c].tx_epoch_max
  <1>1. CASE op.op /= "TxReserve"
    BY <1>1 DEF Reserve
  <1>2. CASE op.op = "TxReserve"
    <2>1. op.slot \in Contacts /\ op.new_reserved \in Nat
      BY <1>2 DEF Staged
    <2>2. Reserve(cs, op) = [cs EXCEPT ![op.slot].tx_reserved = op.new_reserved]
      BY <1>2 DEF Reserve
    <2>3. CASE c /= op.slot
      BY <2>2, <2>3 DEF AllContacts
    <2>4. CASE c = op.slot
      <3>1. Reserve(cs, op)[c] = [cs[c] EXCEPT !.tx_reserved = op.new_reserved]
        BY <2>2, <2>4 DEF AllContacts
      <3>2. cs[c] \in Contact
        BY DEF AllContacts
      <3> QED BY <3>1, <3>2 DEF Contact
    <2> QED BY <2>3, <2>4
  <1> QED BY <1>1, <1>2

\* The blank record and the empty list of effects have their types.
LEMMA BlankType == BlankRecord \in Record /\ Nothing \in After
  <1>1. 0 \in Epochs
    BY EngineAssumption DEF Epochs
  <1>2. BlankRecord \in Record
    BY <1>1, EmptyContactType DEF BlankRecord, Record
  <1>3. Nothing \in After
    BY DEF Nothing, After
  <1> QED BY <1>2, <1>3

\* A commit that succeeds makes the staged record the flash and lets the effects out.
LEMMA CommitOkStep == ASSUME IndInv, CommitOk PROVE IndInv'
  <1>1. /\ caller = "commit" /\ flash' = scratch /\ contacts' = Reserve(contacts, staged)
        /\ staged' = NoStage /\ scratch' = BlankRecord
        /\ pending_send' = IF after.complete THEN NoSend ELSE pending_send
        /\ air' = air \union after.frames /\ delivered' = delivered \union after.events
        /\ caller' = IF after.emit THEN "emit" ELSE "idle"
        /\ after' = Nothing
        /\ provisioned' = provisioned /\ radio_on' = radio_on /\ time_valid' = time_valid
        /\ now' = now /\ persisted_tx_epoch' = persisted_tx_epoch /\ fault' = fault
        /\ roots' = roots
    BY DEF CommitOk, Commit, ApplyStaged
  <1>2. /\ after \in After /\ after.frames \subseteq Frames /\ after.events \subseteq Keys
        /\ FramesAbove(after.frames, air, roots)
        /\ \A k \in after.events : k \notin delivered /\ k.root <= roots
        /\ after.emit => after.frames = {} /\ ~after.complete
        /\ after.emit \in BOOLEAN
    BY <1>1 DEF IndInv, TypeOK, StagedInv, After
  <1>3. caller' /= "commit" /\ caller' \in {"idle", "commit", "emit"}
    BY <1>1
  <1>5. TypeOK'
    <2>1. contacts' \in AllContacts /\ flash' \in Record
      BY <1>1, Owed
    <2>2. pending_send' \in Sending \union {NoSend}
      BY <1>1 DEF IndInv, TypeOK
    <2> QED BY <1>1, <1>2, <1>3, <2>1, <2>2, BlankType DEF IndInv, TypeOK, AllContacts
  <1>6. HistoryInv'
    <2>1. NonceNeverReused'
      <3> SUFFICES ASSUME NEW f \in air', NEW g \in air',
                          f.root = g.root, f.epoch = g.epoch, f.seq = g.seq
                   PROVE  f = g
        BY DEF NonceNeverReused
      <3>1. f.seq \in Nat /\ g.seq \in Nat
        BY <1>1, <1>2 DEF IndInv, TypeOK, Frames
      <3>2. CASE f \in air /\ g \in air
        BY <3>2 DEF IndInv, HistoryInv, NonceNeverReused
      <3>3. CASE f \in after.frames /\ g \in after.frames
        BY <1>2, <3>3 DEF FramesAbove
      <3>4. CASE f \in after.frames /\ g \in air
        BY <1>2, <3>1, <3>4 DEF FramesAbove
      <3>5. CASE f \in air /\ g \in after.frames
        BY <1>2, <3>1, <3>5 DEF FramesAbove
      <3> QED BY <1>1, <3>2, <3>3, <3>4, <3>5
    <2>2. \A f \in air' : f.root <= roots /\ f.epoch <= persisted_tx_epoch
      <3>1. \A f \in air \union after.frames : f.epoch <= persisted_tx_epoch
        BY <1>1, Owed DEF Good, GoodTx
      <3>2. \A f \in after.frames : f.root <= roots
        BY <1>2 DEF FramesAbove
      <3>3. \A f \in air : f.root <= roots
        BY DEF IndInv, HistoryInv
      <3> QED BY <1>1, <3>1, <3>2, <3>3
    <2>3. \A k \in delivered' : k.root <= roots
      BY <1>1, <1>2 DEF IndInv, HistoryInv
    <2> QED BY <1>1, <2>1, <2>2, <2>3 DEF IndInv, HistoryInv
  <1>7. FlashInv'
    BY <1>1, Owed DEF FlashInv
  <1>8. StagedInv' /\ FaultInv'
    BY <1>1, <1>3, Owed DEF StagedInv, FaultInv
  <1>9. SettledInv'
    BY <1>1, Owed DEF SettledInv
  <1>10. SendInv'
    <2>1. Sealing' = after.emit /\ Sealing = after.emit
      BY <1>1, <1>2, NothingPending DEF Sealing
    <2>2. CASE pending_send' = NoSend
      <3>1. ~after.emit
        BY <1>1, <1>2, <2>1, <2>2 DEF IndInv, SendInv
      <3> QED BY <2>1, <2>2, <3>1 DEF SendInv
    <2>3. CASE pending_send' /= NoSend
      <3> DEFINE c == pending_send.contact
      <3>1. pending_send' = pending_send /\ pending_send \in Sending /\ c \in Contacts
        BY <1>1, <2>3 DEF IndInv, TypeOK, Sending
      <3>2. /\ contacts'[c].present = contacts[c].present
            /\ contacts'[c].blocked = contacts[c].blocked
            /\ contacts'[c].root = contacts[c].root /\ contacts'[c].tx_next = contacts[c].tx_next
            /\ contacts'[c].tx_epoch_max = contacts[c].tx_epoch_max
        <4>1. contacts \in AllContacts
          BY DEF IndInv, TypeOK, AllContacts
        <4> QED BY <1>1, <3>1, <4>1, Owed, ReserveFields
      <3>3. DataFrame(pending_send)' = DataFrame(pending_send)
        BY <3>1, <3>2 DEF DataFrame, Frame
      <3>4. contacts'[c] = scratch.contacts[c]
        BY <1>1, Owed
      <3>5. CASE after.emit
        BY <1>1, <1>3, <2>1, <2>3, <3>1, <3>2, <3>4, <3>5 DEF IndInv, SendInv
      <3>6. CASE ~after.emit
        <4>1. DataFrame(pending_send) \in air'
          BY <1>1, <2>1, <2>3, <3>1, <3>6 DEF IndInv, SendInv
        <4>2. contacts[c].present /\ ~contacts[c].blocked
          BY <2>3, <3>1 DEF IndInv, SendInv
        <4> QED BY <2>1, <2>3, <3>1, <3>2, <3>3, <3>6, <4>1, <4>2 DEF SendInv
      <3> QED BY <3>5, <3>6
    <2> QED BY <2>2, <2>3
  <1> QED BY <1>5, <1>6, <1>7, <1>8, <1>9, <1>10 DEF IndInv

\* Whatever a write leaves behind, the record is one the engine can go on from.
LEMMA TornWriteGood ==
    ASSUME IndInv, caller = "commit", TornWrite(scratch)
    PROVE  /\ flash' \in Record
           /\ Good(flash'.contacts, flash'.tx_epoch, air, delivered, roots)
  <1>1. CASE flash' = flash
    BY <1>1 DEF IndInv, TypeOK, FlashInv
  <1>2. CASE flash' = scratch
    BY <1>2, Owed
  <1> QED BY <1>1, <1>2 DEF TornWrite

\* A commit that fails leaves the old record or the new one, both of them good.
LEMMA CommitFailsStep == ASSUME IndInv, CommitFails PROVE IndInv'
  <1>1. /\ caller = "commit" /\ TornWrite(scratch)
        /\ staged' = NoStage /\ scratch' = BlankRecord /\ pending_send' = NoSend
        /\ fault' = TRUE /\ caller' = "idle" /\ after' = Nothing
        /\ provisioned' = provisioned /\ radio_on' = radio_on /\ time_valid' = time_valid
        /\ now' = now /\ contacts' = contacts /\ persisted_tx_epoch' = persisted_tx_epoch
        /\ air' = air /\ delivered' = delivered /\ roots' = roots
    BY DEF CommitFails, CommitFault, history
  <1>2. TypeOK'
    BY <1>1, TornWriteGood, BlankType DEF IndInv, TypeOK
  <1>3. HistoryInv' /\ FlashInv'
    BY <1>1, TornWriteGood DEF IndInv, HistoryInv, NonceNeverReused, FlashInv
  <1>4. StagedInv' /\ SettledInv' /\ FaultInv'
    BY <1>1 DEF StagedInv, SettledInv, FaultInv
  <1>5. SendInv'
    BY <1>1, NothingPending DEF SendInv, Sealing
  <1> QED BY <1>2, <1>3, <1>4, <1>5 DEF IndInv

\* restore of a good record, skipping the reserved block, yields a good engine.
LEMMA RebootStep == ASSUME IndInv, Reboot PROVE IndInv'
  <1> DEFINE cs == [c \in Contacts |-> RestoreContact(flash'.contacts[c])]
  <1>1. /\ provisioned' = flash'.provisioned /\ radio_on' = FALSE /\ time_valid' = FALSE
        /\ now' = 0 /\ contacts' = cs
        /\ persisted_tx_epoch' = flash'.tx_epoch /\ pending_send' = NoSend /\ fault' = FALSE
        /\ staged' = NoStage /\ scratch' = BlankRecord /\ caller' = "idle" /\ after' = Nothing
        /\ air' = air /\ delivered' = delivered /\ roots' = roots
    BY DEF Reboot, Boot, history
  <1>2. /\ flash' \in Record
        /\ Good(flash'.contacts, flash'.tx_epoch, air, delivered, roots)
    <2>1. CASE caller = "commit"
      BY <2>1, TornWriteGood DEF Reboot, Boot
    <2>2. CASE caller /= "commit"
      BY <2>2 DEF Reboot, Boot, IndInv, TypeOK, FlashInv
    <2> QED BY <2>1, <2>2
  <1>3. /\ flash'.contacts \in AllContacts /\ flash'.tx_epoch \in Epochs
        /\ flash'.provisioned \in BOOLEAN
        /\ air \in SUBSET Frames /\ delivered \in SUBSET Keys /\ roots \in Nat
    BY <1>2 DEF Record, AllContacts, IndInv, TypeOK
  <1>4. cs \in AllContacts /\ Good(cs, flash'.tx_epoch, air, delivered, roots)
    BY <1>2, <1>3, GoodRestore
  <1> HIDE DEF cs
  <1>5. TypeOK'
    <2>1. 0 \in Epochs
      BY EngineAssumption DEF Epochs
    <2> QED BY <1>1, <1>2, <1>3, <1>4, <2>1, BlankType DEF TypeOK, AllContacts
  <1>6. HistoryInv'
    <2>1. \A f \in air : f.epoch <= flash'.tx_epoch
      BY <1>2 DEF Good, GoodTx
    <2> QED BY <1>1, <2>1 DEF IndInv, HistoryInv, NonceNeverReused
  <1>7. FlashInv'
    BY <1>1, <1>2 DEF FlashInv
  <1>8. StagedInv' /\ SettledInv' /\ FaultInv'
    BY <1>1, <1>4 DEF StagedInv, SettledInv, FaultInv
  <1>9. SendInv'
    BY <1>1, NothingPending DEF SendInv, Sealing
  <1> QED BY <1>5, <1>6, <1>7, <1>8, <1>9 DEF IndInv

-----------------------------------------------------------------------------
(* The invariant.                                                          *)

\* The engine as Engine::new leaves it, over an erased flash.
LEMMA InitHolds == ASSUME Init PROVE IndInv
  <1> USE EngineAssumption
  <1> DEFINE blank == [c \in Contacts |-> EmptyContact]
  <1>1. BlankRecord.contacts = blank /\ BlankRecord.tx_epoch = 0
    BY DEF BlankRecord
  <1>2. /\ blank \in AllContacts /\ 0 \in Epochs
        /\ \A c \in Contacts : blank[c] = EmptyContact
    BY EmptyContactType DEF AllContacts, Epochs
  <1>3. EmptyContact.present = FALSE /\ EmptyContact.tx_next <= EmptyContact.tx_reserved
    BY DEF EmptyContact
  <1> HIDE DEF blank
  <1>4. Good(blank, 0, {}, {}, 0)
    <2>1. GoodRoots(blank, 0)
      BY <1>2, <1>3 DEF GoodRoots
    <2>2. GoodTx(blank, 0, {})
      BY <1>2, <1>3 DEF GoodTx
    <2>3. GoodRx(blank, {})
      BY <1>2, EmptyContactType DEF GoodRx
    <2> QED BY <2>1, <2>2, <2>3 DEF Good
  <1>5. TypeOK
    BY <1>1, <1>2, BlankType DEF Init, TypeOK, AllContacts
  <1>6. HistoryInv
    BY DEF Init, HistoryInv, NonceNeverReused
  <1>7. FlashInv
    BY <1>1, <1>4 DEF Init, FlashInv
  <1>8. StagedInv /\ SettledInv /\ FaultInv
    BY <1>1, <1>4 DEF Init, StagedInv, SettledInv, FaultInv
  <1>9. SendInv
    BY NothingPending DEF Init, SendInv, Sealing
  <1> QED BY <1>5, <1>6, <1>7, <1>8, <1>9 DEF IndInv

\* Every step of the specification preserves the inductive invariant.
LEMMA StepHolds == ASSUME IndInv, [Next]_vars PROVE IndInv'
  <1>1. CASE Provision
    BY <1>1, ProvisionStep
  <1>2. CASE \E e \in Epochs, confirmed \in BOOLEAN : SetTimeConfirmed(e, confirmed)
    BY <1>2, SetTimeConfirmedStep
  <1>3. CASE AdvanceTime
    BY <1>3, AdvanceTimeStep
  <1>4. CASE \E enabled \in BOOLEAN : SetRadio(enabled)
    BY <1>4, SetRadioStep
  <1>5. CASE PairCancel \/ SendComplete \/ AdvanceTimeFails
    BY <1>5, GiveUpStep
  <1>6. ASSUME NEW c \in Contacts,
               \/ PairActivate(c)
               \/ DeleteContact(c)
               \/ \E blocked \in BOOLEAN : SetBlocked(c, blocked)
               \/ \E body \in Bodies : SendBegin(c, body)
        PROVE  IndInv'
    BY <1>6, PairActivateStep, DeleteContactStep, SetBlockedStep, SendBeginStep
  <1>7. ASSUME NEW c \in Contacts, NEW e \in Epochs, NEW s \in RxSeqs,
               \/ \E ack \in Bodies : OnData(c, e, s, ack)
               \/ \E matches \in BOOLEAN : OnAck(c, e, s, matches)
        PROVE  IndInv'
    BY <1>7, OnDataStep, OnAckStep
  <1>8. CASE SendEmit
    BY <1>8, SendEmitStep
  <1>9. CASE SendRetryEcho
    BY <1>9, SendRetryEchoStep
  <1>10. CASE CommitOk
    BY <1>10, CommitOkStep
  <1>11. CASE CommitFails
    BY <1>11, CommitFailsStep
  <1>12. CASE Reboot
    BY <1>12, RebootStep
  <1>13. CASE UNCHANGED vars
    BY <1>13, StutterStep
  <1> QED BY <1>1, <1>2, <1>3, <1>4, <1>5, <1>6, <1>7, <1>8, <1>9, <1>10, <1>11, <1>12, <1>13
          DEF Next

\* In every reachable state the RAM, the staged snapshot and the flash of Engine
\* are each good to go on from: the inductive invariant holds.
THEOREM Invariant == Spec => []IndInv
  <1>1. Init => IndInv
    BY InitHolds
  <1>2. IndInv /\ [Next]_vars => IndInv'
    BY StepHolds
  <1> QED BY <1>1, <1>2, PTL DEF Spec

-----------------------------------------------------------------------------
(* The properties.                                                         *)

\* Every variable of Engine always holds a value of its type.
THEOREM TypeCorrect == Spec => []TypeOK
  <1>1. IndInv => TypeOK
    BY DEF IndInv
  <1> QED BY <1>1, Invariant, PTL

\* No key and nonce ever seals two different frames (send_emit, build_ack), for
\* any block size, number of contacts, crashes and torn writes.
THEOREM NonceUnique == Spec => []NonceNeverReused
  <1>1. IndInv => NonceNeverReused
    BY DEF IndInv, HistoryInv
  <1> QED BY <1>1, Invariant, PTL

\* No message is reported to the host twice (on_frame, restore).
THEOREM AtMostOnceDelivery == Spec => []NeverRedelivered
  <1>1. ASSUME IndInv PROVE NeverRedelivered
    <2>1. CASE caller = "commit"
      BY <1>1, <2>1 DEF IndInv, StagedInv, NeverRedelivered
    <2>2. CASE caller /= "commit"
      <3>1. after.events = {}
        BY <1>1, <2>2, NothingPending DEF IndInv, SettledInv
      <3> QED BY <3>1 DEF NeverRedelivered
    <2> QED BY <2>1, <2>2
  <1> QED BY <1>1, Invariant, PTL

\* The record in flash refuses every message the host has been given (on_frame).
THEOREM DeliveryDurable == Spec => []ReceptionDurable
  <1>1. IndInv => ReceptionDurable
    BY DEF IndInv, FlashInv, Good, GoodRx, ReceptionDurable
  <1> QED BY <1>1, Invariant, PTL

\* The record in flash never allows a number or an epoch that is on the air to be
\* used again (send_begin, build_ack, persist_view).
THEOREM ReservationDurable == Spec => []TransmitDurable
  <1>1. ASSUME IndInv PROVE TransmitDurable
    <2> SUFFICES ASSUME NEW f \in air
                 PROVE  /\ f.epoch <= flash.tx_epoch
                        /\ \A c \in Contacts :
                              flash.contacts[c].present /\ flash.contacts[c].root = f.root
                                => /\ f.seq < flash.contacts[c].tx_reserved
                                   /\ f.epoch <= flash.contacts[c].tx_epoch_max
      BY DEF TransmitDurable
    <2>1. f.epoch <= flash.tx_epoch /\ Below(f, flash.contacts)
      BY <1>1 DEF IndInv, FlashInv, Good, GoodTx
    <2>2. \A c \in Contacts : flash.contacts[c].tx_next <= flash.contacts[c].tx_reserved
      BY <1>1 DEF IndInv, FlashInv, Good, GoodTx
    <2>3. /\ f.seq \in Nat
          /\ \A c \in Contacts : /\ flash.contacts[c].tx_next \in Nat
                                  /\ flash.contacts[c].tx_reserved \in Nat
      BY <1>1 DEF IndInv, TypeOK, Frames, Record, Contact
    <2> QED BY <2>1, <2>2, <2>3 DEF Below
  <1> QED BY <1>1, Invariant, PTL

\* Trusted time is never below an epoch in which a frame went out
\* (set_time_confirmed, advance_time, restore).
THEOREM TimeFloor == Spec => []TimeNeverBelowTraffic
  <1>1. ASSUME IndInv PROVE TimeNeverBelowTraffic
    <2> SUFFICES ASSUME time_valid, NEW f \in air PROVE f.epoch <= now
      BY DEF TimeNeverBelowTraffic
    <2>1. f.epoch <= persisted_tx_epoch /\ persisted_tx_epoch <= now
      BY <1>1 DEF IndInv, HistoryInv
    <2>2. f.epoch \in Nat /\ persisted_tx_epoch \in Nat /\ now \in Nat
      BY <1>1 DEF IndInv, TypeOK, Frames, Epochs
    <2> QED BY <2>1, <2>2
  <1> QED BY <1>1, Invariant, PTL

\* What is in flash, and what is about to be, decodes at the next boot (decode_view).
THEOREM AlwaysDecodable == Spec => []RecordDecodable
  <1>1. ASSUME NEW record, NEW epoch, NEW F, NEW K, NEW rs,
               Good(record.contacts, epoch, F, K, rs)
        PROVE  Decodable(record)
    BY <1>1 DEF Good, GoodRoots, GoodTx, GoodRx, WindowsStorable, Decodable, EmptyContact
  <1>2. ASSUME IndInv PROVE RecordDecodable
    <2>1. Decodable(flash)
      BY <1>1, <1>2 DEF IndInv, FlashInv
    <2>2. caller = "commit" => Decodable(scratch)
      BY <1>1, <1>2, Owed
    <2> QED BY <2>1, <2>2 DEF RecordDecodable
  <1> QED BY <1>2, Invariant, PTL

\* After its reservation is durable a send is never refused by send_emit.
THEOREM EmitSucceeds == Spec => []EmitNeverRefused
  <1>1. IndInv => EmitNeverRefused
    BY DEF IndInv, SettledInv, SendInv, Sealing, EmitNeverRefused, EmitAllowed
  <1> QED BY <1>1, Invariant, PTL

\* A retry only ever repeats a frame that is on the air, to a contact that is
\* there and not blocked (send_retry_echo, set_blocked, delete_contact).
THEOREM RetryHarmless == Spec => []RetryOnlyRepeats
  <1>1. ASSUME IndInv PROVE RetryOnlyRepeats
    <2> SUFFICES ASSUME caller = "idle", pending_send /= NoSend
                 PROVE  /\ contacts[pending_send.contact].present
                        /\ ~contacts[pending_send.contact].blocked
                        /\ DataFrame(pending_send) \in air
      BY DEF RetryOnlyRepeats
    <2>1. ~fault
      BY <1>1 DEF IndInv, FaultInv
    <2> QED BY <1>1, <2>1, Between
  <1> QED BY <1>1, Invariant, PTL
=============================================================================
