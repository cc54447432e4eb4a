------------------------ MODULE TorrentServiceProofs ------------------------
(***************************************************************************)
(* For every set of links, every size of the tables and however often the  *)
(* user asks and the app is cut off: the list of links follows the         *)
(* engine's slots, a magnet's description is not written over, what is     *)
(* listed is what the resume folder holds, and a removal, an add and a     *)
(* search are of what the screen showed when they were asked for.          *)
(***************************************************************************)
EXTENDS TorrentService, SequenceTheorems, WellFoundedInduction, TLAPS

---------------------------------------------------------------------------
(* Facts about sequences and numbers.                                      *)

\* findFreeDescription's buffer is one of those it chose from.
LEMMA MinIsIn ==
  ASSUME NEW S \in SUBSET Nat, S # {}
  PROVE  Min(S) \in S
<1> DEFINE R == {p \in Nat \X Nat : p[1] < p[2]}
<1>1. IsWellFoundedOn(R, Nat)
  BY NatLessThanWellFounded DEF OpToRel
<1>2. PICK x \in S : \A y \in S : ~(<<y, x>> \in R)
  <2> HIDE DEF R
  <2> QED BY <1>1, WFMin
<1>3. \A y \in S : x =< y
  <2>1. SUFFICES ASSUME NEW y \in S, y < x PROVE FALSE
    BY <1>2
  <2>2. <<y, x>> \in Nat \X Nat /\ <<y, x>>[1] = y /\ <<y, x>>[2] = x
    BY <1>2
  <2>3. <<y, x>>[1] < <<y, x>>[2]
    BY <2>1, <2>2
  <2> QED BY <1>2, <2>2, <2>3
<1> QED BY <1>3 DEF Min

\* So is the removal that goes first, and there is none behind it.
LEMMA MaxIsIn ==
  ASSUME NEW n \in Nat, NEW S \in SUBSET (0 .. n), S # {}
  PROVE  Max(S) \in S /\ \A other \in S : other =< Max(S)
<1> DEFINE R == {p \in Nat \X Nat : p[1] < p[2]}
           T == {k \in Nat : \E x \in S : k = n - x}
<1>1. IsWellFoundedOn(R, Nat)
  BY NatLessThanWellFounded DEF OpToRel
<1>2. T \in SUBSET Nat /\ T # {}
  <2>1. PICK x \in S : TRUE
    OBVIOUS
  <2>2. n - x \in T
    BY <2>1
  <2> QED BY <2>2
<1>3. PICK k \in T : \A y \in T : ~(<<y, k>> \in R)
  <2> HIDE DEF R, T
  <2> QED BY <1>1, <1>2, WFMin
<1>4. \A y \in T : k =< y
  <2>1. SUFFICES ASSUME NEW y \in T, y < k PROVE FALSE
    BY <1>3
  <2>2. <<y, k>> \in Nat \X Nat /\ <<y, k>>[1] = y /\ <<y, k>>[2] = k
    BY <1>3
  <2> QED BY <1>3, <2>1, <2>2
<1>5. PICK x \in S : k = n - x
  BY <1>3
<1>6. \A other \in S : other =< x
  BY <1>4, <1>5
<1>7. \E highest \in S : \A other \in S : highest >= other
  BY <1>5, <1>6
<1> QED BY <1>7 DEF Max

\* forgetTorrent and removeTorrent: what is behind the gap moves down by one.
LEMMA RemoveAtProperties ==
  ASSUME NEW S, NEW seq \in Seq(S), NEW i \in 1 .. Len(seq)
  PROVE  /\ RemoveAt(seq, i) \in Seq(S)
         /\ Len(RemoveAt(seq, i)) = Len(seq) - 1
         /\ \A j \in 1 .. Len(seq) - 1 : RemoveAt(seq, i)[j] = IF j < i THEN seq[j] ELSE seq[j + 1]
<1> DEFINE front == SubSeq(seq, 1, i - 1)
           back == SubSeq(seq, i + 1, Len(seq))
<1>1. /\ front \in Seq(S) /\ Len(front) = i - 1
      /\ \A j \in 1 .. i - 1 : front[j] = seq[j]
  BY LenProperties, ElementOfSeq, SubSeqProperties
<1>2. /\ back \in Seq(S) /\ Len(back) = Len(seq) - i
      /\ \A j \in 1 .. Len(seq) - i : back[j] = seq[i + j]
  <2>1. \A j \in i + 1 .. Len(seq) : seq[j] \in S
    BY LenProperties, ElementOfSeq
  <2> QED BY <2>1, LenProperties, SubSeqProperties
<1> HIDE DEF front, back
<1>3. RemoveAt(seq, i) = front \o back
  BY DEF RemoveAt, front, back
<1>4. /\ front \o back \in Seq(S) /\ Len(front \o back) = Len(seq) - 1
      /\ \A j \in 1 .. Len(seq) - 1 : (front \o back)[j] = IF j =< i - 1 THEN front[j] ELSE back[j - (i - 1)]
  <2>1. Len(front) + Len(back) = Len(seq) - 1
    BY <1>1, <1>2, LenProperties
  <2>2. /\ front \o back \in Seq(S) /\ Len(front \o back) = Len(front) + Len(back)
        /\ \A j \in 1 .. Len(front) + Len(back) : (front \o back)[j] =
              IF j =< Len(front) THEN front[j] ELSE back[j - Len(front)]
    BY <1>1, <1>2, ConcatProperties
  <2> QED BY <1>1, <2>1, <2>2
<1>5. \A j \in 1 .. Len(seq) - 1 : (front \o back)[j] = IF j < i THEN seq[j] ELSE seq[j + 1]
  <2>1. SUFFICES ASSUME NEW j \in 1 .. Len(seq) - 1
                 PROVE  (front \o back)[j] = IF j < i THEN seq[j] ELSE seq[j + 1]
    OBVIOUS
  <2>2. CASE j < i
    BY <1>1, <1>4, <2>2, LenProperties
  <2>3. CASE ~(j < i)
    <3>1. j - (i - 1) \in 1 .. Len(seq) - i /\ i + (j - (i - 1)) = j + 1
      BY <2>3, LenProperties
    <3> QED BY <1>2, <1>4, <2>3, <3>1, LenProperties
  <2> QED BY <2>2, <2>3
<1> QED BY <1>3, <1>4, <1>5

\* A function over the slots is a list as long as they are.
LEMMA FunctionIsSeq ==
  ASSUME NEW S, NEW n \in Nat, NEW f \in [1 .. n -> S]
  PROVE  f \in Seq(S) /\ Len(f) = n
<1>1. f \in Seq(S)
  BY SeqDef
<1>2. Len(f) \in Nat /\ 1 .. Len(f) = 1 .. n
  BY <1>1, LenProperties
<1> QED BY <1>1, <1>2

---------------------------------------------------------------------------
(* The list: slots, links and descriptions, and who may change them.       *)

\* What the assumption on the constants comes to.
LEMMA Constants ==
  /\ TORRENT_SLOT_MAX \in Nat \ {0} /\ ADD_QUEUE_MAX \in Nat \ {0}
  /\ EventsMax \in Nat
  /\ Magnets \subseteq Links /\ Files \subseteq Links /\ Magnets \intersect Files = {}
  /\ \A query \in Queries : Found[query] \in Seq(Links)
BY ServiceAssumption DEF Links

\* A magnet's buffer is noted as held, and no other magnet has it; a torrent file
\* was described before it was listed.
BuffersNoted ==
    /\ \A slot \in DOMAIN slots : slots[slot].link \in Magnets
          => torrentLinks[slot].buffer = slots[slot].buffer
    /\ \A one, other \in DOMAIN slots :
          /\ slots[one].link \in Magnets /\ slots[other].link \in Magnets
          /\ slots[one].buffer = slots[other].buffer
          => one = other
    /\ \A slot \in DOMAIN slots : slots[slot].link \in Files => slots[slot].described

ListInv == ListTypeOK /\ LinksFollowSlots /\ BuffersNoted /\ MagnetDescriptionStays

\* Astray is every link whose hash is lost, that is listed from a file cut short, or
\* that is listed twice, which isAlreadyHeld allows for a lost hash only.
Marked ==
    /\ \A slot \in DOMAIN slots : slots[slot].left = "nothing" => slots[slot].link \in astray
    /\ \A slot \in DOMAIN slots : \/ torrentLinks[slot].file = slots[slot].link
                                  \/ torrentLinks[slot].file = Nothing /\ slots[slot].link \in astray
    /\ \A one, other \in DOMAIN slots :
          one # other /\ slots[one].link = slots[other].link => slots[one].link \in astray

\* The resume folder agrees with the list about a link; about all that are not astray.
Agrees(link) == resumeFiles[link] = IF link \in Listed THEN "whole" ELSE "none"
InStep == Marked /\ \A link \in Links \ astray : Agrees(link)

\* What an add does to the list.
Grows(link, file, accepted) ==
    IF accepted
    THEN /\ link \notin Held /\ DOMAIN slots' = 1 .. Len(slots) + 1
         /\ \A slot \in 1 .. Len(slots) :
               slots'[slot] = slots[slot] /\ torrentLinks'[slot] = torrentLinks[slot]
         /\ slots'[Len(slots) + 1].link = link /\ slots'[Len(slots) + 1].left = "all"
         /\ torrentLinks'[Len(slots) + 1].file = file
    ELSE slots' = slots /\ torrentLinks' = torrentLinks

\* Whatever is listed stays at its slot.
KeepsSlots == \A slot \in DOMAIN slots : slot \in DOMAIN slots' /\ slots'[slot].link = slots[slot].link

LEMMA SameLength ==
  ASSUME NEW m \in Nat, NEW n \in Nat, 1 .. m = 1 .. n
  PROVE  m = n
<1>1. m # 0 => m \in 1 .. n
  OBVIOUS
<1>2. n # 0 => n \in 1 .. m
  OBVIOUS
<1> QED BY <1>1, <1>2

\* Two lists name the same links, slot by slot.
LEMMA SameLinks ==
  ASSUME NEW m \in Nat, NEW n \in Nat,
         NEW one, NEW other, DOMAIN one = 1 .. m, DOMAIN other = 1 .. n
  PROVE  LinksOf(one) = LinksOf(other) <=> m = n /\ \A slot \in 1 .. n : one[slot].link = other[slot].link
<1>1. DOMAIN LinksOf(one) = 1 .. m /\ DOMAIN LinksOf(other) = 1 .. n
  BY DEF LinksOf
<1>2. ASSUME LinksOf(one) = LinksOf(other)
      PROVE  m = n /\ \A slot \in 1 .. n : one[slot].link = other[slot].link
  <2>1. m = n
    BY <1>1, <1>2, SameLength
  <2>2. \A slot \in 1 .. n : LinksOf(one)[slot] = LinksOf(other)[slot]
    BY <1>2
  <2> QED BY <2>1, <2>2 DEF LinksOf
<1>3. ASSUME m = n, \A slot \in 1 .. n : one[slot].link = other[slot].link
      PROVE  LinksOf(one) = LinksOf(other)
  BY <1>3 DEF LinksOf
<1> QED BY <1>2, <1>3

LEMMA LinksMatch ==
  ASSUME NEW n \in Nat, DOMAIN slots' = 1 .. n, DOMAIN torrentLinks' = 1 .. n,
         \A slot \in 1 .. n : torrentLinks'[slot].link = slots'[slot].link
  PROVE  LinksFollowSlots'
BY SameLinks DEF LinksFollowSlots

\* A torrent just added: of a file it is described, of a magnet it is not yet.
LEMMA NewSlotFields ==
  ASSUME NEW link \in Links, NEW buffer \in Buffers
  PROVE  /\ NewSlot(link, buffer) \in Torrent
         /\ NewSlot(link, buffer).link = link /\ NewSlot(link, buffer).buffer = buffer
         /\ NewSlot(link, buffer).left = "all"
         /\ link \in Files => NewSlot(link, buffer).described
         /\ link \notin Files => ~NewSlot(link, buffer).described
<1>1. NewSlot(link, buffer) \in Torrent
  <2>1. link \in Files => NewSlot(link, buffer) \in Torrent
    BY DEF NewSlot, Torrent, Statuses, Places
  <2>2. link \notin Files => NewSlot(link, buffer) \in Torrent
    BY DEF NewSlot, Torrent, Statuses, Places
  <2> QED BY <2>1, <2>2
<1>2. /\ NewSlot(link, buffer).link = link /\ NewSlot(link, buffer).buffer = buffer
      /\ NewSlot(link, buffer).left = "all"
  BY DEF NewSlot
<1>3. link \in Files => NewSlot(link, buffer).described
  BY DEF NewSlot
<1>4. link \notin Files => ~NewSlot(link, buffer).described
  BY DEF NewSlot
<1> QED BY <1>1, <1>2, <1>3, <1>4

\* The slots of a well-formed list.
LEMMA SlotBySlot ==
  ASSUME ListTypeOK
  PROVE  /\ Len(slots) \in Nat /\ DOMAIN slots = 1 .. Len(slots)
         /\ \A slot \in DOMAIN slots : slots[slot] \in Torrent
         /\ Len(torrentLinks) \in Nat /\ DOMAIN torrentLinks = 1 .. Len(torrentLinks)
         /\ \A slot \in DOMAIN torrentLinks :
               torrentLinks[slot] \in [link : Links, buffer : Buffers \union {NoBuffer}, file : Meanings]
         /\ LinksFollowSlots =>
              /\ Len(torrentLinks) = Len(slots)
              /\ \A slot \in 1 .. Len(slots) : torrentLinks[slot].link = slots[slot].link
<1>1. /\ Len(slots) \in Nat /\ DOMAIN slots = 1 .. Len(slots)
      /\ \A slot \in DOMAIN slots : slots[slot] \in Torrent
  BY LenProperties, ElementOfSeq DEF ListTypeOK
<1>2. /\ Len(torrentLinks) \in Nat /\ DOMAIN torrentLinks = 1 .. Len(torrentLinks)
      /\ \A slot \in DOMAIN torrentLinks :
            torrentLinks[slot] \in [link : Links, buffer : Buffers \union {NoBuffer}, file : Meanings]
  BY LenProperties, ElementOfSeq DEF ListTypeOK
<1>3. LinksFollowSlots =>
        /\ Len(torrentLinks) = Len(slots)
        /\ \A slot \in 1 .. Len(slots) : torrentLinks[slot].link = slots[slot].link
  <2>1. /\ Len(slots) \in Nat /\ Len(torrentLinks) \in Nat
        /\ DOMAIN slots = 1 .. Len(slots) /\ DOMAIN torrentLinks = 1 .. Len(torrentLinks)
    BY <1>1, <1>2
  <2>2. PICK m \in Nat, n \in Nat : m = Len(torrentLinks) /\ n = Len(slots)
    BY <2>1
  <2>3. DOMAIN torrentLinks = 1 .. m /\ DOMAIN slots = 1 .. n
    BY <2>1, <2>2
  <2>4. LinksFollowSlots => m = n /\ \A slot \in 1 .. n : torrentLinks[slot].link = slots[slot].link
    BY <2>3, SameLinks DEF LinksFollowSlots
  <2> QED BY <2>2, <2>4
<1> QED BY <1>1, <1>2, <1>3, Zenon

\* addLink adds at the end, if at all, and writes over no magnet's description.
LEMMA AddLinkKeeps ==
  ASSUME ListInv, NEW link \in Links, NEW file \in {link, Nothing}, NEW accepted \in BOOLEAN,
         addLink(link, file, accepted)
  PROVE  /\ ListInv' /\ KeepsSlots /\ Listed' = IF accepted THEN Listed \union {link} ELSE Listed
         /\ Grows(link, file, accepted)
<1> DEFINE buffer == Min(FreeBuffers)
<1>0. ListTypeOK
  BY DEF ListInv
<1>1. CASE FreeBuffers = {}
  <2>1. ~accepted /\ UNCHANGED <<slots, torrentLinks, descriptions>>
    BY <1>1 DEF addLink, list
  <2> QED BY <2>1 DEF ListInv, ListTypeOK, LinksFollowSlots, BuffersNoted, MagnetDescriptionStays, Listed,
                      KeepsSlots, Grows
<1>2. CASE FreeBuffers # {}
  <2>1. /\ buffer \in Buffers /\ buffer # NoBuffer
        /\ \A slot \in DOMAIN torrentLinks : torrentLinks[slot].buffer # buffer
    <3>1. buffer \in FreeBuffers
      <4>1. FreeBuffers \in SUBSET Nat
        BY Constants DEF FreeBuffers, Buffers
      <4> QED BY <1>2, <4>1, MinIsIn
    <3>2. buffer \in Buffers /\ ~\E slot \in DOMAIN torrentLinks : torrentLinks[slot].buffer = buffer
      BY <3>1 DEF FreeBuffers
    <3>3. buffer # NoBuffer
      BY <3>2, Constants DEF Buffers, NoBuffer
    <3> QED BY <3>2, <3>3
  <2>2. \A slot \in DOMAIN slots : slots[slot].link \in Magnets => slots[slot].buffer # buffer
    BY <1>0, <2>1, SlotBySlot DEF ListInv, BuffersNoted
  <2> HIDE DEF buffer
  <2>3. CASE ~accepted
    <3>1. slots' = slots /\ torrentLinks' = torrentLinks
      BY <1>2, <2>3 DEF addLink, ListLink, buffer
    <3>2. /\ descriptions' \in [Buffers -> Meanings]
          /\ \A other \in Buffers : other # buffer => descriptions'[other] = descriptions[other]
      BY <1>0, <1>2, <2>1, <2>3 DEF addLink, ListTypeOK, Meanings, buffer
    <3> QED BY <1>0, <2>2, <2>3, <3>1, <3>2, SlotBySlot
         DEF ListInv, ListTypeOK, LinksFollowSlots, BuffersNoted, MagnetDescriptionStays, Listed, KeepsSlots, Torrent, Grows
  <2>4. CASE accepted
    <3> DEFINE torrent == NewSlot(link, buffer)
    <3>1. /\ slots' = Append(slots, torrent)
          /\ Len(slots) < TORRENT_SLOT_MAX /\ link \notin Held
      BY <1>2, <2>4 DEF addLink, HasRoom, buffer
    <3>2. PICK held \in Buffers \union {NoBuffer} :
             /\ torrentLinks' = Append(torrentLinks, [link |-> link, buffer |-> held, file |-> file])
             /\ link \in Magnets => held = buffer
      BY <1>2, <2>1, <2>4, Constants DEF addLink, ListLink, buffer
    <3>3. /\ descriptions' \in [Buffers -> Meanings]
          /\ \A other \in Buffers : other # buffer => descriptions'[other] = descriptions[other]
      BY <1>0, <1>2, <2>1, <2>4 DEF addLink, ListTypeOK, Meanings, buffer
    <3>4. /\ torrent \in Torrent /\ torrent.link = link /\ torrent.buffer = buffer /\ torrent.left = "all"
          /\ link \in Files => torrent.described
          /\ link \notin Files => ~torrent.described
      BY <2>1, NewSlotFields
    <3> HIDE DEF torrent
    <3>5. /\ slots' \in Seq(Torrent) /\ Len(slots') = Len(slots) + 1
          /\ DOMAIN slots' = 1 .. Len(slots) + 1
          /\ \A slot \in 1 .. Len(slots) : slots'[slot] = slots[slot]
          /\ slots'[Len(slots) + 1] = torrent
      BY <1>0, <3>1, <3>4, AppendProperties, LenProperties DEF ListTypeOK
    <3>6. /\ torrentLinks' \in Seq([link : Links, buffer : Buffers \union {NoBuffer}, file : Meanings])
          /\ Len(torrentLinks') = Len(torrentLinks) + 1
          /\ \A slot \in 1 .. Len(torrentLinks) : torrentLinks'[slot] = torrentLinks[slot]
          /\ torrentLinks'[Len(torrentLinks) + 1] = [link |-> link, buffer |-> held, file |-> file]
      <4>1. [link |-> link, buffer |-> held, file |-> file]
               \in [link : Links, buffer : Buffers \union {NoBuffer}, file : Meanings]
        BY <3>2 DEF Meanings
      <4> QED BY <1>0, <3>2, <4>1, AppendProperties DEF ListTypeOK
    <3>7. Len(slots) \in Nat /\ DOMAIN slots = 1 .. Len(slots) /\ Len(torrentLinks) = Len(slots)
      BY <1>0, SlotBySlot DEF ListInv
    <3>8. ListTypeOK'
      BY <1>0, Constants, <3>1, <3>3, <3>5, <3>6, <3>7 DEF ListTypeOK
    <3>9. LinksFollowSlots'
      <4>1. \A slot \in 1 .. Len(slots) : torrentLinks[slot].link = slots[slot].link
        BY <1>0, SlotBySlot DEF ListInv
      <4>2. \A slot \in 1 .. Len(slots) + 1 : torrentLinks'[slot].link = slots'[slot].link
        BY <4>1, <3>4, <3>5, <3>6, <3>7
      <4>3. DOMAIN torrentLinks' = 1 .. Len(slots) + 1
        BY <3>6, <3>7, LenProperties
      <4> QED BY <3>5, <3>7, <4>2, <4>3, SameLinks DEF LinksFollowSlots
    <3>10. Grows(link, file, accepted)
      BY <2>4, <3>1, <3>4, <3>5, <3>6, <3>7 DEF Grows
    <3>11. BuffersNoted'
      <4>1. \A slot \in 1 .. Len(slots) : slots[slot].link \in Magnets
               => torrentLinks[slot].buffer = slots[slot].buffer
        BY <3>7 DEF ListInv, BuffersNoted
      <4>2. \A slot \in 1 .. Len(slots) + 1 : slots'[slot].link \in Magnets
               => torrentLinks'[slot].buffer = slots'[slot].buffer
        BY <4>1, <3>2, <3>4, <3>5, <3>6, <3>7
      <4>3. \A one, other \in 1 .. Len(slots) + 1 :
               /\ slots'[one].link \in Magnets /\ slots'[other].link \in Magnets
               /\ slots'[one].buffer = slots'[other].buffer
               => one = other
        BY <2>2, <3>4, <3>5, <3>7 DEF ListInv, BuffersNoted
      <4>4. \A slot \in 1 .. Len(slots) + 1 : slots'[slot].link \in Files => slots'[slot].described
        BY <3>4, <3>5, <3>7 DEF ListInv, BuffersNoted
      <4> QED BY <3>5, <4>2, <4>3, <4>4 DEF BuffersNoted
    <3>12. MagnetDescriptionStays'
      <4>1. SUFFICES ASSUME NEW slot \in 1 .. Len(slots) + 1,
                            slots'[slot].link \in Magnets, slots'[slot].described
                     PROVE  descriptions'[slots'[slot].buffer] = slots'[slot].link
        BY <3>5 DEF MagnetDescriptionStays
      <4>2. slot \in 1 .. Len(slots)
        BY <4>1, <3>4, <3>5, <3>7, Constants
      <4>3. slots'[slot] = slots[slot] /\ slots[slot] \in Torrent
        BY <1>0, <3>5, <3>7, <4>2, SlotBySlot
      <4>4. slots[slot].buffer \in Buffers /\ slots[slot].buffer # buffer
        BY <2>2, <3>7, <4>1, <4>2, <4>3 DEF Torrent
      <4> QED BY <3>3, <3>7, <4>1, <4>2, <4>3, <4>4 DEF ListInv, MagnetDescriptionStays
    <3>13. Listed' = Listed \union {link}
      BY <3>4, <3>5, <3>7 DEF Listed
    <3>14. KeepsSlots
      BY <3>5, <3>7 DEF KeepsSlots
    <3> QED BY <2>4, <3>8, <3>9, <3>10, <3>11, <3>12, <3>13, <3>14 DEF ListInv
  <2> QED BY <2>3, <2>4
<1> QED BY <1>1, <1>2

\* removeTorrent and forgetTorrent: one link goes, and what is behind it moves down.
LEMMA RemoveKeeps ==
  ASSUME ListInv, NEW gone \in DOMAIN slots,
         slots' = RemoveAt(slots, gone), torrentLinks' = RemoveAt(torrentLinks, gone),
         descriptions' = descriptions
  PROVE  /\ ListInv' /\ Listed' \ {slots[gone].link} = Listed \ {slots[gone].link}
         /\ slots[gone].link \in Listed' =>
               \E slot \in DOMAIN slots : slot # gone /\ slots[slot].link = slots[gone].link
         /\ /\ Marked /\ astray \ {slots[gone].link} \subseteq astray'
            /\ slots[gone].link \in Listed' => astray \subseteq astray'
            => Marked'
         /\ gone \in DOMAIN torrentLinks /\ torrentLinks[gone].link = slots[gone].link
         /\ \A slot \in DOMAIN slots : slot < gone =>
               slot \in DOMAIN slots' /\ slots'[slot].link = slots[slot].link
<1>0. ListTypeOK
  BY DEF ListInv
<1>1. PICK n \in Nat : n = Len(slots)
  BY <1>0, SlotBySlot
<1>2. /\ DOMAIN slots = 1 .. n /\ DOMAIN torrentLinks = 1 .. n /\ Len(torrentLinks) = n
      /\ \A slot \in 1 .. n : slots[slot] \in Torrent
      /\ \A slot \in 1 .. n : torrentLinks[slot].link = slots[slot].link
  BY <1>0, <1>1, SlotBySlot DEF ListInv
<1>3. /\ slots' \in Seq(Torrent) /\ Len(slots') = n - 1
      /\ \A slot \in 1 .. n - 1 : slots'[slot] = IF slot < gone THEN slots[slot] ELSE slots[slot + 1]
  <2>1. slots \in Seq(Torrent) /\ gone \in 1 .. Len(slots)
    BY <1>0, <1>1, <1>2 DEF ListTypeOK
  <2> QED BY <1>1, <2>1, RemoveAtProperties
<1>4. /\ torrentLinks' \in Seq([link : Links, buffer : Buffers \union {NoBuffer}, file : Meanings])
      /\ Len(torrentLinks') = n - 1
      /\ \A slot \in 1 .. n - 1 : torrentLinks'[slot] =
            IF slot < gone THEN torrentLinks[slot] ELSE torrentLinks[slot + 1]
  <2>1. /\ torrentLinks \in Seq([link : Links, buffer : Buffers \union {NoBuffer}, file : Meanings])
        /\ gone \in 1 .. Len(torrentLinks)
    BY <1>0, <1>2 DEF ListTypeOK
  <2> QED BY <1>2, <2>1, RemoveAtProperties
<1>5. DOMAIN slots' = 1 .. n - 1 /\ DOMAIN torrentLinks' = 1 .. n - 1 /\ n - 1 \in Nat
  BY <1>2, <1>3, <1>4, LenProperties
<1> DEFINE From(slot) == IF slot < gone THEN slot ELSE slot + 1
<1>6. /\ \A slot \in 1 .. n - 1 : /\ From(slot) \in 1 .. n /\ From(slot) # gone
                                  /\ slots'[slot] = slots[From(slot)]
                                  /\ torrentLinks'[slot] = torrentLinks[From(slot)]
      /\ \A one, other \in 1 .. n - 1 : From(one) = From(other) => one = other
      /\ \A slot \in 1 .. n : slot # gone => \E kept \in 1 .. n - 1 : From(kept) = slot
  <2>1. ASSUME NEW slot \in 1 .. n - 1
        PROVE  /\ From(slot) \in 1 .. n /\ From(slot) # gone
               /\ slots'[slot] = slots[From(slot)] /\ torrentLinks'[slot] = torrentLinks[From(slot)]
    <3>1. CASE slot < gone
      <4>1. From(slot) = slot /\ slot \in 1 .. n /\ slot # gone
        BY <1>2, <3>1
      <4>2. slots'[slot] = slots[slot] /\ torrentLinks'[slot] = torrentLinks[slot]
        BY <1>3, <1>4, <3>1
      <4> HIDE DEF From
      <4> QED BY <4>1, <4>2
    <3>2. CASE ~(slot < gone)
      <4>1. From(slot) = slot + 1 /\ slot + 1 \in 1 .. n /\ slot + 1 # gone
        BY <1>2, <3>2
      <4>2. slots'[slot] = slots[slot + 1] /\ torrentLinks'[slot] = torrentLinks[slot + 1]
        BY <1>3, <1>4, <3>2
      <4> HIDE DEF From
      <4> QED BY <4>1, <4>2
    <3> QED BY <3>1, <3>2
  <2>2. \A one, other \in 1 .. n - 1 : From(one) = From(other) => one = other
    BY <1>2
  <2>3. ASSUME NEW slot \in 1 .. n, slot # gone
        PROVE  \E kept \in 1 .. n - 1 : From(kept) = slot
    <3>1. CASE slot < gone
      BY <1>2, <3>1
    <3>2. CASE ~(slot < gone)
      <4>1. slot - 1 \in 1 .. n - 1 /\ From(slot - 1) = slot
        BY <1>2, <2>3, <3>2
      <4> QED BY <4>1
    <3> QED BY <3>1, <3>2
  <2> QED BY <2>1, <2>2, <2>3
<1> HIDE DEF From
<1>7. ListTypeOK'
  BY <1>0, <1>1, <1>3, <1>4, Constants DEF ListTypeOK
<1>8. LinksFollowSlots'
  <2>1. PICK m \in Nat : m = n - 1
    BY <1>5
  <2>2. /\ DOMAIN slots' = 1 .. m /\ DOMAIN torrentLinks' = 1 .. m
        /\ \A slot \in 1 .. m : torrentLinks'[slot].link = slots'[slot].link
    BY <1>2, <1>5, <1>6, <2>1
  <2> QED BY <2>2, SameLinks DEF LinksFollowSlots
<1>10. BuffersNoted'
  BY <1>2, <1>5, <1>6 DEF ListInv, BuffersNoted
<1>11. MagnetDescriptionStays'
  BY <1>2, <1>5, <1>6 DEF ListInv, MagnetDescriptionStays
<1>12. /\ Listed' \ {slots[gone].link} = Listed \ {slots[gone].link}
       /\ slots[gone].link \in Listed' =>
             \E slot \in DOMAIN slots : slot # gone /\ slots[slot].link = slots[gone].link
  <2>1. Listed = {slots[slot].link : slot \in 1 .. n} /\ Listed' = {slots'[slot].link : slot \in 1 .. n - 1}
    BY <1>2, <1>5 DEF Listed
  <2>2. \A link \in Listed' : \E slot \in 1 .. n : slot # gone /\ slots[slot].link = link
    BY <1>6, <2>1
  <2>3. Listed \ {slots[gone].link} \subseteq Listed'
    BY <1>6, <2>1
  <2>4. Listed' \subseteq Listed
    BY <2>1, <2>2
  <2>5. Listed' \ {slots[gone].link} = Listed \ {slots[gone].link}
    BY <2>3, <2>4
  <2>6. DOMAIN slots = 1 .. n
    BY <1>2
  <2> QED BY <2>2, <2>5, <2>6
<1>14. ASSUME Marked, astray \ {slots[gone].link} \subseteq astray',
              slots[gone].link \in Listed' => astray \subseteq astray'
       PROVE  Marked'
  <2>1. \A slot \in 1 .. n - 1 : slots'[slot].link \in astray => slots'[slot].link \in astray'
    <3>1. \A slot \in 1 .. n - 1 : slots'[slot].link \in Listed'
      BY <1>5 DEF Listed
    <3> QED BY <1>14, <3>1
  <2>2. \A slot \in 1 .. n - 1 : slots'[slot].left = "nothing" => slots'[slot].link \in astray
    BY <1>2, <1>6, <1>14 DEF Marked
  <2>3. \A slot \in 1 .. n - 1 : \/ torrentLinks'[slot].file = slots'[slot].link
                                 \/ torrentLinks'[slot].file = Nothing /\ slots'[slot].link \in astray
    BY <1>2, <1>6, <1>14 DEF Marked
  <2>4. \A one, other \in 1 .. n - 1 :
           one # other /\ slots'[one].link = slots'[other].link => slots'[one].link \in astray
    BY <1>2, <1>6, <1>14 DEF Marked
  <2> QED BY <1>5, <2>1, <2>2, <2>3, <2>4 DEF Marked
<1>13. \A slot \in DOMAIN slots : slot < gone => slot \in DOMAIN slots' /\ slots'[slot].link = slots[slot].link
  BY <1>2, <1>3, <1>5
<1> QED BY <1>2, <1>7, <1>8, <1>10, <1>11, <1>12, <1>13, <1>14 DEF ListInv

\* The engine and a pause change what a slot says, and never which torrent it is of.
LEMMA SlotsKeep ==
  ASSUME ListInv, slots' \in Seq(Torrent), DOMAIN slots' = DOMAIN slots, torrentLinks' = torrentLinks,
         \A slot \in DOMAIN slots : /\ slots'[slot].link = slots[slot].link
                                    /\ slots'[slot].buffer = slots[slot].buffer
                                    /\ slots[slot].described => slots'[slot].described,
         descriptions' \in [Buffers -> Meanings], MagnetDescriptionStays'
  PROVE  ListInv' /\ KeepsSlots /\ Listed' = Listed
<1>0. ListTypeOK
  BY DEF ListInv
<1>1. PICK n \in Nat : n = Len(slots)
  BY <1>0, SlotBySlot
<1>2. /\ DOMAIN slots = 1 .. n /\ DOMAIN torrentLinks = 1 .. n
      /\ \A slot \in 1 .. n : torrentLinks[slot].link = slots[slot].link
  BY <1>0, <1>1, SlotBySlot DEF ListInv
<1>3. Len(slots') = n
  <2>1. PICK m \in Nat : m = Len(slots') /\ DOMAIN slots' = 1 .. m
    BY LenProperties
  <2> QED BY <1>2, <2>1, SameLength
<1>4. ListTypeOK'
  BY <1>0, <1>1, <1>3 DEF ListTypeOK
<1>5. LinksFollowSlots'
  <2>1. /\ DOMAIN slots' = 1 .. n /\ DOMAIN torrentLinks' = 1 .. n
        /\ \A slot \in 1 .. n : torrentLinks'[slot].link = slots'[slot].link
    BY <1>2
  <2> QED BY <2>1, LinksMatch
<1>8. BuffersNoted'
  BY DEF ListInv, BuffersNoted
<1>7. Listed' = Listed
  BY DEF Listed
<1>9. KeepsSlots
  BY DEF KeepsSlots
<1> QED BY <1>4, <1>5, <1>7, <1>8, <1>9 DEF ListInv


\* One slot is rewritten.
LEMMA SetSlotKeeps ==
  ASSUME ListInv, NEW slot \in DOMAIN slots, NEW torrent \in Torrent, SetSlot(slot, torrent),
         torrent.link = slots[slot].link, torrent.buffer = slots[slot].buffer,
         slots[slot].described => torrent.described,
         torrentLinks' = torrentLinks, descriptions' \in [Buffers -> Meanings],
         MagnetDescriptionStays'
  PROVE  ListInv' /\ KeepsSlots /\ Listed' = Listed /\ DOMAIN slots' = DOMAIN slots
<1>1. slots \in Seq(Torrent) /\ slots' = [slots EXCEPT ![slot] = torrent]
  BY DEF ListInv, ListTypeOK, SetSlot
<1>2. slots' \in Seq(Torrent) /\ DOMAIN slots' = DOMAIN slots
  BY <1>1, ExceptSeq, LenProperties
<1>3. \A other \in DOMAIN slots : /\ slots'[other].link = slots[other].link
                                  /\ slots'[other].buffer = slots[other].buffer
                                  /\ slots[other].described => slots'[other].described
  BY <1>1
<1> QED BY <1>2, <1>3, SlotsKeep

\* One slot is rewritten and it is as much described as before.
LEMMA SetStatusKeeps ==
  ASSUME ListInv, NEW slot \in DOMAIN slots, NEW torrent \in Torrent, SetSlot(slot, torrent),
         torrent.link = slots[slot].link, torrent.buffer = slots[slot].buffer,
         torrent.described = slots[slot].described,
         torrentLinks' = torrentLinks, descriptions' = descriptions
  PROVE  ListInv' /\ KeepsSlots /\ Listed' = Listed /\ DOMAIN slots' = DOMAIN slots
<1>1. slots \in Seq(Torrent) /\ slots' = [slots EXCEPT ![slot] = torrent]
  BY DEF ListInv, ListTypeOK, SetSlot
<1>2. DOMAIN slots' = DOMAIN slots
  BY <1>1
<1>3. \A other \in DOMAIN slots : /\ slots'[other].link = slots[other].link
                                  /\ slots'[other].buffer = slots[other].buffer
                                  /\ slots'[other].described = slots[other].described
  BY <1>1
<1>4. MagnetDescriptionStays'
  BY <1>2, <1>3 DEF ListInv, MagnetDescriptionStays
<1>5. descriptions' \in [Buffers -> Meanings]
  BY DEF ListInv, ListTypeOK
<1> QED BY <1>4, <1>5, SetSlotKeeps

\* What a turn of the engine does to the list and to the disk.
EngineKept == /\ ListInv' /\ KeepsSlots /\ Listed' = Listed /\ DOMAIN slots' = DOMAIN slots
              /\ content' \in [Links -> Places]

LEMMA EngineKeeps ==
  ASSUME ListInv, RestTypeOK, ServiceEngine, torrentLinks' = torrentLinks
  PROVE  EngineKept
<1> USE DEF EngineKept
<1>0. /\ \A slot \in DOMAIN slots : slots[slot] \in Torrent
      /\ content \in [Links -> Places]
  BY SlotBySlot DEF ListInv, RestTypeOK
<1>1. ASSUME NEW slot \in DOMAIN slots, TurnComes(slot)
      PROVE  EngineKept
  <2>1. PICK status \in {"WAITING", "FAILED", "RUNNING"} :
           SetSlot(slot, [slots[slot] EXCEPT !.status = status,
                            !.path = IF slots[slot].described THEN PathFor(slots[slot].link) ELSE @])
    BY <1>1 DEF TurnComes
  <2> DEFINE torrent == [slots[slot] EXCEPT !.status = status,
                            !.path = IF slots[slot].described THEN PathFor(slots[slot].link) ELSE @]
  <2>2. torrent \in Torrent /\ torrent.link = slots[slot].link
        /\ torrent.buffer = slots[slot].buffer /\ torrent.described = slots[slot].described
    BY <1>0, <1>1 DEF Torrent, Statuses, Places, PathFor
  <2>3. descriptions' = descriptions /\ content' = content
    BY <1>1 DEF TurnComes
  <2> QED BY <1>0, <2>1, <2>2, <2>3, SetStatusKeeps
<1>2. ASSUME NEW slot \in DOMAIN slots, DescriptionArrives(slot)
      PROVE  EngineKept
  <2>1. PICK torrent \in Torrent : /\ SetSlot(slot, torrent)
                                   /\ torrent.link = slots[slot].link /\ torrent.buffer = slots[slot].buffer
    <3>1. /\ [slots[slot] EXCEPT !.described = TRUE, !.path = PathFor(slots[slot].link)] \in Torrent
          /\ [slots[slot] EXCEPT !.status = "FAILED", !.left = "nothing"] \in Torrent
          /\ [slots[slot] EXCEPT !.status = "FAILED", !.described = TRUE, !.left = "hash"] \in Torrent
      BY <1>0, <1>2 DEF Torrent, Statuses, Places, PathFor
    <3>2. slots[slot] \in Torrent
      BY <1>0, <1>2
    <3>3. \/ SetSlot(slot, [slots[slot] EXCEPT !.described = TRUE, !.path = PathFor(slots[slot].link)])
          \/ SetSlot(slot, [slots[slot] EXCEPT !.status = "FAILED", !.left = "nothing"])
          \/ SetSlot(slot, [slots[slot] EXCEPT !.status = "FAILED", !.described = TRUE, !.left = "hash"])
      BY <1>2 DEF DescriptionArrives
    <3> QED BY <3>1, <3>2, <3>3 DEF Torrent
  <2>2. /\ content' = content /\ ~slots[slot].described
        /\ descriptions' = [descriptions EXCEPT ![slots[slot].buffer] = slots[slot].link]
    BY <1>2 DEF DescriptionArrives
  <2>3. slots[slot].buffer \in Buffers /\ slots[slot].link \in Links
    BY <1>0, <1>2 DEF Torrent
  <2>4. descriptions \in [Buffers -> Meanings] /\ descriptions' \in [Buffers -> Meanings]
    BY <2>2, <2>3 DEF ListInv, ListTypeOK, Meanings
  <2>5. slots[slot].link \in Magnets
    BY <1>2, <2>3 DEF ListInv, BuffersNoted, DescriptionArrives, Links
  <2>6. DOMAIN slots' = DOMAIN slots /\ slots'[slot] = torrent
        /\ \A other \in DOMAIN slots : other # slot => slots'[other] = slots[other]
    BY <2>1 DEF ListInv, ListTypeOK, SetSlot
  <2>7. MagnetDescriptionStays'
    <3>1. SUFFICES ASSUME NEW other \in DOMAIN slots, slots'[other].link \in Magnets, slots'[other].described
                   PROVE  descriptions'[slots'[other].buffer] = slots'[other].link
      BY <2>6 DEF MagnetDescriptionStays
    <3>2. CASE other = slot
      BY <2>1, <2>2, <2>3, <2>4, <2>6, <3>2
    <3>3. CASE other # slot
      <4>1. slots'[other] = slots[other] /\ slots[other].buffer # slots[slot].buffer
        BY <2>5, <2>6, <3>1, <3>3 DEF ListInv, BuffersNoted
      <4>2. descriptions[slots[other].buffer] = slots[other].link
        BY <3>1, <4>1 DEF ListInv, MagnetDescriptionStays
      <4>3. slots[other].buffer \in Buffers
        BY <1>0 DEF Torrent
      <4> QED BY <2>2, <2>4, <4>1, <4>2, <4>3
    <3> QED BY <3>2, <3>3
  <2> QED BY <1>0, <2>1, <2>2, <2>4, <2>7, SetSlotKeeps
<1>3. ASSUME UNCHANGED <<slots, descriptions>>, content' \in [Links -> Places]
      PROVE  EngineKept
  BY <1>3 DEF ListInv, ListTypeOK, LinksFollowSlots, BuffersNoted, MagnetDescriptionStays,
              Listed, KeepsSlots
<1>4. ASSUME NEW slot \in DOMAIN slots, PieceWritten(slot)
      PROVE  UNCHANGED <<slots, descriptions>> /\ content' \in [Links -> Places]
  BY <1>0, <1>4 DEF PieceWritten, Torrent
<1>5. ASSUME NEW slot \in DOMAIN slots, Finishes(slot)
      PROVE  EngineKept
  <2> DEFINE torrent == [slots[slot] EXCEPT !.status = "FINISHED"]
  <2>1. torrent \in Torrent /\ torrent.link = slots[slot].link
        /\ torrent.buffer = slots[slot].buffer /\ torrent.described = slots[slot].described
    BY <1>0, <1>5 DEF Torrent, Statuses
  <2>2. SetSlot(slot, torrent) /\ descriptions' = descriptions
    BY <1>5 DEF Finishes
  <2>3. content' \in [Links -> Places]
    <3>1. slots[slot].link \in Links
      BY <1>0, <1>5 DEF Torrent
    <3>2. PICK place \in {content[slots[slot].link], "finished"} :
             content' = [content EXCEPT ![slots[slot].link] = place]
      BY <1>5 DEF Finishes
    <3> QED BY <1>0, <3>1, <3>2 DEF Places
  <2> QED BY <2>1, <2>2, <2>3, SetStatusKeeps
<1>6. ASSUME NEW slot \in DOMAIN slots, LosesTurn(slot)
      PROVE  EngineKept
  <2>1. PICK status \in {"WAITING", "FAILED"} : SetSlot(slot, [slots[slot] EXCEPT !.status = status])
    BY <1>6 DEF LosesTurn
  <2> DEFINE torrent == [slots[slot] EXCEPT !.status = status]
  <2>2. torrent \in Torrent /\ torrent.link = slots[slot].link
        /\ torrent.buffer = slots[slot].buffer /\ torrent.described = slots[slot].described
    BY <1>0, <1>6 DEF Torrent, Statuses
  <2>3. descriptions' = descriptions /\ content' = content
    BY <1>6 DEF LosesTurn
  <2> QED BY <1>0, <2>1, <2>2, <2>3, SetStatusKeeps
<1>7. CASE UNCHANGED <<slots, descriptions, content>>
  BY <1>0, <1>3, <1>7
<1> QED BY <1>1, <1>2, <1>3, <1>4, <1>5, <1>6, <1>7 DEF ServiceEngine

\* What is astray stays marked when a link is added.
LEMMA MarkedGrows ==
  ASSUME ListInv, Marked, NEW link \in Links, NEW file \in {link, Nothing}, NEW accepted \in BOOLEAN,
         Grows(link, file, accepted), astray \ {link} \subseteq astray',
         link \in Listed /\ link \in astray => link \in astray',
         accepted /\ file = Nothing => link \in astray'
  PROVE  Marked'
<1>1. PICK n \in Nat : n = Len(slots) /\ DOMAIN slots = 1 .. n
  BY SlotBySlot DEF ListInv
<1>2. \A slot \in 1 .. n : slots[slot].link \in astray => slots[slot].link \in astray'
  BY <1>1 DEF Listed
<1>3. CASE ~accepted
  BY <1>1, <1>2, <1>3 DEF Grows, Marked
<1>4. CASE accepted
  <2>1. /\ link \notin Held /\ DOMAIN slots' = 1 .. n + 1
        /\ \A slot \in 1 .. n : slots'[slot] = slots[slot] /\ torrentLinks'[slot] = torrentLinks[slot]
        /\ slots'[n + 1].link = link /\ slots'[n + 1].left = "all" /\ torrentLinks'[n + 1].file = file
    BY <1>1, <1>4 DEF Grows
  <2>2. \A slot \in 1 .. n : slots[slot].link = link => link \in astray'
    BY <1>1, <1>2, <2>1 DEF Held, Marked
  <2>3. \A slot \in 1 .. n + 1 : slots'[slot].left = "nothing" => slots'[slot].link \in astray'
    BY <1>1, <1>2, <2>1 DEF Marked
  <2>4. \A slot \in 1 .. n + 1 : \/ torrentLinks'[slot].file = slots'[slot].link
                                 \/ torrentLinks'[slot].file = Nothing /\ slots'[slot].link \in astray'
    BY <1>1, <1>2, <1>4, <2>1 DEF Marked
  <2>5. \A one, other \in 1 .. n + 1 :
           one # other /\ slots'[one].link = slots'[other].link => slots'[one].link \in astray'
    BY <1>1, <1>2, <2>1, <2>2 DEF Marked
  <2> QED BY <2>1, <2>3, <2>4, <2>5 DEF Marked
<1> QED BY <1>3, <1>4

\* And when the rows stay, if a hash that is lost is marked.
LEMMA MarkedStays ==
  ASSUME Marked, KeepsSlots, DOMAIN slots' = DOMAIN slots, torrentLinks' = torrentLinks,
         astray \subseteq astray',
         \A slot \in DOMAIN slots' : slots'[slot].left = "nothing" => slots'[slot].link \in astray'
  PROVE  Marked'
BY DEF Marked, KeepsSlots

FilesOK ==
    /\ resumeFiles \in [Links -> {"none", "whole", "cut"}]
    /\ astray \subseteq Links /\ spent \in 0 .. EventsMax

\* A link is listed and its file written, or listed and known not to be, or neither.
LEMMA AddAndRememberKeeps ==
  ASSUME ListInv, RestTypeOK, NEW link \in Links, AddAndRemember(link)
  PROVE  ListInv' /\ KeepsSlots /\ FilesOK' /\ (InStep => InStep')
<1>1. PICK accepted \in BOOLEAN :
         /\ addLink(link, link, accepted)
         /\ IF accepted THEN WriteResume(link) ELSE UNCHANGED <<resumeFiles, bounds>>
  BY DEF AddAndRemember
<1>2. /\ ListInv' /\ KeepsSlots /\ Listed' = IF accepted THEN Listed \union {link} ELSE Listed
      /\ Grows(link, link, accepted)
  BY <1>1, AddLinkKeeps
<1>3. FilesOK /\ link # Nothing
  BY ServiceAssumption DEF RestTypeOK, FilesOK, Links
<1>4. CASE accepted
  <2>1. Listed' = Listed \union {link} /\ WriteResume(link)
    BY <1>1, <1>2, <1>4
  <2>2. CASE /\ resumeFiles' = [resumeFiles EXCEPT ![link] = "whole"]
             /\ astray' = IF link \in Listed THEN astray ELSE astray \ {link}
             /\ UNCHANGED spent
    <3>1. FilesOK'
      BY <1>3, <2>2 DEF FilesOK
    <3>2. ASSUME InStep PROVE InStep'
      <4>1. Marked'
        <5>1. astray \ {link} \subseteq astray' /\ (link \in Listed /\ link \in astray => link \in astray')
          BY <2>2
        <5> QED BY <1>2, <1>3, <3>2, <5>1, MarkedGrows DEF InStep
      <4>2. ASSUME NEW other \in Links, other \notin astray' PROVE Agrees(other)'
        <5>1. CASE other = link
          BY <1>3, <2>1, <2>2, <5>1 DEF Agrees, FilesOK
        <5>2. CASE other # link
          BY <1>3, <2>1, <2>2, <3>2, <4>2, <5>2 DEF Agrees, InStep, FilesOK
        <5> QED BY <5>1, <5>2
      <4> QED BY <4>1, <4>2 DEF InStep
    <3> QED BY <1>2, <3>1, <3>2
  <2>3. CASE /\ spent < EventsMax /\ spent' = spent + 1
             /\ resumeFiles' \in {resumeFiles, [resumeFiles EXCEPT ![link] = "cut"]}
             /\ astray' = astray \union {link}
    <3>1. FilesOK'
      BY <1>3, <2>3, Constants DEF FilesOK
    <3>2. ASSUME InStep PROVE InStep'
      <4>1. Marked'
        BY <1>2, <1>3, <2>3, <3>2, MarkedGrows DEF InStep
      <4>2. ASSUME NEW other \in Links, other \notin astray' PROVE Agrees(other)'
        BY <1>3, <2>1, <2>3, <3>2, <4>2 DEF Agrees, InStep, FilesOK
      <4> QED BY <4>1, <4>2 DEF InStep
    <3> QED BY <1>2, <3>1, <3>2
  <2> QED BY <2>1, <2>2, <2>3 DEF WriteResume
<1>5. CASE ~accepted
  <2>1. Listed' = Listed /\ resumeFiles' = resumeFiles /\ astray' = astray /\ spent' = spent
    BY <1>1, <1>2, <1>5 DEF bounds
  <2>2. FilesOK'
    BY <1>3, <2>1 DEF FilesOK
  <2>3. ASSUME InStep PROVE InStep'
    <3>1. Marked'
      BY <1>2, <1>3, <2>1, <2>3, MarkedGrows DEF InStep
    <3> QED BY <2>1, <2>3, <3>1 DEF InStep, Agrees
  <2> QED BY <1>2, <2>2, <2>3
<1> QED BY <1>4, <1>5

\* A pause and its end leave every torrent in its slot.
LEMMA PausesKeep ==
  ASSUME ListInv, RestTypeOK, ApplyPauses
  PROVE  /\ ListInv' /\ KeepsSlots /\ Listed' = Listed /\ DOMAIN slots' = DOMAIN slots
         /\ \A slot \in DOMAIN slots' : slots'[slot].left = slots[slot].left
<1>0. /\ slots \in Seq(Torrent) /\ \A slot \in DOMAIN slots : slots[slot] \in Torrent
      /\ descriptions \in [Buffers -> Meanings]
  BY SlotBySlot DEF ListInv, ListTypeOK
<1>1. PICK n \in Nat : n = Len(slots) /\ DOMAIN slots = 1 .. n
  BY <1>0, LenProperties
<1>2. /\ slots' = [slot \in 1 .. n |-> Paused(slots[slot], taken.pauses[slot])]
      /\ torrentLinks' = torrentLinks /\ descriptions' = descriptions
  BY <1>1 DEF ApplyPauses
<1>3. \A slot \in 1 .. n : /\ slots'[slot] \in Torrent
                           /\ slots'[slot].link = slots[slot].link
                           /\ slots'[slot].buffer = slots[slot].buffer
                           /\ slots'[slot].described = slots[slot].described
                           /\ slots'[slot].left = slots[slot].left
  BY <1>0, <1>1, <1>2 DEF Paused, Torrent, Statuses
<1>4. slots' \in Seq(Torrent) /\ DOMAIN slots' = DOMAIN slots
  <2>1. slots' \in [1 .. n -> Torrent]
    BY <1>2, <1>3
  <2> QED BY <1>1, <1>2, <2>1, FunctionIsSeq
<1>5. MagnetDescriptionStays'
  BY <1>1, <1>2, <1>3, <1>4 DEF ListInv, MagnetDescriptionStays
<1> QED BY <1>0, <1>1, <1>2, <1>3, <1>4, <1>5, SlotsKeep

---------------------------------------------------------------------------
(* Every step keeps the list.                                              *)

\* The steps that leave the list alone.
ListUntouched ==
    \/ StartService \/ TakeRequests \/ TakeAdds \/ StartSearch \/ RaiseSearching \/ ReadQuery
    \/ PublishResults \/ EndSearch \/ EndService \/ Screen

LEMMA ListIsUntouched ==
  ASSUME ListUntouched
  PROVE  slots' = slots /\ torrentLinks' = torrentLinks /\ descriptions' = descriptions
<1>1. CASE Screen
  BY <1>1 DEF Screen, toggleSelected, askAboutDeleting, onDeleteAnswer, TypeQuery, WantSearch,
              addServiceResult, addServiceMagnet, stopTorrentService, service, list
<1>2. CASE StartService \/ TakeRequests \/ TakeAdds \/ EndService
  BY <1>2 DEF StartService, TakeRequests, TakeAdds, EndService, list
<1>3. CASE StartSearch \/ RaiseSearching \/ ReadQuery \/ PublishResults \/ EndSearch
  BY <1>3 DEF StartSearch, RaiseSearching, ReadQuery, PublishResults, EndSearch, list
<1> QED BY <1>1, <1>2, <1>3 DEF ListUntouched

LEMMA UntouchedKeeps ==
  ASSUME ListInv, slots' = slots, torrentLinks' = torrentLinks, descriptions' = descriptions
  PROVE  ListInv' /\ KeepsSlots /\ Listed' = Listed
BY DEF ListInv, ListTypeOK, LinksFollowSlots, BuffersNoted, MagnetDescriptionStays,
       Listed, KeepsSlots

\* The one that is asked to go is asked of a slot, and none behind it is asked.
LEMMA NextRemovalIsLast ==
  ASSUME NEW asked \in SUBSET Slots, asked # {}
  PROVE  NextRemoval(asked) \in asked /\ \A other \in asked : other =< NextRemoval(asked)
<1>1. asked \in SUBSET (0 .. TORRENT_SLOT_MAX) /\ TORRENT_SLOT_MAX \in Nat
  BY Constants DEF Slots
<1> QED BY <1>1, MaxIsIn DEF NextRemoval

\* An empty list, as it is at the start and after a restart.
EmptyList == slots = << >> /\ torrentLinks = << >> /\ descriptions = [buffer \in Buffers |-> Nothing]

LEMMA EmptyKeeps == EmptyList => ListInv /\ Listed = {}
<1> SUFFICES ASSUME EmptyList PROVE ListInv /\ Listed = {}
  OBVIOUS
<1> USE DEF EmptyList
<1>1. slots \in Seq(Torrent) /\ Len(slots) = 0 /\ DOMAIN slots = {}
  BY EmptySeq
<1>2. torrentLinks \in Seq([link : Links, buffer : Buffers \union {NoBuffer}, file : Meanings])
  BY EmptySeq
<1>3. ListTypeOK
  BY <1>1, <1>2, Constants DEF ListTypeOK, Meanings
<1>4. LinksFollowSlots
  BY DEF LinksFollowSlots
<1> QED BY <1>1, <1>3, <1>4 DEF ListInv, BuffersNoted, MagnetDescriptionStays, Listed

\* What is gone after the removal that goes first, and what is still meant.
LEMMA RemoveSlotKeeps ==
  ASSUME ListInv, RestTypeOK, RemoveSlot,
         NEW gone, gone = NextRemoval({slot \in Slots : taken.removals[slot] # 0})
  PROVE  /\ ListInv' /\ gone \in Slots /\ taken.removals[gone] # 0
         /\ \A slot \in Slots : taken.removals[slot] # 0 => slot =< gone
         /\ taken' = [taken EXCEPT !.removals[gone] = 0]
         /\ FilesOK' /\ (InStep => InStep')
         /\ \/ /\ gone \notin DOMAIN slots
               /\ UNCHANGED <<slots, content, requests, screen>>
            \/ /\ gone \in DOMAIN slots
               /\ content' = IF taken.removals[gone] = 2 THEN Erased(slots[gone]) ELSE content
               /\ requests' = [requests EXCEPT !.meant = Moved(@, gone)]
               /\ screen' = IF screen.slot >= gone THEN [screen EXCEPT !.meant = Nothing] ELSE screen
               /\ \A slot \in DOMAIN slots : slot < gone =>
                     slot \in DOMAIN slots' /\ slots'[slot].link = slots[slot].link
<1> DEFINE asked == {slot \in Slots : taken.removals[slot] # 0}
<1>1. asked \in SUBSET Slots /\ asked # {} /\ gone = NextRemoval(asked)
  BY DEF RemoveSlot
<1>2. gone \in asked /\ \A other \in asked : other =< gone
  <2> HIDE DEF asked
  <2> QED BY <1>1, NextRemovalIsLast
<1>3. /\ taken' = [taken EXCEPT !.removals[gone] = 0] /\ descriptions' = descriptions
      /\ IF gone \notin DOMAIN slots
         THEN UNCHANGED <<slots, torrentLinks, disk, requests, screen, bounds>>
         ELSE /\ content' = IF taken.removals[gone] = 2 THEN Erased(slots[gone]) ELSE content
              /\ slots' = RemoveAt(slots, gone)
              /\ ForgetLink(gone) /\ ForgetFile(torrentLinks[gone].link, torrentLinks[gone].file)
              /\ requests' = [requests EXCEPT !.meant = Moved(@, gone)]
              /\ screen' = IF screen.slot >= gone THEN [screen EXCEPT !.meant = Nothing] ELSE screen
  BY DEF RemoveSlot
<1>6. FilesOK
  BY DEF RestTypeOK, FilesOK
<1>4. CASE gone \notin DOMAIN slots
  <2>1. UNCHANGED <<slots, torrentLinks, resumeFiles, content, requests, screen, astray, spent>>
    BY <1>3, <1>4 DEF disk, bounds
  <2>2. ListInv' /\ Listed' = Listed
    BY <1>3, <2>1, UntouchedKeeps
  <2>3. FilesOK' /\ (InStep => InStep')
    BY <1>6, <2>1, <2>2 DEF FilesOK, InStep, Marked, Agrees
  <2> QED BY <1>2, <1>3, <1>4, <2>1, <2>2, <2>3
<1>5. CASE gone \in DOMAIN slots
  <2>1. slots' = RemoveAt(slots, gone) /\ torrentLinks' = RemoveAt(torrentLinks, gone)
    BY <1>3, <1>5 DEF ForgetLink
  <2> DEFINE link == slots[gone].link
             file == torrentLinks[gone].file
  <2>2. /\ ListInv' /\ Listed' \ {link} = Listed \ {link}
        /\ link \in Listed' => \E slot \in DOMAIN slots : slot # gone /\ slots[slot].link = link
        /\ /\ Marked /\ astray \ {link} \subseteq astray'
           /\ link \in Listed' => astray \subseteq astray'
           => Marked'
        /\ gone \in DOMAIN torrentLinks /\ torrentLinks[gone].link = link
        /\ \A slot \in DOMAIN slots : slot < gone =>
              slot \in DOMAIN slots' /\ slots'[slot].link = slots[slot].link
    BY <1>3, <1>5, <2>1, RemoveKeeps
  <2>3. ForgetFile(link, file) /\ link \in Links /\ file \in Links \union {Nothing}
    <3>1. ForgetFile(torrentLinks[gone].link, torrentLinks[gone].file)
      BY <1>3, <1>5
    <3>2. link \in Links /\ file \in Links \union {Nothing}
      BY <1>5, <2>2, SlotBySlot DEF ListInv, Torrent, Meanings
    <3> QED BY <2>2, <3>1, <3>2
  <2>4. InStep => \/ file = link
                  \/ file = Nothing /\ link \in astray
    BY <1>5 DEF InStep, Marked
  <2>5. InStep => (link \in Listed' => link \in astray)
    BY <1>5, <2>2 DEF InStep, Marked
  <2> HIDE DEF link, file
  <2>6. ASSUME file = Nothing, UNCHANGED <<resumeFiles, bounds>>
        PROVE  FilesOK' /\ (InStep => InStep')
    <3>1. astray' = astray /\ resumeFiles' = resumeFiles /\ spent' = spent
      BY <2>6 DEF bounds
    <3>2. FilesOK'
      BY <1>6, <3>1 DEF FilesOK
    <3>3. ASSUME InStep PROVE InStep'
      <4>1. link \in astray /\ Marked'
        BY <2>2, <2>3, <2>4, <2>6, <3>1, <3>3, ServiceAssumption DEF InStep
      <4>2. ASSUME NEW other \in Links, other \notin astray' PROVE Agrees(other)'
        <5>1. other # link /\ Agrees(other)
          BY <3>1, <3>3, <4>1, <4>2 DEF InStep
        <5> QED BY <2>2, <3>1, <5>1 DEF Agrees
      <4> QED BY <4>1, <4>2 DEF InStep
    <3> QED BY <3>2, <3>3
  <2>7. ASSUME file # Nothing,
               resumeFiles' = [resumeFiles EXCEPT ![file] = "none"],
               astray' = IF link \in Listed' THEN astray ELSE astray \ {link},
               UNCHANGED spent
        PROVE  FilesOK' /\ (InStep => InStep')
    <3>1. FilesOK'
      BY <1>6, <2>3, <2>7 DEF FilesOK
    <3>2. ASSUME InStep PROVE InStep'
      <4>1. file = link /\ Marked'
        BY <2>2, <2>4, <2>7, <3>2 DEF InStep
      <4>2. ASSUME NEW other \in Links, other \notin astray' PROVE Agrees(other)'
        <5>1. CASE other = link
          <6>1. link \notin Listed'
            BY <2>5, <2>7, <3>2, <4>2, <5>1
          <6> QED BY <1>6, <2>3, <2>7, <4>1, <5>1, <6>1 DEF Agrees, FilesOK
        <5>2. CASE other # link
          <6>1. Agrees(other)
            BY <2>7, <3>2, <4>2, <5>2 DEF InStep
          <6>2. resumeFiles'[other] = resumeFiles[other] /\ (other \in Listed' <=> other \in Listed)
            BY <1>6, <2>2, <2>7, <4>1, <5>2 DEF FilesOK
          <6> QED BY <6>1, <6>2 DEF Agrees
        <5> QED BY <5>1, <5>2
      <4> QED BY <4>1, <4>2 DEF InStep
    <3> QED BY <3>1, <3>2
  <2>8. ASSUME file # Nothing, spent < EventsMax, spent' = spent + 1,
               resumeFiles' \in {resumeFiles, [resumeFiles EXCEPT ![file] = "cut"]},
               astray' = astray \union {link}
        PROVE  FilesOK' /\ (InStep => InStep')
    <3>1. FilesOK'
      BY <1>6, <2>3, <2>8, Constants DEF FilesOK
    <3>2. ASSUME InStep PROVE InStep'
      <4>1. file = link /\ Marked'
        BY <2>2, <2>4, <2>8, <3>2 DEF InStep
      <4>2. ASSUME NEW other \in Links, other \notin astray' PROVE Agrees(other)'
        <5>1. other # link /\ Agrees(other)
          BY <2>8, <3>2, <4>2 DEF InStep
        <5>2. resumeFiles'[other] = resumeFiles[other] /\ (other \in Listed' <=> other \in Listed)
          BY <1>6, <2>2, <2>8, <4>1, <4>2, <5>1 DEF FilesOK
        <5> QED BY <5>1, <5>2 DEF Agrees
      <4> QED BY <4>1, <4>2 DEF InStep
    <3> QED BY <3>1, <3>2
  <2>9. FilesOK' /\ (InStep => InStep')
    BY <2>3, <2>6, <2>7, <2>8 DEF ForgetFile
  <2> QED BY <1>2, <1>3, <1>5, <2>2, <2>9
<1> QED BY <1>4, <1>5

\* The torrent added next is the one its row of found names.
LEMMA AddsLeftIsFound ==
  ASSUME RestTypeOK, AddsLeft # {}
  PROVE  Min(AddsLeft) \in AddsLeft /\ search.found[Min(AddsLeft)] \in Links
<1>1. search.found \in Seq(Links) /\ AddsLeft \in SUBSET Nat
  BY DEF RestTypeOK, Search, Requests, AddsLeft
<1>2. Min(AddsLeft) \in AddsLeft
  BY <1>1, MinIsIn
<1>3. Min(AddsLeft) \in 1 .. Len(search.found)
  BY <1>1, <1>2, LenProperties DEF AddsLeft
<1> QED BY <1>1, <1>2, <1>3, ElementOfSeq

\* What the screen queued is a magnet, all the way through the queue.
LEMMA NextMagnetIsLink ==
  ASSUME RestTypeOK, taken.magnets # << >>
  PROVE  /\ taken.magnets \in Seq(Magnets) /\ Tail(taken.magnets) \in Seq(Magnets)
         /\ Head(taken.magnets) \in Links
<1>1. taken.magnets \in Seq(Magnets)
  BY DEF RestTypeOK, Requests
<1> QED BY <1>1, HeadTailProperties, Constants

\* Every step keeps the list well formed, its links and its descriptions in place.
LEMMA ListStep ==
  ASSUME ListInv, RestTypeOK, Next
  PROVE  ListInv'
<1>1. CASE ListUntouched
  BY <1>1, ListIsUntouched, UntouchedKeeps
<1>2. CASE reloadTorrents
  <2>1. CASE \E link \in toReload, accepted \in BOOLEAN : addLink(link, FileRead(link), accepted)
    <3>1. PICK link \in toReload, accepted \in BOOLEAN : addLink(link, FileRead(link), accepted)
      BY <2>1
    <3>2. link \in Links /\ FileRead(link) \in {link, Nothing}
      BY <3>1 DEF RestTypeOK, FileRead
    <3> QED BY <3>1, <3>2, AddLinkKeeps
  <2>2. CASE UNCHANGED list
    BY <2>2, UntouchedKeeps DEF list
  <2> QED BY <1>2, <2>1, <2>2 DEF reloadTorrents, list
<1>3. CASE AddMagnet
  BY <1>3, NextMagnetIsLink, AddAndRememberKeeps DEF AddMagnet
<1>4. CASE ApplyPauses
  BY <1>4, PausesKeep
<1>5. CASE RemoveSlot
  BY <1>5, RemoveSlotKeeps
<1>6. CASE addFoundTorrent
  BY <1>6, AddsLeftIsFound, AddAndRememberKeeps DEF addFoundTorrent
<1>7. CASE EndPass
  BY <1>7, EngineKeeps DEF EndPass, EngineKept
<1>8. CASE Restart
  <2>1. EmptyList'
    BY <1>8 DEF Restart, EmptyList
  <2> QED BY <2>1, EmptyKeeps, PTL
<1> QED BY <1>1, <1>2, <1>3, <1>4, <1>5, <1>6, <1>7, <1>8 DEF Next, Service, ListUntouched

---------------------------------------------------------------------------
(* Every step keeps what each variable holds.                              *)

LEMMA ExceptIsFunction ==
  ASSUME NEW D, NEW S, NEW f \in [D -> S], NEW d, NEW e \in S
  PROVE  [f EXCEPT ![d] = e] \in [D -> S]
OBVIOUS

LEMMA NoRequestsAreRequests == NoRequests \in Requests
<1>1. << >> \in Seq(Magnets)
  BY EmptySeq
<1> QED BY <1>1 DEF NoRequests, Requests, Meanings

LEMMA NoSearchIsSearch == NoSearch \in Search
<1>1. << >> \in Seq(Links)
  BY EmptySeq
<1> QED BY <1>1 DEF NoSearch, Search

\* The adds and the choices are picked up apart from the rest.
LEMMA RequestsSplit ==
  ASSUME NEW some \in Requests, NEW others \in Requests
  PROVE  /\ [some EXCEPT !.adds = others.adds, !.chosen = others.chosen] \in Requests
         /\ [some EXCEPT !.adds = {}, !.chosen = {}] \in Requests
BY DEF Requests

\* What the service's own steps do outside the list.
LEMMA ServiceKeepsRest ==
  ASSUME ListInv, RestTypeOK, ListInv',
         StartService \/ TakeRequests \/ TakeAdds \/ StartSearch \/ RaiseSearching \/ ReadQuery
            \/ PublishResults \/ EndSearch \/ EndService
  PROVE  RestTypeOK'
<1>1. CASE StartService
  BY <1>1 DEF StartService, RestTypeOK, disk, shared, bounds
<1>2. CASE TakeRequests
  <2>1. taken' \in Requests /\ requests' \in Requests
    BY <1>2, NoRequestsAreRequests, RequestsSplit DEF TakeRequests, RestTypeOK
  <2> QED BY <1>2, <2>1 DEF TakeRequests, RestTypeOK, disk, bounds
<1>3. CASE TakeAdds
  <2>1. taken' \in Requests /\ requests' \in Requests
    BY <1>3, NoRequestsAreRequests, RequestsSplit DEF TakeAdds, RestTypeOK
  <2> QED BY <1>3, <2>1 DEF TakeAdds, RestTypeOK, disk, bounds
<1>4. CASE StartSearch
  <2>1. search' \in Search
    BY <1>4 DEF StartSearch, RestTypeOK, Search
  <2> QED BY <1>4, <2>1, NoRequestsAreRequests DEF StartSearch, RestTypeOK, disk, shared, bounds
<1>5. CASE ReadQuery
  <2>1. search' \in Search
    BY <1>5, EmptySeq DEF ReadQuery, RestTypeOK, Search
  <2> QED BY <1>5, <2>1 DEF ReadQuery, RestTypeOK, disk, shared, bounds
<1>6. CASE PublishResults
  <2>1. search' \in Search
    <3>1. PICK found \in {Found[search.reading], << >>} :
             search' = [search EXCEPT !.found = found, !.results = found, !.reading = Nothing]
      BY <1>6 DEF PublishResults
    <3>2. search.reading \in Queries
      BY <1>6 DEF PublishResults, RestTypeOK, Search
    <3>3. found \in Seq(Links)
      BY <3>1, <3>2, EmptySeq, Constants
    <3> QED BY <3>1, <3>3 DEF RestTypeOK, Search
  <2> QED BY <1>6, <2>1 DEF PublishResults, RestTypeOK, disk, shared, bounds
<1>7. CASE EndSearch
  <2>1. search' \in Search
    BY <1>7 DEF EndSearch, RestTypeOK, Search
  <2> QED BY <1>7, <2>1 DEF EndSearch, RestTypeOK, disk, shared, bounds
<1>8. CASE EndService
  BY <1>8 DEF EndService, RestTypeOK, disk, shared, bounds
<1>9. CASE RaiseSearching
  <2>1. search' \in Search
    BY <1>9 DEF RaiseSearching, RestTypeOK, Search
  <2> QED BY <1>9, <2>1 DEF RaiseSearching, RestTypeOK, disk, shared, bounds
<1> QED BY <1>1, <1>2, <1>3, <1>4, <1>5, <1>6, <1>7, <1>8, <1>9

LEMMA ListStepsKeepRest ==
  ASSUME ListInv, RestTypeOK, ListInv',
         reloadTorrents \/ AddMagnet \/ ApplyPauses \/ RemoveSlot \/ addFoundTorrent \/ EndPass
  PROVE  RestTypeOK'
<1>1. CASE reloadTorrents
  BY <1>1 DEF reloadTorrents, RestTypeOK, disk, shared
<1>2. CASE AddMagnet
  <2>1. taken' \in Requests
    BY <1>2, NextMagnetIsLink DEF AddMagnet, RestTypeOK, Requests
  <2>2. FilesOK'
    BY <1>2, NextMagnetIsLink, AddAndRememberKeeps DEF AddMagnet
  <2> QED BY <1>2, <2>1, <2>2 DEF AddMagnet, RestTypeOK, FilesOK, shared
<1>3. CASE ApplyPauses
  BY <1>3 DEF ApplyPauses, RestTypeOK, disk, shared, bounds
<1>4. CASE RemoveSlot
  <2> DEFINE gone == NextRemoval({slot \in Slots : taken.removals[slot] # 0})
  <2>1. /\ gone \in Slots /\ taken' = [taken EXCEPT !.removals[gone] = 0] /\ FilesOK'
        /\ \/ UNCHANGED <<content, requests, screen>>
           \/ /\ gone \in DOMAIN slots
              /\ content' = IF taken.removals[gone] = 2 THEN Erased(slots[gone]) ELSE content
              /\ requests' = [requests EXCEPT !.meant = Moved(@, gone)]
              /\ screen' = IF screen.slot >= gone THEN [screen EXCEPT !.meant = Nothing] ELSE screen
    BY <1>4, RemoveSlotKeeps
  <2> HIDE DEF gone
  <2>2. taken' \in Requests
    <3>1. taken \in Requests
      BY DEF RestTypeOK
    <3>2. [taken.removals EXCEPT ![gone] = 0] \in [Slots -> 0 .. 2]
      <4>1. taken.removals \in [Slots -> 0 .. 2]
        BY <3>1 DEF Requests
      <4>2. 0 \in 0 .. 2
        OBVIOUS
      <4> QED BY <4>1, <4>2, ExceptIsFunction
    <3>3. taken' = [taken EXCEPT !.removals = [taken.removals EXCEPT ![gone] = 0]]
      BY <2>1, <3>1 DEF Requests
    <3> QED BY <3>1, <3>2, <3>3 DEF Requests
  <2>3. UNCHANGED <<published, search, pc, toReload, stopRequested>>
    BY <1>4 DEF RemoveSlot
  <2>4. CASE UNCHANGED <<content, requests, screen>>
    BY <2>1, <2>2, <2>3, <2>4 DEF RestTypeOK, FilesOK
  <2>5. CASE /\ gone \in DOMAIN slots
             /\ content' = IF taken.removals[gone] = 2 THEN Erased(slots[gone]) ELSE content
             /\ requests' = [requests EXCEPT !.meant = Moved(@, gone)]
             /\ screen' = IF screen.slot >= gone THEN [screen EXCEPT !.meant = Nothing] ELSE screen
    <3>1. slots[gone] \in Torrent
      BY <2>5, SlotBySlot DEF ListInv
    <3>2. content' \in [Links -> Places]
      BY <2>5, <3>1 DEF RestTypeOK, Erased, Torrent, Places
    <3>3. requests' \in Requests
      <4>1. Moved(requests.meant, gone) \in [Slots -> Meanings]
        BY DEF RestTypeOK, Requests, Moved, Meanings
      <4> QED BY <2>5, <4>1 DEF RestTypeOK, Requests
    <3>4. screen' \in [doing : {"nothing", "deleting", "searching"}, slot : 0 .. TORRENT_SLOT_MAX,
                       meant : Meanings]
      BY <2>5 DEF RestTypeOK, Meanings
    <3> QED BY <2>1, <2>2, <2>3, <2>5, <3>2, <3>3, <3>4 DEF RestTypeOK, FilesOK
  <2> QED BY <2>1, <2>4, <2>5
<1>5. CASE addFoundTorrent
  <2>1. taken' \in Requests
    BY <1>5 DEF addFoundTorrent, RestTypeOK, Requests
  <2>2. FilesOK'
    BY <1>5, AddsLeftIsFound, AddAndRememberKeeps DEF addFoundTorrent
  <2> QED BY <1>5, <2>1, <2>2 DEF addFoundTorrent, RestTypeOK, FilesOK, shared
<1>6. CASE EndPass
  <2>1. content' \in [Links -> Places]
    BY <1>6, EngineKeeps DEF EndPass, EngineKept
  <2>2. PICK n \in Nat : n = Len(slots') /\ DOMAIN slots' = 1 .. n /\ n =< TORRENT_SLOT_MAX
    BY LenProperties DEF ListInv, ListTypeOK
  <2>3. \A slot \in 1 .. n : slots'[slot] \in Torrent
    BY <2>2, ElementOfSeq DEF ListInv, ListTypeOK
  <2>4. published' \in [1 .. n -> [link : Links, status : Statuses]]
    BY <1>6, <2>2, <2>3 DEF EndPass, publishProgress, Torrent
  <2>5. published' \in Seq([link : Links, status : Statuses]) /\ Len(published') = n
    BY <2>4, FunctionIsSeq
  <2>6. astray' \subseteq Links
    BY <1>6, <2>2, <2>3 DEF EndPass, Wiped, RestTypeOK, Torrent
  <2> QED BY <1>6, <2>1, <2>2, <2>5, <2>6 DEF EndPass, RestTypeOK
<1> QED BY <1>1, <1>2, <1>3, <1>4, <1>5, <1>6

LEMMA ScreenKeepsRest ==
  ASSUME ListInv, RestTypeOK, Screen
  PROVE  RestTypeOK'
<1> DEFINE Screens == [doing : {"nothing", "deleting", "searching"}, slot : 0 .. TORRENT_SLOT_MAX,
                       meant : Meanings]
<1>0. /\ requests \in Requests /\ search \in Search /\ screen \in Screens /\ Idle \in Screens
      /\ spent \in 0 .. EventsMax /\ Asks => spent' \in 0 .. EventsMax
  BY Constants DEF RestTypeOK, Asks, Idle, Meanings
<1>1. ASSUME NEW slot \in Slots, toggleSelected(slot) PROVE RestTypeOK'
  <2>1. requests' \in Requests
    BY <1>0, <1>1 DEF toggleSelected, Requests
  <2> QED BY <1>0, <1>1, <2>1 DEF toggleSelected, service, RestTypeOK, disk
<1>2. ASSUME NEW slot \in Slots, askAboutDeleting(slot) PROVE RestTypeOK'
  <2>1. published[slot].link \in Links
    <3>1. published \in Seq([link : Links, status : Statuses]) /\ slot \in DOMAIN published
      BY <1>2 DEF askAboutDeleting, RestTypeOK
    <3>2. published[slot] \in [link : Links, status : Statuses]
      BY <3>1, LenProperties, ElementOfSeq
    <3> QED BY <3>2
  <2>2. screen' \in Screens
    BY <1>2, <2>1, Constants DEF askAboutDeleting, Meanings, Slots
  <2> QED BY <1>0, <1>2, <2>2 DEF askAboutDeleting, service, RestTypeOK, disk, shared
<1>3. ASSUME NEW removal \in 0 .. 2, onDeleteAnswer(removal) PROVE RestTypeOK'
  <2>1. requests' \in Requests
    BY <1>0, <1>3 DEF onDeleteAnswer, Requests
  <2> QED BY <1>0, <1>3, <2>1 DEF onDeleteAnswer, service, RestTypeOK, disk, bounds
<1>4. ASSUME NEW query \in Queries, TypeQuery(query) PROVE RestTypeOK'
  <2>1. search' \in Search /\ requests' \in Requests /\ screen' \in Screens
    BY <1>0, <1>4, EmptySeq DEF TypeQuery, Search, Requests
  <2> QED BY <1>0, <1>4, <2>1 DEF TypeQuery, service, RestTypeOK, disk
<1>5. CASE WantSearch
  <2>1. search' \in Search
    BY <1>0, <1>5 DEF WantSearch, Search
  <2> QED BY <1>0, <1>5, <2>1 DEF WantSearch, service, RestTypeOK, disk, shared, bounds
<1>6. ASSUME NEW index \in DOMAIN search.results, addServiceResult(index) PROVE RestTypeOK'
  <2>1. index \in Nat /\ search.results[index] \in Links
    BY <1>0, <1>6, LenProperties, ElementOfSeq DEF Search
  <2> DEFINE adds == requests.adds \union {index}
             chosen == {choice \in requests.chosen : choice[1] # index} \union
                          (IF SearchAhead THEN {}
                           ELSE {<<index, search.results[index]>>})
  <2>2. requests' \in Requests
    <3>1. requests' = [requests EXCEPT !.adds = adds, !.chosen = chosen]
      BY <1>0, <1>6 DEF addServiceResult, Requests
    <3>2. adds \in SUBSET Nat /\ chosen \in SUBSET (Nat \X Links)
      BY <1>0, <2>1 DEF Requests
    <3> HIDE DEF adds, chosen
    <3> QED BY <1>0, <3>1, <3>2 DEF Requests
  <2> QED BY <1>0, <1>6, <2>2 DEF addServiceResult, service, RestTypeOK, disk
<1>7. ASSUME NEW link \in Magnets, addServiceMagnet(link) PROVE RestTypeOK'
  <2>1. Append(requests.magnets, link) \in Seq(Magnets)
    BY <1>0, <1>7, AppendProperties DEF Requests
  <2>2. requests' \in Requests
    BY <1>0, <1>7, <2>1 DEF addServiceMagnet, Requests
  <2> QED BY <1>0, <1>7, <2>2 DEF addServiceMagnet, service, RestTypeOK, disk
<1>8. CASE stopTorrentService
  BY <1>8 DEF stopTorrentService, RestTypeOK, disk, shared, bounds
<1> QED BY <1>1, <1>2, <1>3, <1>4, <1>5, <1>6, <1>7, <1>8 DEF Screen

LEMMA RestartKeepsRest ==
  ASSUME RestTypeOK, Restart
  PROVE  RestTypeOK'
<1>1. << >> \in Seq([link : Links, status : Statuses]) /\ Len(<< >>) = 0
  BY EmptySeq
<1>2. spent' \in 0 .. EventsMax
  BY Constants DEF Restart, RestTypeOK
<1>3. /\ requests' = NoRequests /\ taken' = NoRequests /\ search' = NoSearch /\ published' = << >>
      /\ pc' = "start" /\ toReload' = {} /\ stopRequested' = FALSE /\ astray' = {}
      /\ screen' = Idle /\ resumeFiles' = resumeFiles /\ content' = content
  BY DEF Restart, disk
<1>4. Idle \in [doing : {"nothing", "deleting", "searching"}, slot : 0 .. TORRENT_SLOT_MAX,
                meant : Meanings]
  BY Constants DEF Idle, Meanings
<1>5. published' \in Seq([link : Links, status : Statuses]) /\ Len(published') =< TORRENT_SLOT_MAX
  BY <1>1, <1>3, Constants
<1>6. resumeFiles' \in [Links -> {"none", "whole", "cut"}] /\ content' \in [Links -> Places]
  BY <1>3 DEF RestTypeOK
<1>7. requests' \in Requests /\ taken' \in Requests /\ search' \in Search
  BY <1>3, NoRequestsAreRequests, NoSearchIsSearch
<1>8. screen' \in [doing : {"nothing", "deleting", "searching"}, slot : 0 .. TORRENT_SLOT_MAX,
                   meant : Meanings]
  BY <1>3, <1>4
<1>9. toReload' \subseteq Links /\ astray' \subseteq Links /\ stopRequested' \in BOOLEAN
      /\ pc' = "start"
  BY <1>3
<1> QED BY <1>2, <1>5, <1>6, <1>7, <1>8, <1>9 DEF RestTypeOK

LEMMA RestStep ==
  ASSUME ListInv, RestTypeOK, Next
  PROVE  RestTypeOK'
BY ListStep, ServiceKeepsRest, ListStepsKeepRest, ScreenKeepsRest, RestartKeepsRest DEF Next, Service

---------------------------------------------------------------------------
(* The list and the resume folder.                                         *)

\* The resume folder against the list, from the moment the list is empty on: at the
\* start what has a file is listed from it or still to be read.
Reloading ==
    \A link \in Links \ astray : IF link \in Listed THEN resumeFiles[link] = "whole"
                                 ELSE resumeFiles[link] # "none" <=> link \in toReload
Resumable ==
    /\ pc = "start" => slots = << >>
    /\ pc = "reload" => Marked /\ Reloading
    /\ pc \notin {"start", "reload", "ended"} => InStep

\* A step that touches neither the list nor the folder, on this side of the start.
LEMMA ResumableQuietly ==
  ASSUME Resumable, pc \notin {"start", "reload", "ended"}, pc' \notin {"start", "reload"},
         slots' = slots, torrentLinks' = torrentLinks, resumeFiles' = resumeFiles, astray' = astray
  PROVE  Resumable'
BY DEF Resumable, InStep, Marked, Agrees, Listed

\* A row of the list is rewritten, and its hash may be lost.
LEMMA InStepStays ==
  ASSUME InStep, KeepsSlots, DOMAIN slots' = DOMAIN slots, torrentLinks' = torrentLinks,
         Listed' = Listed, resumeFiles' = resumeFiles, astray \subseteq astray',
         \A slot \in DOMAIN slots' : slots'[slot].left = "nothing" => slots'[slot].link \in astray'
  PROVE  InStep'
<1>1. Marked'
  BY MarkedStays DEF InStep
<1>2. ASSUME NEW link \in Links, link \notin astray' PROVE Agrees(link)'
  BY <1>2 DEF InStep, Agrees
<1> QED BY <1>1, <1>2 DEF InStep

\* Every step keeps the folder in step with the list.
LEMMA ResumableStep ==
  ASSUME ListInv, RestTypeOK, Resumable, Next
  PROVE  Resumable'
<1>1. CASE StartService
  <2>1. /\ slots = << >> /\ slots' = << >> /\ resumeFiles' = resumeFiles
        /\ pc' = "ended" \/ (pc' = "reload" /\ toReload' = {link \in Links : resumeFiles[link] # "none"})
    BY <1>1 DEF StartService, Resumable, list, disk
  <2>2. Listed' = {} /\ Marked'
    BY <2>1 DEF Listed, Marked
  <2> QED BY <2>1, <2>2 DEF Resumable, Reloading
<1>2. CASE reloadTorrents
  <2>0. pc = "reload" /\ resumeFiles' = resumeFiles /\ Marked /\ Reloading
    BY <1>2 DEF reloadTorrents, disk, Resumable
  <2>1. CASE \E link \in toReload, accepted \in BOOLEAN :
                /\ addLink(link, FileRead(link), accepted)
                /\ astray' = IF accepted /\ FileRead(link) = link THEN astray ELSE astray \union {link}
                /\ toReload' = toReload \ {link} /\ UNCHANGED pc
    <3>1. PICK link \in toReload, accepted \in BOOLEAN :
             /\ addLink(link, FileRead(link), accepted)
             /\ astray' = IF accepted /\ FileRead(link) = link THEN astray ELSE astray \union {link}
             /\ toReload' = toReload \ {link} /\ pc' = pc
      BY <2>1
    <3>2. link \in Links /\ link # Nothing /\ FileRead(link) \in {link, Nothing}
      BY <3>1, ServiceAssumption DEF RestTypeOK, FileRead, Links
    <3>3. /\ Listed' = IF accepted THEN Listed \union {link} ELSE Listed
          /\ Grows(link, FileRead(link), accepted)
      BY <3>1, <3>2, AddLinkKeeps
    <3>4. astray \subseteq astray' /\ (FileRead(link) = Nothing => link \in astray')
      BY <3>1, <3>2
    <3>5. Marked'
      BY <2>0, <3>2, <3>3, <3>4, MarkedGrows
    <3>6. Reloading'
      <4>1. SUFFICES ASSUME NEW other \in Links, other \notin astray'
                     PROVE  IF other \in Listed' THEN resumeFiles'[other] = "whole"
                            ELSE resumeFiles'[other] # "none" <=> other \in toReload'
        BY DEF Reloading
      <4>2. /\ other \notin astray
            /\ IF other \in Listed THEN resumeFiles[other] = "whole"
               ELSE resumeFiles[other] # "none" <=> other \in toReload
        BY <2>0, <3>4, <4>1 DEF Reloading
      <4>3. CASE other = link
        <5>1. accepted /\ FileRead(link) = link
          BY <3>1, <4>1, <4>3
        <5>2. resumeFiles[link] = "whole" /\ link \in Listed'
          BY <3>2, <3>3, <5>1 DEF FileRead
        <5> QED BY <2>0, <4>3, <5>2
      <4>4. CASE other # link
        BY <2>0, <3>1, <3>3, <4>2, <4>4
      <4> QED BY <4>3, <4>4
    <3> QED BY <2>0, <3>1, <3>5, <3>6 DEF Resumable
  <2>2. CASE toReload = {} /\ pc' = "take" /\ UNCHANGED <<list, toReload, astray>>
    <3>1. slots' = slots /\ torrentLinks' = torrentLinks /\ astray' = astray
      BY <2>2 DEF list
    <3>2. InStep
      <4>1. ASSUME NEW link \in Links, link \notin astray PROVE Agrees(link)
        BY <2>0, <2>2, <4>1 DEF Reloading, Agrees
      <4> QED BY <2>0, <4>1 DEF InStep
    <3>3. InStep'
      BY <2>0, <3>1, <3>2 DEF InStep, Marked, Agrees, Listed
    <3> QED BY <2>2, <3>3 DEF Resumable
  <2> QED BY <1>2, <2>1, <2>2 DEF reloadTorrents
<1>3. CASE AddMagnet
  <2>1. pc = "magnets" /\ pc' = pc
    BY <1>3 DEF AddMagnet
  <2>2. InStep => InStep'
    BY <1>3, NextMagnetIsLink, AddAndRememberKeeps DEF AddMagnet
  <2> QED BY <2>1, <2>2 DEF Resumable
<1>4. CASE ApplyPauses
  <2>1. /\ pc = "magnets" /\ pc' = "remove" /\ torrentLinks' = torrentLinks
        /\ resumeFiles' = resumeFiles /\ astray' = astray
    BY <1>4 DEF ApplyPauses, disk, bounds
  <2>2. /\ KeepsSlots /\ Listed' = Listed /\ DOMAIN slots' = DOMAIN slots
        /\ \A slot \in DOMAIN slots' : slots'[slot].left = slots[slot].left
    BY <1>4, PausesKeep
  <2>3. InStep
    BY <2>1 DEF Resumable
  <2>4. \A slot \in DOMAIN slots' : slots'[slot].left = "nothing" => slots'[slot].link \in astray'
    BY <2>1, <2>2, <2>3 DEF InStep, Marked, KeepsSlots
  <2>5. InStep'
    BY <2>1, <2>2, <2>3, <2>4, InStepStays
  <2> QED BY <2>1, <2>5 DEF Resumable
<1>5. CASE RemoveSlot
  <2>1. pc = "remove" /\ pc' = pc
    BY <1>5 DEF RemoveSlot
  <2>2. InStep => InStep'
    BY <1>5, RemoveSlotKeeps
  <2> QED BY <2>1, <2>2 DEF Resumable
<1>6. CASE addFoundTorrent
  <2>1. pc = "adds" /\ pc' = pc
    BY <1>6 DEF addFoundTorrent
  <2>2. InStep => InStep'
    BY <1>6, AddsLeftIsFound, AddAndRememberKeeps DEF addFoundTorrent
  <2> QED BY <2>1, <2>2 DEF Resumable
<1>7. CASE EndPass
  <2>1. /\ pc = "engine" /\ pc' = "take" /\ torrentLinks' = torrentLinks
        /\ resumeFiles' = resumeFiles /\ astray' = astray \union Wiped'
    BY <1>7 DEF EndPass
  <2>2. KeepsSlots /\ Listed' = Listed /\ DOMAIN slots' = DOMAIN slots
    BY <1>7, EngineKeeps DEF EndPass, EngineKept
  <2>3. InStep
    BY <2>1 DEF Resumable
  <2>4. \A slot \in DOMAIN slots' : slots'[slot].left = "nothing" => slots'[slot].link \in astray'
    BY <2>1 DEF Wiped
  <2>5. InStep'
    BY <2>1, <2>2, <2>3, <2>4, InStepStays
  <2> QED BY <2>1, <2>5 DEF Resumable
<1>8. CASE TakeRequests \/ TakeAdds \/ StartSearch \/ RaiseSearching \/ ReadQuery \/ PublishResults \/ EndSearch
  <2>1. slots' = slots /\ torrentLinks' = torrentLinks
    BY <1>8, ListIsUntouched DEF ListUntouched
  <2>2. /\ pc \notin {"start", "reload", "ended"} /\ pc' \notin {"start", "reload"}
        /\ resumeFiles' = resumeFiles /\ astray' = astray
    BY <1>8 DEF TakeRequests, TakeAdds, StartSearch, RaiseSearching, ReadQuery, PublishResults, EndSearch,
                disk, bounds
  <2> QED BY <2>1, <2>2, ResumableQuietly
<1>9. CASE EndService
  BY <1>9 DEF EndService, Resumable
<1>10. CASE Screen
  <2>1. slots' = slots /\ torrentLinks' = torrentLinks
    BY <1>10, ListIsUntouched DEF ListUntouched
  <2>2. pc' = pc /\ resumeFiles' = resumeFiles /\ astray' = astray /\ toReload' = toReload
    BY <1>10 DEF Screen, toggleSelected, askAboutDeleting, onDeleteAnswer, TypeQuery, WantSearch,
                 addServiceResult, addServiceMagnet, stopTorrentService, service, disk, bounds
  <2> QED BY <2>1, <2>2 DEF Resumable, InStep, Marked, Agrees, Reloading, Listed
<1>11. CASE Restart
  BY <1>11 DEF Restart, Resumable
<1> QED BY <1>1, <1>2, <1>3, <1>4, <1>5, <1>6, <1>7, <1>8, <1>9, <1>10, <1>11 DEF Next, Service

---------------------------------------------------------------------------
(* Which torrent a removal was meant for.                                  *)

\* What a removal was meant for, if that is still known, is at its slot: in the
\* question, in what is asked for and in what the service has taken.
AtSlot(slot, link) == link # Nothing => slot \in DOMAIN slots /\ slots[slot].link = link
MeantIsThere ==
    /\ AtSlot(screen.slot, screen.meant)
    /\ \A slot \in Slots : AtSlot(slot, requests.meant[slot])
    /\ \A slot \in Slots : taken.removals[slot] # 0 => AtSlot(slot, taken.meant[slot])

\* As long as every torrent keeps its slot, so does what is meant.
LEMMA MeantIsKept ==
  ASSUME MeantIsThere, KeepsSlots, screen' = screen, requests'.meant = requests.meant,
         taken'.removals = taken.removals, taken'.meant = taken.meant
  PROVE  MeantIsThere'
BY DEF MeantIsThere, KeepsSlots, AtSlot

\* A row of the screen's list names the torrent at its slot when the list the screen
\* sees is the beginning of the list there is.
LEMMA PublishedIsListed ==
  ASSUME ListInv, RestTypeOK, IsPrefix(LinksOf(published), LinksOf(slots)),
         NEW slot \in DOMAIN published
  PROVE  slot \in DOMAIN slots /\ slots[slot].link = published[slot].link
<1>1. PICK m \in Nat : m = Len(published) /\ DOMAIN published = 1 .. m
  BY LenProperties DEF RestTypeOK
<1>2. PICK n \in Nat : n = Len(slots) /\ DOMAIN slots = 1 .. n
  BY LenProperties DEF ListInv, ListTypeOK
<1> DEFINE shown == LinksOf(published)
           there == LinksOf(slots)
<1>3. shown \in [1 .. m -> Links] /\ there \in [1 .. n -> Links]
  <2>1. \A row \in 1 .. m : published[row] \in [link : Links, status : Statuses]
    BY <1>1, ElementOfSeq DEF RestTypeOK
  <2>2. \A row \in 1 .. n : slots[row] \in Torrent
    BY <1>2, ElementOfSeq DEF ListInv, ListTypeOK
  <2> QED BY <1>1, <1>2, <2>1, <2>2 DEF LinksOf, Torrent
<1>4. shown[slot] = published[slot].link /\ \A row \in 1 .. n : there[row] = slots[row].link
  BY <1>2 DEF LinksOf
<1>5. IsPrefix(shown, there) /\ slot \in 1 .. m
  BY <1>1
<1> HIDE DEF shown, there
<1>6. shown \in Seq(Links) /\ Len(shown) = m /\ there \in Seq(Links) /\ Len(there) = n
  BY <1>3, FunctionIsSeq
<1>7. m =< n /\ SubSeq(shown, 1, m) = SubSeq(there, 1, m)
  BY <1>5, <1>6 DEF IsPrefix
<1>8. SubSeq(shown, 1, m)[slot] = shown[slot] /\ SubSeq(there, 1, m)[slot] = there[slot]
  BY <1>5, <1>6, <1>7, LenProperties, ElementOfSeq, SubSeqProperties
<1> QED BY <1>2, <1>4, <1>5, <1>7, <1>8

\* Nothing is asked for.
LEMMA NobodyMeant ==
  /\ \A slot \in Slots : NoRequests.meant[slot] = Nothing /\ NoRequests.removals[slot] = 0
  /\ Idle.meant = Nothing
BY DEF NoRequests, Idle

\* Every step keeps what is meant at its slot, or no longer meant.
LEMMA MeantStep ==
  ASSUME ListInv, RestTypeOK, MeantIsThere, Next
  PROVE  MeantIsThere'
<1>0. requests \in Requests /\ taken \in Requests
  BY DEF RestTypeOK
<1>1. CASE StartService \/ RaiseSearching \/ ReadQuery \/ PublishResults \/ EndSearch \/ EndService
  <2>1. KeepsSlots
    BY <1>1, ListIsUntouched, UntouchedKeeps DEF ListUntouched
  <2> QED BY <1>1, <2>1, MeantIsKept
          DEF StartService, RaiseSearching, ReadQuery, PublishResults, EndSearch, EndService, shared
<1>2. CASE reloadTorrents
  <2>1. KeepsSlots
    <3>1. ASSUME NEW link \in toReload, NEW accepted \in BOOLEAN, addLink(link, FileRead(link), accepted)
          PROVE  KeepsSlots
      <4>1. link \in Links /\ FileRead(link) \in {link, Nothing}
        BY <3>1 DEF RestTypeOK, FileRead
      <4> QED BY <3>1, <4>1, AddLinkKeeps
    <3> QED BY <1>2, <3>1, UntouchedKeeps DEF reloadTorrents, list
  <2> QED BY <1>2, <2>1, MeantIsKept DEF reloadTorrents, shared
<1>3. CASE TakeRequests
  <2>1. KeepsSlots
    BY <1>3, ListIsUntouched, UntouchedKeeps DEF ListUntouched
  <2>2. /\ taken'.meant = requests.meant /\ requests'.meant = NoRequests.meant /\ screen' = screen
    BY <1>0, <1>3, NoRequestsAreRequests DEF TakeRequests, Requests
  <2> QED BY <2>1, <2>2, NobodyMeant DEF MeantIsThere, KeepsSlots, AtSlot
<1>4. CASE AddMagnet
  <2>1. KeepsSlots
    BY <1>4, NextMagnetIsLink, AddAndRememberKeeps DEF AddMagnet
  <2> QED BY <1>0, <1>4, <2>1, MeantIsKept DEF AddMagnet, shared, Requests
<1>5. CASE ApplyPauses
  BY <1>5, PausesKeep, MeantIsKept DEF ApplyPauses, shared
<1>6. CASE RemoveSlot
  <2> DEFINE gone == NextRemoval({slot \in Slots : taken.removals[slot] # 0})
  <2>1. /\ gone \in Slots /\ \A slot \in Slots : taken.removals[slot] # 0 => slot =< gone
        /\ taken' = [taken EXCEPT !.removals[gone] = 0]
        /\ \/ UNCHANGED <<slots, requests, screen>>
           \/ /\ gone \in DOMAIN slots
              /\ requests' = [requests EXCEPT !.meant = Moved(@, gone)]
              /\ screen' = IF screen.slot >= gone THEN [screen EXCEPT !.meant = Nothing] ELSE screen
              /\ \A slot \in DOMAIN slots : slot < gone =>
                    slot \in DOMAIN slots' /\ slots'[slot].link = slots[slot].link
    BY <1>6, RemoveSlotKeeps
  <2> HIDE DEF gone
  <2>2. /\ taken'.meant = taken.meant /\ taken'.removals[gone] = 0
        /\ \A slot \in Slots : slot # gone => taken'.removals[slot] = taken.removals[slot]
    BY <1>0, <2>1 DEF Requests
  <2>3. CASE UNCHANGED <<slots, requests, screen>>
    BY <2>2, <2>3 DEF MeantIsThere, AtSlot
  <2>4. CASE /\ gone \in DOMAIN slots
             /\ requests' = [requests EXCEPT !.meant = Moved(@, gone)]
             /\ screen' = IF screen.slot >= gone THEN [screen EXCEPT !.meant = Nothing] ELSE screen
             /\ \A slot \in DOMAIN slots : slot < gone =>
                   slot \in DOMAIN slots' /\ slots'[slot].link = slots[slot].link
    <3>1. \A slot \in Slots : requests'.meant[slot] =
             IF slot >= gone THEN Nothing ELSE requests.meant[slot]
      BY <1>0, <2>4 DEF Requests, Moved
    <3>2. (\A slot \in Slots : AtSlot(slot, requests.meant[slot]))'
      BY <2>1, <2>4, <3>1 DEF MeantIsThere, AtSlot, Slots
    <3>3. (\A slot \in Slots : taken.removals[slot] # 0 => AtSlot(slot, taken.meant[slot]))'
      BY <2>1, <2>2, <2>4 DEF MeantIsThere, AtSlot, Slots
    <3>4. AtSlot(screen.slot, screen.meant)'
      BY <2>1, <2>4 DEF MeantIsThere, AtSlot, RestTypeOK, Slots
    <3> QED BY <3>2, <3>3, <3>4 DEF MeantIsThere
  <2> QED BY <2>1, <2>3, <2>4
<1>7. CASE TakeAdds
  <2>1. KeepsSlots
    BY <1>7, ListIsUntouched, UntouchedKeeps DEF ListUntouched
  <2>2. /\ requests'.meant = requests.meant /\ taken'.removals = NoRequests.removals /\ screen' = screen
    BY <1>0, <1>7, NoRequestsAreRequests DEF TakeAdds, Requests
  <2> QED BY <2>1, <2>2, NobodyMeant DEF MeantIsThere, KeepsSlots, AtSlot
<1>8. CASE addFoundTorrent
  <2>1. KeepsSlots
    BY <1>8, AddsLeftIsFound, AddAndRememberKeeps DEF addFoundTorrent
  <2> QED BY <1>0, <1>8, <2>1, MeantIsKept DEF addFoundTorrent, shared, Requests
<1>9. CASE StartSearch
  <2>1. KeepsSlots
    BY <1>9, ListIsUntouched, UntouchedKeeps DEF ListUntouched
  <2>2. requests' = requests /\ taken' = NoRequests /\ screen' = screen
    BY <1>9 DEF StartSearch, shared
  <2> QED BY <2>1, <2>2, NobodyMeant DEF MeantIsThere, KeepsSlots, AtSlot
<1>10. CASE EndPass
  BY <1>10, EngineKeeps, MeantIsKept DEF EndPass, EngineKept
<1>11. CASE Screen
  <2>0. slots' = slots /\ KeepsSlots
    BY <1>11, ListIsUntouched, UntouchedKeeps DEF ListUntouched
  <2>1. ASSUME NEW slot \in Slots, toggleSelected(slot) PROVE MeantIsThere'
    BY <1>0, <2>0, <2>1, MeantIsKept DEF toggleSelected, service, Requests
  <2>2. ASSUME NEW slot \in Slots, askAboutDeleting(slot) PROVE MeantIsThere'
    <3>1. screen'.slot = slot /\ AtSlot(slot, screen'.meant)
      BY <2>2, PublishedIsListed DEF askAboutDeleting, AtSlot
    <3>2. requests' = requests /\ taken' = taken
      BY <2>2 DEF askAboutDeleting, service, shared
    <3> QED BY <2>0, <3>1, <3>2 DEF MeantIsThere, AtSlot
  <2>3. ASSUME NEW removal \in 0 .. 2, onDeleteAnswer(removal) PROVE MeantIsThere'
    <3>1. screen' = Idle /\ taken' = taken
      BY <2>3 DEF onDeleteAnswer, service
    <3>2. \A slot \in Slots : \/ requests'.meant[slot] = requests.meant[slot]
                                 \/ (slot = screen.slot /\ requests'.meant[slot] = screen.meant)
      BY <1>0, <2>3 DEF onDeleteAnswer, Requests
    <3> QED BY <2>0, <3>1, <3>2, NobodyMeant DEF MeantIsThere, AtSlot
  <2>4. ASSUME NEW query \in Queries, TypeQuery(query) PROVE MeantIsThere'
    <3>1. screen'.meant = Nothing /\ requests'.meant = requests.meant /\ taken' = taken
      BY <1>0, <2>4 DEF TypeQuery, service, Requests, Idle
    <3> QED BY <2>0, <3>1 DEF MeantIsThere, AtSlot
  <2>5. CASE WantSearch
    <3>1. screen'.meant = Nothing /\ requests' = requests /\ taken' = taken
      BY <2>5, NobodyMeant DEF WantSearch, service, shared
    <3> QED BY <2>0, <3>1 DEF MeantIsThere, AtSlot
  <2>6. ASSUME NEW index, addServiceResult(index) PROVE MeantIsThere'
    BY <1>0, <2>0, <2>6, MeantIsKept DEF addServiceResult, service, Requests
  <2>7. ASSUME NEW link \in Magnets, addServiceMagnet(link) PROVE MeantIsThere'
    BY <1>0, <2>0, <2>7, MeantIsKept DEF addServiceMagnet, service, Requests
  <2>8. CASE stopTorrentService
    BY <2>0, <2>8, MeantIsKept DEF stopTorrentService, shared
  <2> QED BY <1>11, <2>1, <2>2, <2>3, <2>4, <2>5, <2>6, <2>7, <2>8 DEF Screen
<1>12. CASE Restart
  BY <1>12, NobodyMeant DEF Restart, MeantIsThere, AtSlot
<1> QED BY <1>1, <1>2, <1>3, <1>4, <1>5, <1>6, <1>7, <1>8, <1>9, <1>10, <1>11, <1>12 DEF Next, Service

---------------------------------------------------------------------------
(* What is searched for, and what of it was chosen.                        *)

\* What the search is doing, and that what it shows is what it found.
Asking == screen.doing = "searching" \/ search.wanted \/ pc = "starting"
SearchInv ==
    /\ search.searching <=> pc \in {"search", "searched"}
    /\ search.reading # Nothing => pc = "search" /\ (search.reading = search.query \/ Asking)
    /\ pc # "search" => search.results \in {<< >>, search.found}
    /\ pc # "search" => Asking \/
          search.results \in {<< >>} \union {Found[query] : query \in Queries \intersect {search.query}}

\* What was chosen on the screen is still what was found.
ChosenInv ==
    /\ \A choice \in requests.chosen \union taken.chosen : search.found[choice[1]] = choice[2]
    /\ taken.chosen # {} => pc = "adds"
    /\ Asking \/ search.searching => requests.chosen = {}

\* A step of something else.
LEMMA SearchIsKept ==
  ASSUME SearchInv, search' = search, screen'.doing = screen.doing,
         pc' = pc \/ {pc, pc'} \intersect {"starting", "search", "searched"} = {}
  PROVE  SearchInv'
BY DEF SearchInv, Asking

LEMMA ChosenIsKept ==
  ASSUME ChosenInv, search' = search, screen'.doing = screen.doing,
         requests'.chosen = requests.chosen, taken'.chosen = taken.chosen,
         pc' = pc \/ ({pc, pc'} \intersect {"starting"} = {} /\ taken.chosen = {})
  PROVE  ChosenInv'
BY DEF ChosenInv, Asking

\* The steps that have nothing to do with searches and choices.
Elsewhere ==
    \/ StartService \/ reloadTorrents \/ TakeRequests \/ AddMagnet \/ ApplyPauses \/ RemoveSlot
    \/ addFoundTorrent \/ EndPass \/ EndService
    \/ (\E slot \in Slots : toggleSelected(slot) \/ askAboutDeleting(slot))
    \/ (\E removal \in 0 .. 2 : onDeleteAnswer(removal))
    \/ (\E link \in Magnets : addServiceMagnet(link)) \/ stopTorrentService

LEMMA ElsewhereKeeps ==
  ASSUME ListInv, RestTypeOK, SearchInv, ChosenInv, Elsewhere
  PROVE  SearchInv' /\ ChosenInv'
<1>0. requests \in Requests /\ taken \in Requests /\ NoRequests.chosen = {} /\ Idle.doing = "nothing"
  BY DEF RestTypeOK, NoRequests, Idle
<1>1. CASE StartService \/ reloadTorrents \/ ApplyPauses \/ EndPass \/ EndService \/ stopTorrentService
  <2>1. /\ search' = search /\ screen' = screen /\ requests' = requests /\ taken' = taken
        /\ \/ pc' = pc
           \/ {pc, pc'} \intersect {"starting", "search", "searched"} = {} /\ pc # "adds"
    BY <1>1 DEF StartService, reloadTorrents, ApplyPauses, EndPass, EndService, stopTorrentService, shared
  <2>2. pc' = pc \/ ({pc, pc'} \intersect {"starting"} = {} /\ taken.chosen = {})
    BY <2>1 DEF ChosenInv
  <2> QED BY <2>1, <2>2, SearchIsKept, ChosenIsKept
<1>2. CASE TakeRequests
  <2>1. /\ search' = search /\ screen' = screen /\ pc = "take" /\ pc' = "magnets"
        /\ requests'.chosen = requests.chosen /\ taken'.chosen = {}
    BY <1>0, <1>2, NoRequestsAreRequests DEF TakeRequests, Requests
  <2>2. taken.chosen = {}
    BY <2>1 DEF ChosenInv
  <2> QED BY <2>1, <2>2, SearchIsKept, ChosenIsKept
<1>3. CASE AddMagnet \/ addFoundTorrent
  <2>1. /\ search' = search /\ screen' = screen /\ pc' = pc
        /\ requests' = requests /\ taken'.chosen = taken.chosen
    BY <1>0, <1>3 DEF AddMagnet, addFoundTorrent, shared, Requests
  <2> QED BY <2>1, SearchIsKept, ChosenIsKept
<1>4. CASE RemoveSlot
  <2> DEFINE gone == NextRemoval({slot \in Slots : taken.removals[slot] # 0})
  <2>1. /\ taken' = [taken EXCEPT !.removals[gone] = 0]
        /\ \/ UNCHANGED <<requests, screen>>
           \/ /\ requests' = [requests EXCEPT !.meant = Moved(@, gone)]
              /\ screen' = IF screen.slot >= gone THEN [screen EXCEPT !.meant = Nothing] ELSE screen
    BY <1>4, RemoveSlotKeeps
  <2> HIDE DEF gone
  <2>2. taken'.chosen = taken.chosen /\ requests'.chosen = requests.chosen /\ screen'.doing = screen.doing
    BY <1>0, <2>1 DEF Requests, RestTypeOK
  <2>3. search' = search /\ pc' = pc
    BY <1>4 DEF RemoveSlot
  <2> QED BY <2>2, <2>3, SearchIsKept, ChosenIsKept
<1>5. ASSUME NEW slot \in Slots, toggleSelected(slot) PROVE SearchInv' /\ ChosenInv'
  BY <1>0, <1>5, SearchIsKept, ChosenIsKept DEF toggleSelected, service, Requests
<1>6. ASSUME NEW slot \in Slots, askAboutDeleting(slot) PROVE SearchInv' /\ ChosenInv'
  <2>1. /\ search' = search /\ requests' = requests /\ taken' = taken /\ pc' = pc
        /\ screen.doing # "searching" /\ screen'.doing # "searching"
    BY <1>0, <1>6 DEF askAboutDeleting, service, shared, Asks
  <2> QED BY <2>1 DEF SearchInv, ChosenInv, Asking
<1>7. ASSUME NEW removal \in 0 .. 2, onDeleteAnswer(removal) PROVE SearchInv' /\ ChosenInv'
  <2>1. /\ search' = search /\ requests'.chosen = requests.chosen /\ taken' = taken /\ pc' = pc
        /\ screen.doing # "searching" /\ screen'.doing # "searching"
    BY <1>0, <1>7 DEF onDeleteAnswer, service, Requests
  <2> QED BY <2>1 DEF SearchInv, ChosenInv, Asking
<1>8. ASSUME NEW link \in Magnets, addServiceMagnet(link) PROVE SearchInv' /\ ChosenInv'
  BY <1>0, <1>8, SearchIsKept, ChosenIsKept DEF addServiceMagnet, service, Requests
<1> QED BY <1>1, <1>2, <1>3, <1>4, <1>5, <1>6, <1>7, <1>8 DEF Elsewhere

\* Every step keeps what is shown and what is chosen of it.
LEMMA SearchStep ==
  ASSUME ListInv, RestTypeOK, SearchInv, ChosenInv, Next
  PROVE  SearchInv' /\ ChosenInv'
<1>0. /\ requests \in Requests /\ taken \in Requests /\ search \in Search
      /\ NoRequests.chosen = {} /\ Idle.doing = "nothing"
  BY DEF RestTypeOK, NoRequests, Idle
<1>1. CASE Elsewhere
  BY <1>1, ElsewhereKeeps
<1>2. CASE TakeAdds
  <2>1. /\ search' = search /\ screen' = screen /\ pc = "remove" /\ pc' = "adds"
        /\ requests'.chosen = {} /\ taken'.chosen = requests.chosen
    BY <1>0, <1>2, NoRequestsAreRequests DEF TakeAdds, Requests
  <2> QED BY <2>1, SearchIsKept DEF ChosenInv
<1>3. CASE StartSearch
  <2>1. /\ pc = "adds" /\ screen' = screen /\ requests' = requests /\ taken' = NoRequests
    BY <1>3 DEF StartSearch, shared
  <2>2. CASE search.wanted
    <3>1. pc' = "starting" /\ search' = [search EXCEPT !.wanted = FALSE]
      BY <1>3, <2>2 DEF StartSearch
    <3>2. /\ search'.searching = search.searching /\ search'.reading = search.reading
          /\ search'.found = search.found /\ search'.results = search.results
      BY <1>0, <3>1 DEF Search
    <3>3. Asking' /\ Asking
      BY <2>2, <3>1 DEF Asking
    <3> QED BY <1>0, <2>1, <3>1, <3>2, <3>3 DEF SearchInv, ChosenInv
  <2>3. CASE ~search.wanted
    <3>1. pc' = "engine" /\ search' = search
      BY <1>3, <2>3 DEF StartSearch
    <3>2. SearchInv'
      BY <2>1, <3>1, SearchIsKept
    <3> QED BY <1>0, <2>1, <3>1, <3>2 DEF ChosenInv, Asking
  <2> QED BY <2>2, <2>3
<1>11. CASE RaiseSearching
  <2>1. /\ pc = "starting" /\ pc' = "search" /\ screen' = screen /\ requests' = requests
        /\ taken' = taken /\ search' = [search EXCEPT !.searching = TRUE]
    BY <1>11 DEF RaiseSearching, shared
  <2>2. search'.searching /\ search'.reading = search.reading /\ search'.found = search.found
    BY <1>0, <2>1 DEF Search
  <2>3. search.reading = Nothing /\ taken.chosen = {} /\ requests.chosen = {}
    BY <2>1 DEF SearchInv, ChosenInv, Asking
  <2> QED BY <2>1, <2>2, <2>3 DEF SearchInv, ChosenInv
<1>4. CASE ReadQuery
  <2>1. /\ pc = "search" /\ pc' = pc /\ screen' = screen /\ requests' = requests /\ taken' = taken
        /\ search' = [search EXCEPT !.reading = search.query, !.found = << >>]
    BY <1>4 DEF ReadQuery, shared
  <2>2. requests.chosen = {} /\ taken.chosen = {}
    BY <2>1 DEF SearchInv, ChosenInv
  <2>3. /\ search'.reading = search.query /\ search'.query = search.query
        /\ search'.searching = search.searching /\ search'.wanted = search.wanted
    BY <1>0, <2>1 DEF Search
  <2> QED BY <2>1, <2>2, <2>3 DEF SearchInv, ChosenInv, Asking
<1>5. CASE PublishResults
  <2>1. PICK found \in {Found[search.reading], << >>} :
           search' = [search EXCEPT !.found = found, !.results = found, !.reading = Nothing]
    BY <1>5 DEF PublishResults
  <2>2. /\ pc = "search" /\ pc' = "searched" /\ screen' = screen /\ requests' = requests
        /\ taken' = taken /\ search.reading \in Queries /\ search.reading # Nothing
    BY <1>0, <1>5 DEF PublishResults, shared, Search
  <2>3. requests.chosen = {} /\ taken.chosen = {}
    BY <2>2 DEF SearchInv, ChosenInv
  <2>4. /\ search'.results = found /\ search'.found = found /\ search'.reading = Nothing
        /\ search'.query = search.query /\ search'.searching = search.searching
        /\ search'.wanted = search.wanted
    BY <1>0, <2>1 DEF Search
  <2>5. Asking \/ found \in {<< >>} \union {Found[query] : query \in Queries \intersect {search.query}}
    BY <2>1, <2>2 DEF SearchInv
  <2> QED BY <2>2, <2>3, <2>4, <2>5 DEF SearchInv, ChosenInv, Asking
<1>6. CASE EndSearch
  <2>1. /\ pc = "searched" /\ pc' = "engine" /\ screen' = screen /\ requests' = requests
        /\ taken' = taken /\ search' = [search EXCEPT !.searching = FALSE]
    BY <1>6 DEF EndSearch, shared
  <2>2. /\ ~search'.searching /\ search'.results = search.results /\ search'.found = search.found
        /\ search'.query = search.query /\ search'.reading = search.reading
        /\ search'.wanted = search.wanted
    BY <1>0, <2>1 DEF Search
  <2> QED BY <2>1, <2>2 DEF SearchInv, ChosenInv, Asking
<1>7. ASSUME NEW query \in Queries, TypeQuery(query) PROVE SearchInv' /\ ChosenInv'
  <2>1. /\ pc' = pc /\ taken' = taken /\ screen'.doing = "searching" /\ requests'.chosen = {}
        /\ search'.results = << >> /\ search'.found = search.found
        /\ search'.reading = search.reading /\ search'.searching = search.searching
    BY <1>0, <1>7 DEF TypeQuery, service, Requests, Search, Idle
  <2> QED BY <2>1 DEF SearchInv, ChosenInv, Asking
<1>8. CASE WantSearch
  <2>1. /\ pc' = pc /\ taken' = taken /\ requests' = requests /\ screen.doing = "searching"
        /\ search' = [search EXCEPT !.wanted = TRUE]
    BY <1>8 DEF WantSearch, service, shared
  <2>2. /\ search'.wanted /\ search'.results = search.results /\ search'.found = search.found
        /\ search'.reading = search.reading /\ search'.searching = search.searching
    BY <1>0, <2>1 DEF Search
  <2> QED BY <2>1, <2>2 DEF SearchInv, ChosenInv, Asking
<1>9. ASSUME NEW index \in DOMAIN search.results, addServiceResult(index) PROVE SearchInv' /\ ChosenInv'
  <2> DEFINE chosen == {choice \in requests.chosen : choice[1] # index} \union
                          (IF SearchAhead THEN {}
                           ELSE {<<index, search.results[index]>>})
  <2>1. /\ pc' = pc /\ taken' = taken /\ search' = search /\ screen' = screen /\ screen = Idle
        /\ requests'.chosen = chosen
    BY <1>0, <1>9 DEF addServiceResult, service, Requests, Asks
  <2>2. SearchInv'
    BY <2>1, SearchIsKept
  <2>3. \A choice \in chosen : search.found[choice[1]] = choice[2]
    <3>1. CASE SearchAhead
      BY <3>1 DEF ChosenInv
    <3>2. CASE ~SearchAhead
      <4>1. search.results \in {<< >>, search.found}
        BY <3>2 DEF SearchInv, SearchAhead
      <4>2. search.results = search.found
        BY <1>9, <4>1, EmptySeq
      <4> QED BY <3>2, <4>2 DEF ChosenInv
    <3> QED BY <3>1, <3>2
  <2>4. SearchAhead => chosen = {}
    BY DEF ChosenInv, Asking, SearchAhead
  <2> HIDE DEF chosen
  <2> QED BY <1>0, <2>1, <2>2, <2>3, <2>4 DEF ChosenInv, Asking, SearchAhead
<1>10. CASE Restart
  <2>1. search' = NoSearch /\ pc' = "start" /\ requests' = NoRequests /\ taken' = NoRequests
    BY <1>10 DEF Restart
  <2>2. /\ NoSearch.results = << >> /\ NoSearch.reading = Nothing /\ ~NoSearch.searching
    BY DEF NoSearch
  <2>3. ~Asking'
    BY <1>0, <1>10 DEF Restart, Asking, NoSearch
  <2> QED BY <1>0, <2>1, <2>2, <2>3 DEF SearchInv, ChosenInv
<1> QED BY <1>1, <1>2, <1>3, <1>4, <1>5, <1>6, <1>7, <1>8, <1>9, <1>10, <1>11 DEF Next, Service, Screen, Elsewhere

---------------------------------------------------------------------------
(* The inductive invariant, and the theorems.                              *)

IInv == ListInv /\ RestTypeOK /\ Resumable /\ MeantIsThere /\ SearchInv /\ ChosenInv

LEMMA InitIInv == Init => IInv
<1> SUFFICES ASSUME Init PROVE IInv
  OBVIOUS
<1>1. ListInv /\ Listed = {}
  BY EmptyKeeps DEF Init, EmptyList
<1>2. RestTypeOK
  <2>1. << >> \in Seq([link : Links, status : Statuses]) /\ Len(<< >>) = 0
    BY EmptySeq
  <2>2. published \in Seq([link : Links, status : Statuses]) /\ Len(published) =< TORRENT_SLOT_MAX
    BY <2>1, Constants DEF Init
  <2>3. requests \in Requests /\ taken \in Requests /\ search \in Search
    BY NoRequestsAreRequests, NoSearchIsSearch DEF Init
  <2>4. screen \in [doing : {"nothing", "deleting", "searching"}, slot : 0 .. TORRENT_SLOT_MAX,
                    meant : Meanings]
    BY Constants DEF Init, Idle, Meanings
  <2>5. content \in [Links -> Places] /\ resumeFiles \in [Links -> {"none", "whole", "cut"}]
    BY DEF Init, Places
  <2>6. spent \in 0 .. EventsMax
    BY Constants DEF Init
  <2> QED BY <2>2, <2>3, <2>4, <2>5, <2>6 DEF Init, RestTypeOK
<1>3. Resumable
  BY DEF Init, Resumable
<1>4. MeantIsThere
  BY NobodyMeant DEF Init, MeantIsThere, AtSlot
<1>5. SearchInv /\ ChosenInv
  <2>1. /\ NoSearch.results = << >> /\ NoSearch.reading = Nothing /\ ~NoSearch.searching
        /\ ~NoSearch.wanted /\ Idle.doing = "nothing" /\ NoRequests.chosen = {}
    BY DEF NoSearch, Idle, NoRequests
  <2> QED BY <2>1 DEF Init, SearchInv, ChosenInv, Asking
<1> QED BY <1>1, <1>2, <1>3, <1>4, <1>5 DEF IInv

LEMMA StepIInv == IInv /\ [Next]_vars => IInv'
<1> SUFFICES ASSUME IInv, [Next]_vars PROVE IInv'
  OBVIOUS
<1>1. CASE Next
  BY <1>1, ListStep, RestStep, ResumableStep, MeantStep, SearchStep DEF IInv
<1>2. CASE UNCHANGED vars
  <2>1. UNCHANGED <<slots, torrentLinks, descriptions, resumeFiles, content, requests, published,
                    search, pc, taken, toReload, stopRequested, screen, astray, spent>>
    BY <1>2 DEF vars, list, disk, shared, bounds
  <2>2. ListInv' /\ Listed' = Listed
    BY <2>1, UntouchedKeeps DEF IInv
  <2>3. RestTypeOK'
    BY <2>1 DEF IInv, RestTypeOK
  <2>4. Resumable' /\ MeantIsThere'
    BY <2>1, <2>2 DEF IInv, Resumable, InStep, Marked, Agrees, Reloading, MeantIsThere, AtSlot
  <2>5. SearchInv' /\ ChosenInv'
    BY <2>1 DEF IInv, SearchInv, ChosenInv, Asking
  <2> QED BY <2>2, <2>3, <2>4, <2>5 DEF IInv
<1> QED BY <1>1, <1>2

LEMMA AlwaysIInv == Spec => []IInv
BY InitIInv, StepIInv, PTL DEF Spec

\* No list outgrows its array, whatever is added, removed and reloaded, and every
\* variable holds what its declaration says.
THEOREM TypeCorrect == Spec => []TypeOK
<1>1. IInv => TypeOK
  BY DEF IInv, ListInv, TypeOK
<1> QED BY <1>1, AlwaysIInv, PTL

\* The links follow the engine's slots through refused adds, removals and reloads:
\* what forgetTorrent drops is what removeTorrent dropped.
THEOREM LinksAlwaysFollow == Spec => []LinksFollowSlots
<1>1. IInv => LinksFollowSlots
  BY DEF IInv, ListInv
<1> QED BY <1>1, AlwaysIInv, PTL

\* findFreeDescription never gives away the buffer of a listed magnet.
THEOREM DescriptionsStay == Spec => []MagnetDescriptionStays
<1>1. IInv => MagnetDescriptionStays
  BY DEF IInv, ListInv
<1> QED BY <1>1, AlwaysIInv, PTL

\* After a start, what is listed has its file and nothing else has one, but for what
\* went astray: a failed fetch, write or delete, or a hash that was lost, which is the
\* only way for a link to be listed twice.
THEOREM ListIsTakenUpAgain == Spec => []ListedIsTakenUpAgain
<1>1. IInv => ListedIsTakenUpAgain
  BY DEF IInv, Resumable, InStep, Agrees, ListedIsTakenUpAgain
<1> QED BY <1>1, AlwaysIInv, PTL

\* When no search is asked for, about to start or under way, the screen shows what
\* its query found.
THEOREM ResultsAreOfTheQuery == Spec => []ResultsAnswerTheQuery
<1>1. IInv => ResultsAnswerTheQuery
  BY DEF IInv, SearchInv, Asking, SearchAhead, ResultsAnswerTheQuery
<1> QED BY <1>1, AlwaysIInv, PTL

\* takeRequests takes from the back and the choices behind a gap are forgotten, so
\* what is removed is what the question named.
THEOREM RemovalsHit == Spec => RemovalHitsItsTorrent
<1>1. IInv /\ RemoveSlot =>
        LET slot == NextRemoval({s \in Slots : taken.removals[s] # 0}) IN
        taken.meant[slot] # Nothing => slot \in DOMAIN slots /\ taken.meant[slot] = slots[slot].link
  <2> SUFFICES ASSUME IInv, RemoveSlot, NEW slot,
                      slot = NextRemoval({s \in Slots : taken.removals[s] # 0}),
                      taken.meant[slot] # Nothing
               PROVE  slot \in DOMAIN slots /\ taken.meant[slot] = slots[slot].link
    OBVIOUS
  <2>1. slot \in Slots /\ taken.removals[slot] # 0
    BY RemoveSlotKeeps DEF IInv
  <2> QED BY <2>1 DEF IInv, MeantIsThere, AtSlot
<1> QED BY <1>1, AlwaysIInv, PTL DEF RemovalHitsItsTorrent

\* An add takes the row that was chosen as long as its results were the shown ones.
THEOREM AddsHit == Spec => AddHitsItsResult
<1>1. IInv /\ addFoundTorrent =>
        \A choice \in taken.chosen : choice[1] = Min(AddsLeft) => search.found[choice[1]] = choice[2]
  BY DEF IInv, ChosenInv
<1> QED BY <1>1, AlwaysIInv, PTL DEF AddHitsItsResult
=============================================================================
