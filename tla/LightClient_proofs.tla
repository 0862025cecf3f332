-------------------------- MODULE LightClient_proofs --------------------------
(***************************************************************************)
(* Proofs about LightClient, for every value of the constants that        *)
(* satisfies LightClientAssumption.                                        *)
(***************************************************************************)
EXTENDS LightClient, SequenceTheorems, TLAPS

(* A sequence with the length and the elements of s \o t is s \o t.      *)
LEMMA CatIs ==
    ASSUME NEW S, NEW s \in Seq(S), NEW t \in Seq(S), NEW r \in Seq(S),
           Len(r) = Len(s) + Len(t),
           \A i \in 1..Len(r) : r[i] = IF i <= Len(s) THEN s[i] ELSE t[i - Len(s)]
    PROVE  s \o t = r
<1>1. /\ s \o t \in Seq(S)
      /\ Len(s \o t) = Len(s) + Len(t)
      /\ \A i \in 1 .. Len(s) + Len(t) :
            (s \o t)[i] = IF i <= Len(s) THEN s[i] ELSE t[i - Len(s)]
  BY ConcatProperties
<1>. QED
  BY <1>1, SeqEqual

(* The tokens of the encoding: u64 fields, roots and committees.          *)
Tokens == Nat \cup {"canon", "fake", "vals_root", Evil, None}

(* The stores the type invariant allows.                                   *)
Clients == [lcs : Stores, network : {Network}]

(* What Encode for LightClient writes, field by field, with and without   *)
(* a next committee.                                                       *)
LEMMA EncodeTokens ==
    ASSUME NEW l \in Clients
    PROVE  Encode(l) =
             IF l.lcs.next = None
             THEN <<l.lcs.fin.slot, l.lcs.fin.root, l.lcs.cur, 0,
                    l.lcs.opt.slot, l.lcs.opt.root, l.lcs.prevMax,
                    l.lcs.curMax, "vals_root", 4, GenesisTime>>
             ELSE <<l.lcs.fin.slot, l.lcs.fin.root, l.lcs.cur, 1, l.lcs.next,
                    l.lcs.opt.slot, l.lcs.opt.root, l.lcs.prevMax,
                    l.lcs.curMax, "vals_root", 4, GenesisTime>>
<1> USE LightClientAssumption
<1> DEFINE fs == l.lcs.fin.slot  fr == l.lcs.fin.root  c == l.lcs.cur
           n == l.lcs.next  os == l.lcs.opt.slot  orr == l.lcs.opt.root
           pm == l.lcs.prevMax  cm == l.lcs.curMax
<1>1. /\ fs \in Tokens /\ fr \in Tokens /\ c \in Tokens /\ n \in Tokens
      /\ os \in Tokens /\ orr \in Tokens /\ pm \in Tokens /\ cm \in Tokens
      /\ "vals_root" \in Tokens /\ 4 \in Tokens /\ GenesisTime \in Tokens
      /\ 0 \in Tokens /\ 1 \in Tokens
  BY DEF Clients, Stores, Headers, Committees, Tokens
<1>2. l.network = <<"vals_root", 4, GenesisTime>>
  BY DEF Clients, Network
<1>3. <<fs, fr>> \o <<c>> = <<fs, fr, c>>
  <2>1. /\ <<fs, fr>> \in Seq(Tokens) /\ <<c>> \in Seq(Tokens)
        /\ <<fs, fr, c>> \in Seq(Tokens)
        /\ Len(<<fs, fr, c>>) = Len(<<fs, fr>>) + Len(<<c>>)
    BY <1>1
  <2>2. \A i \in 1..Len(<<fs, fr, c>>) :
          <<fs, fr, c>>[i] = IF i <= 2 THEN <<fs, fr>>[i] ELSE <<c>>[i - 2]
    OBVIOUS
  <2>. QED
    BY <2>1, <2>2, CatIs, Zenon
<1>4. CASE n = None
  <2>1. <<fs, fr, c>> \o <<0>> = <<fs, fr, c, 0>>
    <3>1. /\ <<fs, fr, c>> \in Seq(Tokens) /\ <<0>> \in Seq(Tokens)
          /\ <<fs, fr, c, 0>> \in Seq(Tokens)
          /\ Len(<<fs, fr, c, 0>>) = Len(<<fs, fr, c>>) + Len(<<0>>)
      BY <1>1
    <3>2. \A i \in 1..Len(<<fs, fr, c, 0>>) :
            <<fs, fr, c, 0>>[i] = IF i <= 3 THEN <<fs, fr, c>>[i] ELSE <<0>>[i - 3]
      OBVIOUS
    <3>. QED
      BY <3>1, <3>2, CatIs, Zenon
  <2>2. <<fs, fr, c, 0>> \o <<os, orr>> = <<fs, fr, c, 0, os, orr>>
    <3>1. /\ <<fs, fr, c, 0>> \in Seq(Tokens) /\ <<os, orr>> \in Seq(Tokens)
          /\ <<fs, fr, c, 0, os, orr>> \in Seq(Tokens)
          /\ Len(<<fs, fr, c, 0, os, orr>>) = Len(<<fs, fr, c, 0>>) + Len(<<os, orr>>)
      BY <1>1
    <3>2. \A i \in 1..Len(<<fs, fr, c, 0, os, orr>>) :
            <<fs, fr, c, 0, os, orr>>[i] = IF i <= 4 THEN <<fs, fr, c, 0>>[i] ELSE <<os, orr>>[i - 4]
      OBVIOUS
    <3>. QED
      BY <3>1, <3>2, CatIs, Zenon
  <2>3. <<fs, fr, c, 0, os, orr>> \o <<pm, cm>> = <<fs, fr, c, 0, os, orr, pm, cm>>
    <3>1. /\ <<fs, fr, c, 0, os, orr>> \in Seq(Tokens) /\ <<pm, cm>> \in Seq(Tokens)
          /\ <<fs, fr, c, 0, os, orr, pm, cm>> \in Seq(Tokens)
          /\ Len(<<fs, fr, c, 0, os, orr, pm, cm>>) = Len(<<fs, fr, c, 0, os, orr>>) + Len(<<pm, cm>>)
      BY <1>1
    <3>2. \A i \in 1..Len(<<fs, fr, c, 0, os, orr, pm, cm>>) :
            <<fs, fr, c, 0, os, orr, pm, cm>>[i] = IF i <= 6 THEN <<fs, fr, c, 0, os, orr>>[i] ELSE <<pm, cm>>[i - 6]
      OBVIOUS
    <3>. QED
      BY <3>1, <3>2, CatIs, Zenon
  <2>4. <<fs, fr, c, 0, os, orr, pm, cm>> \o <<"vals_root", 4, GenesisTime>> = <<fs, fr, c, 0, os, orr, pm, cm, "vals_root", 4, GenesisTime>>
    <3>1. /\ <<fs, fr, c, 0, os, orr, pm, cm>> \in Seq(Tokens) /\ <<"vals_root", 4, GenesisTime>> \in Seq(Tokens)
          /\ <<fs, fr, c, 0, os, orr, pm, cm, "vals_root", 4, GenesisTime>> \in Seq(Tokens)
          /\ Len(<<fs, fr, c, 0, os, orr, pm, cm, "vals_root", 4, GenesisTime>>) = Len(<<fs, fr, c, 0, os, orr, pm, cm>>) + Len(<<"vals_root", 4, GenesisTime>>)
      BY <1>1
    <3>2. \A i \in 1..Len(<<fs, fr, c, 0, os, orr, pm, cm, "vals_root", 4, GenesisTime>>) :
            <<fs, fr, c, 0, os, orr, pm, cm, "vals_root", 4, GenesisTime>>[i] = IF i <= 8 THEN <<fs, fr, c, 0, os, orr, pm, cm>>[i] ELSE <<"vals_root", 4, GenesisTime>>[i - 8]
      OBVIOUS
    <3>. QED
      BY <3>1, <3>2, CatIs, Zenon
  <2>. QED
    BY <1>2, <1>3, <1>4, <2>1, <2>2, <2>3, <2>4
       DEF Encode, EncodeHeader, EncodeCommittee
<1>5. CASE n /= None
  <2>1. <<1>> \o <<n>> = <<1, n>>
    <3>1. /\ <<1>> \in Seq(Tokens) /\ <<n>> \in Seq(Tokens)
          /\ <<1, n>> \in Seq(Tokens)
          /\ Len(<<1, n>>) = Len(<<1>>) + Len(<<n>>)
      BY <1>1
    <3>2. \A i \in 1..Len(<<1, n>>) :
            <<1, n>>[i] = IF i <= 1 THEN <<1>>[i] ELSE <<n>>[i - 1]
      OBVIOUS
    <3>. QED
      BY <3>1, <3>2, CatIs, Zenon
  <2>2. <<fs, fr, c>> \o <<1, n>> = <<fs, fr, c, 1, n>>
    <3>1. /\ <<fs, fr, c>> \in Seq(Tokens) /\ <<1, n>> \in Seq(Tokens)
          /\ <<fs, fr, c, 1, n>> \in Seq(Tokens)
          /\ Len(<<fs, fr, c, 1, n>>) = Len(<<fs, fr, c>>) + Len(<<1, n>>)
      BY <1>1
    <3>2. \A i \in 1..Len(<<fs, fr, c, 1, n>>) :
            <<fs, fr, c, 1, n>>[i] = IF i <= 3 THEN <<fs, fr, c>>[i] ELSE <<1, n>>[i - 3]
      OBVIOUS
    <3>. QED
      BY <3>1, <3>2, CatIs, Zenon
  <2>3. <<fs, fr, c, 1, n>> \o <<os, orr>> = <<fs, fr, c, 1, n, os, orr>>
    <3>1. /\ <<fs, fr, c, 1, n>> \in Seq(Tokens) /\ <<os, orr>> \in Seq(Tokens)
          /\ <<fs, fr, c, 1, n, os, orr>> \in Seq(Tokens)
          /\ Len(<<fs, fr, c, 1, n, os, orr>>) = Len(<<fs, fr, c, 1, n>>) + Len(<<os, orr>>)
      BY <1>1
    <3>2. \A i \in 1..Len(<<fs, fr, c, 1, n, os, orr>>) :
            <<fs, fr, c, 1, n, os, orr>>[i] = IF i <= 5 THEN <<fs, fr, c, 1, n>>[i] ELSE <<os, orr>>[i - 5]
      OBVIOUS
    <3>. QED
      BY <3>1, <3>2, CatIs, Zenon
  <2>4. <<fs, fr, c, 1, n, os, orr>> \o <<pm, cm>> = <<fs, fr, c, 1, n, os, orr, pm, cm>>
    <3>1. /\ <<fs, fr, c, 1, n, os, orr>> \in Seq(Tokens) /\ <<pm, cm>> \in Seq(Tokens)
          /\ <<fs, fr, c, 1, n, os, orr, pm, cm>> \in Seq(Tokens)
          /\ Len(<<fs, fr, c, 1, n, os, orr, pm, cm>>) = Len(<<fs, fr, c, 1, n, os, orr>>) + Len(<<pm, cm>>)
      BY <1>1
    <3>2. \A i \in 1..Len(<<fs, fr, c, 1, n, os, orr, pm, cm>>) :
            <<fs, fr, c, 1, n, os, orr, pm, cm>>[i] = IF i <= 7 THEN <<fs, fr, c, 1, n, os, orr>>[i] ELSE <<pm, cm>>[i - 7]
      OBVIOUS
    <3>. QED
      BY <3>1, <3>2, CatIs, Zenon
  <2>5. <<fs, fr, c, 1, n, os, orr, pm, cm>> \o <<"vals_root", 4, GenesisTime>> = <<fs, fr, c, 1, n, os, orr, pm, cm, "vals_root", 4, GenesisTime>>
    <3>1. /\ <<fs, fr, c, 1, n, os, orr, pm, cm>> \in Seq(Tokens) /\ <<"vals_root", 4, GenesisTime>> \in Seq(Tokens)
          /\ <<fs, fr, c, 1, n, os, orr, pm, cm, "vals_root", 4, GenesisTime>> \in Seq(Tokens)
          /\ Len(<<fs, fr, c, 1, n, os, orr, pm, cm, "vals_root", 4, GenesisTime>>) = Len(<<fs, fr, c, 1, n, os, orr, pm, cm>>) + Len(<<"vals_root", 4, GenesisTime>>)
      BY <1>1
    <3>2. \A i \in 1..Len(<<fs, fr, c, 1, n, os, orr, pm, cm, "vals_root", 4, GenesisTime>>) :
            <<fs, fr, c, 1, n, os, orr, pm, cm, "vals_root", 4, GenesisTime>>[i] = IF i <= 9 THEN <<fs, fr, c, 1, n, os, orr, pm, cm>>[i] ELSE <<"vals_root", 4, GenesisTime>>[i - 9]
      OBVIOUS
    <3>. QED
      BY <3>1, <3>2, CatIs, Zenon
  <2>. QED
    BY <1>2, <1>3, <1>5, <2>1, <2>2, <2>3, <2>4, <2>5
       DEF Encode, EncodeHeader, EncodeCommittee
<1>. QED
  BY <1>4, <1>5

(* Decoding what Encode for LightClient writes gives the client back:     *)
(* the Option tag tells Decode whether a committee follows, and every      *)
(* later field is read from the place Encode put it.                       *)
LEMMA RoundTrip ==
    ASSUME NEW l \in Clients
    PROVE  Decode(Encode(l)) = l
<1> USE LightClientAssumption
<1>1. CASE l.lcs.next = None
  BY <1>1, EncodeTokens DEF Clients, Stores, Headers, Decode, DecodeHeader,
                            DecodeCommittee, Network
<1>2. CASE l.lcs.next /= None
  BY <1>2, EncodeTokens DEF Clients, Stores, Headers, Decode, DecodeHeader,
                            DecodeCommittee, Network
<1>. QED
  BY <1>1, <1>2
-----------------------------------------------------------------------------
(* Periods.                                                                *)

(* A later slot is never in an earlier sync-committee period.             *)
LEMMA PeriodMono ==
    ASSUME NEW a \in Nat, NEW b \in Nat, a <= b
    PROVE  Period(a) \in Nat /\ Period(a) <= Period(b)
BY LightClientAssumption DEF Period

(* A slot of the model is in a period of the model.                        *)
LEMMA PeriodRange ==
    ASSUME NEW a \in 0..MaxSlot
    PROVE  Period(a) \in 0..MaxPeriod
BY PeriodMono, LightClientAssumption DEF MaxPeriod

(* StoreSound of a store.                                                  *)
SoundStore(s) ==
    /\ s.fin.root = "canon" /\ s.opt.root = "canon"
    /\ s.cur = Period(s.fin.slot)
    /\ s.next \in {None, Period(s.fin.slot) + 1}

-----------------------------------------------------------------------------
(* What verify_generic_update establishes of an update to a sound store:   *)
(* the committee it checks the signature against is an honest one, so the *)
(* attested header, and through its branch the finalized header and the   *)
(* next committee, are the beacon chain's.                                 *)
LEMMA VerifyFacts ==
    ASSUME NEW s \in Stores, SoundStore(s), NEW u \in Updates, NEW e,
           VerifyGeneric(s, u, e)
    PROVE  /\ u.att.root = "canon" /\ u.fin.root = "canon"
           /\ u.fin.slot <= u.att.slot /\ u.att.slot < u.sig /\ u.sig <= clock
           /\ Period(u.sig) \in {Period(s.fin.slot), Period(s.fin.slot) + 1}
           /\ Period(u.sig) = Period(s.fin.slot) + 1 => s.next /= None
           /\ u.next /= None => u.next = Period(u.att.slot) + 1
           /\ \/ u.att.slot > s.fin.slot
              \/ s.next = None /\ u.next /= None
                 /\ Period(u.att.slot) = Period(s.fin.slot)
<1> USE LightClientAssumption
<1> DEFINE sp == Period(s.fin.slot)  usp == Period(u.sig)
           c == IF usp = sp THEN s.cur ELSE s.next
<1>1. /\ s.fin.slot \in Nat /\ u.sig \in Nat /\ u.att.slot \in Nat
      /\ sp \in Nat /\ usp \in Nat
  BY PeriodMono DEF Stores, Updates, Headers
<1>2. /\ IF s.next /= None THEN usp \in {sp, sp + 1} ELSE usp = sp
      /\ SignatureValid(u.att, u.sig, c)
      /\ FinalityProofValid(u.att, u.fin)
      /\ u.next /= None => NextCommitteeProofValid(u.att, u.next)
      /\ u.sig > u.att.slot /\ u.att.slot >= u.fin.slot
      /\ \/ u.att.slot > s.fin.slot
         \/ s.next = None /\ u.next /= None /\ Period(u.att.slot) = sp
  BY DEF VerifyGeneric
<1>3. c \in Nat
  BY <1>1, <1>2 DEF SoundStore
<1>4. u.att.root = "canon" /\ c = usp /\ u.sig <= clock
  BY <1>3, <1>2 DEF SignatureValid
<1>5. u.fin.root = "canon"
  BY <1>4, <1>2 DEF FinalityProofValid, Canon
<1>. QED
  BY <1>1, <1>2, <1>4, <1>5 DEF NextCommitteeProofValid

(* apply_generic_update after a successful verify_generic_update keeps the *)
(* store in its type and sound, and either keeps the finalized header or   *)
(* moves it forward to the update's, which is of a past slot.              *)
LEMMA ApplyFacts ==
    ASSUME clock \in Nat, NEW s \in Stores, SoundStore(s), NEW u \in Updates, NEW e,
           VerifyGeneric(s, u, e)
    PROVE  LET t == ApplyGeneric(s, u)
           IN  /\ t \in Stores /\ SoundStore(t)
               /\ \/ t.fin = s.fin
                  \/ t.fin = u.fin /\ s.fin.slot < u.fin.slot /\ u.fin.slot <= clock
<1> USE LightClientAssumption
<1> DEFINE sp == Period(s.fin.slot)  usp == Period(u.sig)
           ufp == Period(u.fin.slot)  pa == Period(u.att.slot)
           curMax1 == AtLeast(s.curMax, u.bits)
           opt1 == IF u.bits > AtLeast(s.prevMax, curMax1) \div 2 /\ u.att.slot > s.opt.slot
                     THEN u.att ELSE s.opt
           hasFinNext == s.next = None /\ u.next /= None /\ ufp = pa
           apply == u.bits * 3 >= CommitteeSize * 2 /\ (u.fin.slot > s.fin.slot \/ hasFinNext)
           rotate == apply /\ s.next /= None /\ ufp = sp + 1
           newer == apply /\ u.fin.slot > s.fin.slot
           t == ApplyGeneric(s, u)
<1>1. t = [fin |-> IF newer THEN u.fin ELSE s.fin,
           cur |-> IF rotate THEN s.next ELSE s.cur,
           next |-> IF apply /\ (s.next = None \/ rotate) THEN u.next ELSE s.next,
           opt |-> IF newer /\ u.fin.slot > opt1.slot THEN u.fin ELSE opt1,
           prevMax |-> IF rotate THEN curMax1 ELSE s.prevMax,
           curMax |-> IF rotate THEN 0 ELSE curMax1]
  BY DEF ApplyGeneric, ApplyWith
<1>2. /\ u.att.root = "canon" /\ u.fin.root = "canon"
      /\ u.fin.slot <= u.att.slot /\ u.att.slot < u.sig /\ u.sig <= clock
      /\ usp \in {sp, sp + 1}
      /\ usp = sp + 1 => s.next /= None
      /\ u.next /= None => u.next = pa + 1
      /\ \/ u.att.slot > s.fin.slot
         \/ s.next = None /\ u.next /= None /\ pa = sp
  BY VerifyFacts
<1>3. /\ s.fin.slot \in 0..MaxSlot /\ u.fin.slot \in 0..MaxSlot
      /\ u.att.slot \in 0..MaxSlot /\ u.sig \in 0..MaxSlot
      /\ u.bits \in 1..CommitteeSize
  BY DEF Stores, Updates, Headers
<1>4. /\ sp \in Nat /\ ufp \in Nat /\ pa \in Nat /\ usp \in Nat
      /\ ufp <= pa /\ pa <= usp
      /\ s.fin.slot < u.fin.slot => sp <= ufp
      /\ u.fin.slot <= s.fin.slot => ufp <= sp
      /\ s.fin.slot < u.att.slot => sp <= pa
  BY <1>2, <1>3, PeriodMono
<1>5. /\ s.cur = sp /\ s.next \in {None, sp + 1}
      /\ s.fin.root = "canon" /\ s.opt.root = "canon"
  BY DEF SoundStore
<1>6. t \in Stores
  <2>1. curMax1 \in 0..CommitteeSize
    BY <1>3 DEF Stores, AtLeast
  <2>2. opt1 \in Headers
    BY DEF Stores, Updates
  <2>. QED
    BY <1>1, <2>1, <2>2 DEF Stores, Updates
<1>7. t.opt.root = "canon"
  BY <1>1, <1>2, <1>5
<1>8. t.cur = Period(t.fin.slot) /\ t.next \in {None, Period(t.fin.slot) + 1}
  <2>1. CASE ~apply
    BY <1>1, <1>5, <2>1
  <2>2. CASE rotate
    <3>1. newer /\ pa = ufp
      BY <1>2, <1>4, <2>2
    <3>. QED
      BY <1>1, <1>2, <1>5, <2>2, <3>1
  <2>3. CASE apply /\ ~rotate /\ newer
    <3>1. ufp = sp
      BY <1>2, <1>4, <1>5, <2>3
    <3>2. s.next = None => pa = sp
      BY <1>2, <1>4, <3>1
    <3>. QED
      BY <1>1, <1>2, <1>5, <2>3, <3>1, <3>2
  <2>4. CASE apply /\ ~rotate /\ ~newer
    <3>1. hasFinNext /\ u.fin.slot <= s.fin.slot
      BY <2>4, <1>3
    <3>2. pa = sp
      BY <1>2, <1>4, <3>1
    <3>. QED
      BY <1>1, <1>2, <1>5, <2>4, <3>1, <3>2
  <2>. QED
    BY <2>1, <2>2, <2>3, <2>4
<1>9. \/ t.fin = s.fin
      \/ t.fin = u.fin /\ s.fin.slot < u.fin.slot /\ u.fin.slot <= clock
  <2>1. CASE newer
    <3>1. t.fin = u.fin
      BY <1>1, <2>1
    <3>2. u.fin.slot <= clock
      BY <1>2, <1>3, clock \in Nat
    <3>. QED
      BY <2>1, <3>1, <3>2
  <2>2. CASE ~newer
    BY <1>1, <2>2
  <2>. QED
    BY <2>1, <2>2
<1>. QED
  BY <1>1, <1>2, <1>5, <1>6, <1>7, <1>8, <1>9 DEF SoundStore
-----------------------------------------------------------------------------
(* The inductive invariant: the type and the soundness of the store.       *)
IInv == LCTypeOK /\ StoreSound

(* LightClient::new on a trusted bootstrap header gives a sound store.     *)
LEMMA InitIInv == Init => IInv
<1> SUFFICES ASSUME Init PROVE IInv
  OBVIOUS
<1> USE LightClientAssumption
<1>1. PICK b \in BootSlots \cap 0..clock : lc = LightClientNew(b)
  BY DEF Init
<1>2. b \in 0..MaxSlot /\ clock \in 0..MaxSlot
  BY <1>1 DEF Init
<1>3. Period(b) \in Committees
  <2>1. Period(b) \in 0..MaxPeriod /\ MaxPeriod \in Nat
    BY <1>2, PeriodRange, PeriodMono DEF MaxPeriod
  <2>. QED
    BY <2>1 DEF Committees
<1>4. LCTypeOK
  <2>1. Canon(b) \in Headers
    BY <1>2 DEF Canon, Headers
  <2>2. LightClientNew(b).lcs \in Stores
    BY <1>3, <2>1 DEF LightClientNew, Stores
  <2>3. LightClientNew(b) \in [lcs : Stores, network : {Network}]
    BY <2>2 DEF LightClientNew
  <2>. QED
    BY <1>1, <1>2, <2>3 DEF Init, LCTypeOK
<1>5. StoreSound
  BY <1>1 DEF StoreSound, LightClientNew, Canon
<1>. QED
  BY <1>4, <1>5 DEF IInv

(* Every step keeps the store in its type and sound.                       *)
LEMMA NextIInv == IInv /\ [Next]_lcVars => IInv'
<1> SUFFICES ASSUME IInv, [Next]_lcVars PROVE IInv'
  OBVIOUS
<1> USE LightClientAssumption
<1>1. /\ lc \in Clients /\ clock \in 0..MaxSlot /\ halted \in BOOLEAN
      /\ SoundStore(lc.lcs)
  BY DEF IInv, LCTypeOK, Clients, StoreSound, SoundStore
<1>2. ASSUME NEW u \in Updates, Update(u) PROVE IInv'
  <2> DEFINE e == (NowSeconds - lc.network[3]) \div SecondsPerSlot
             t == ApplyGeneric(lc.lcs, u)
  <2>1. VerifyGeneric(lc.lcs, u, e) /\ lc' = [lc EXCEPT !.lcs = t]
        /\ clock' = clock /\ halted' = halted
    BY <1>2 DEF Update
  <2>2. t \in Stores /\ SoundStore(t)
    BY <1>1, <2>1, ApplyFacts DEF Clients
  <2>. QED
    BY <1>1, <2>1, <2>2 DEF IInv, LCTypeOK, Clients, StoreSound, SoundStore
<1>3. CASE UpdatePanics
  BY <1>1, <1>3 DEF UpdatePanics, IInv, LCTypeOK, StoreSound, Clients
<1>4. CASE FlushLoad
  BY <1>1, <1>4, RoundTrip DEF FlushLoad, IInv, LCTypeOK, StoreSound
<1>5. CASE Tick
  BY <1>1, <1>5 DEF Tick, IInv, LCTypeOK, StoreSound, Clients
<1>6. CASE UNCHANGED lcVars
  BY <1>6 DEF lcVars, IInv, LCTypeOK, StoreSound
<1>. QED
  BY <1>2, <1>3, <1>4, <1>5, <1>6 DEF Next

(* The client is always of its type: a committee count never leaves       *)
(* 0..CommitteeSize and a header never leaves the slots that have come.    *)
THEOREM LCTypeCorrect == Spec => []LCTypeOK
BY InitIInv, NextIInv, PTL DEF Spec, IInv

(* The store never trusts an attacker holding a committee's keys: for     *)
(* every period length, committee size and finality lag, update's verify   *)
(* and apply keep the finalized and optimistic headers canonical and the   *)
(* committees the honest ones of the finalized header's periods.           *)
THEOREM StoreSoundHolds == Spec => []StoreSound
BY InitIInv, NextIInv, PTL DEF Spec, IInv

(* State::flush then State::load gives back the client on every state it  *)
(* reaches.                                                                *)
THEOREM CodecRoundTripHolds == Spec => []CodecRoundTrip
<1>1. IInv => CodecRoundTrip
  BY RoundTrip DEF IInv, LCTypeOK, Clients, CodecRoundTrip
<1>. QED
  BY <1>1, InitIInv, NextIInv, PTL DEF Spec

(* slot() and state_root() implement LightClientSpec: an update that     *)
(* verifies either leaves the finalized header alone or replaces it with a *)
(* later canonical header of a past slot; flush and load, a panic and time  *)
(* passing do not touch it.                                                *)
THEOREM Refinement == Spec => AbsRefined
<1> USE LightClientAssumption
<1> DEFINE fin == [slot |-> Slot, root |-> StateRoot]
<1>1. Init => Abs!AbsInit
  <2> SUFFICES ASSUME Init PROVE Abs!AbsInit
    OBVIOUS
  <2>1. PICK b \in BootSlots \cap 0..clock : lc = LightClientNew(b)
    BY DEF Init
  <2>. QED
    BY <2>1 DEF Init, Abs!AbsInit, Abs!Canon, Slot, StateRoot, LightClientNew, Canon
<1>2. IInv /\ [Next]_lcVars => [Abs!AbsNext]_<<fin, clock>>
  <2> SUFFICES ASSUME IInv, [Next]_lcVars PROVE [Abs!AbsNext]_<<fin, clock>>
    OBVIOUS
  <2>1. /\ lc \in Clients /\ clock \in 0..MaxSlot /\ SoundStore(lc.lcs)
    BY DEF IInv, LCTypeOK, Clients, StoreSound, SoundStore
  <2>2. ASSUME NEW u \in Updates, Update(u) PROVE [Abs!AbsNext]_<<fin, clock>>
    <3> DEFINE e == (NowSeconds - lc.network[3]) \div SecondsPerSlot
               t == ApplyGeneric(lc.lcs, u)
    <3>1. VerifyGeneric(lc.lcs, u, e) /\ lc' = [lc EXCEPT !.lcs = t]
          /\ clock' = clock
      BY <2>2 DEF Update
    <3>2. /\ u.fin.root = "canon" /\ u.fin.slot \in 0..MaxSlot
          /\ \/ t.fin = lc.lcs.fin
             \/ t.fin = u.fin /\ lc.lcs.fin.slot < u.fin.slot /\ u.fin.slot <= clock
      BY <2>1, <3>1, ApplyFacts, VerifyFacts DEF Clients, Updates, Headers
    <3>3. lc'.lcs = t
      BY <2>1, <3>1 DEF Clients
    <3>4. CASE t.fin = lc.lcs.fin
      BY <3>1, <3>3, <3>4 DEF Slot, StateRoot
    <3>5. CASE t.fin = u.fin /\ lc.lcs.fin.slot < u.fin.slot /\ u.fin.slot <= clock
      <4>1. Abs!AbsFinalize(u.fin.slot)
        BY <3>1, <3>2, <3>3, <3>5 DEF Abs!AbsFinalize, Abs!Canon, Slot, StateRoot
      <4>. QED
        BY <3>2, <4>1 DEF Abs!AbsNext
    <3>. QED
      BY <3>2, <3>4, <3>5
  <2>3. CASE UpdatePanics
    BY <2>3 DEF UpdatePanics, Slot, StateRoot
  <2>4. CASE FlushLoad
    BY <2>1, <2>4, RoundTrip DEF FlushLoad, Slot, StateRoot
  <2>5. CASE Tick
    BY <2>5 DEF Tick, Abs!AbsNext, Abs!AbsTick, Slot, StateRoot
  <2>6. CASE UNCHANGED lcVars
    BY <2>6 DEF lcVars, Slot, StateRoot
  <2>. QED
    BY <2>2, <2>3, <2>4, <2>5, <2>6 DEF Next
<1>. QED
  BY <1>1, <1>2, InitIInv, NextIInv, PTL DEF Spec, AbsRefined, Abs!AbsSpec
====
