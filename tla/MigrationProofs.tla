--------------------------- MODULE MigrationProofs --------------------------
(***************************************************************************)
(* Theorems about Migration, for every number of commits a block takes and *)
(* of changes of the directory, when the power fails at most once.         *)
(*                                                                         *)
(* IInv joins what the blocks and the copies that littlefs_migrate leaves  *)
(* of them hold: always one that is readable, and both until the first cut *)
(* (CopyInv); those already visited are accepted by this build (PatchInv); *)
(* the one that counts is the last directory committed (LatestInv).  A     *)
(* block that is being rewritten is in none of the blocks, only in the     *)
(* buffer, so the invariants speak of Copies, the flash as it will be.     *)
(***************************************************************************)
EXTENDS Migration, SequenceTheorems, WellFoundedInduction, TLAPS

Commit == [files : Nat, super : BOOLEAN, compat : BOOLEAN, crc : BOOLEAN]
Block  == [rev : Nat, commits : Seq(Commit)]

LEMMA SmallestExists ==
    ASSUME NEW S \in SUBSET Nat, S # {}
    PROVE  \E i \in S : \A j \in S : i <= j
<1> DEFINE R == OpToRel(<, Nat)
<1>1. IsWellFoundedOn(R, Nat)
  BY NatLessThanWellFounded, Zenon
<1> HIDE DEF R
<1>2. PICK i \in S : \A j \in S : <<j, i>> \notin R
  BY <1>1, WFMin, Zenon
<1>3. \A j \in S : ~(j < i)
  BY <1>2 DEF R, OpToRel
<1> QED
  BY <1>3

LEMMA LargestExists ==
    ASSUME NEW n \in Nat, NEW S \in SUBSET (1 .. n), S # {}
    PROVE  \E i \in S : \A j \in S : i >= j
<1> DEFINE U == {k \in Nat : \A j \in S : j <= k}
<1>1. n \in U
  OBVIOUS
<1>2. PICK m \in U : \A k \in U : m <= k
  <2>1. U \in SUBSET Nat /\ U # {}
    BY <1>1
  <2> HIDE DEF U
  <2> QED
    BY <2>1, SmallestExists
<1>3. m \in S
  <2> SUFFICES ASSUME m \notin S PROVE FALSE
    OBVIOUS
  <2>1. m \in Nat /\ \A j \in S : j <= m /\ j \in Nat /\ j >= 1
    BY <1>2
  <2>2. \A j \in S : j <= m - 1
    BY <2>1
  <2>3. m - 1 \in U
    <3>1. PICK j \in S : TRUE
      OBVIOUS
    <3>2. m - 1 \in Nat
      BY <2>1, <3>1
    <3> QED
      BY <2>2, <3>2
  <2> QED
    BY <1>2, <2>1, <2>3
<1> QED
  BY <1>2, <1>3

-----------------------------------------------------------------------------
(* Commits that verify. *)

IsVerified(b, n) ==
    /\ n \in 0 .. Len(b.commits)
    /\ \A i \in 1 .. n : b.commits[i].crc
    /\ n = Len(b.commits) \/ ~b.commits[n + 1].crc

LEMMA BlockFields ==
    ASSUME NEW b \in Block
    PROVE  /\ b.rev \in Nat /\ b.commits \in Seq(Commit) /\ Len(b.commits) \in Nat
           /\ DOMAIN b.commits = 1 .. Len(b.commits)
           /\ \A i \in 1 .. Len(b.commits) : b.commits[i] \in Commit
<1>1. b.rev \in Nat /\ b.commits \in Seq(Commit)
  BY DEF Block
<1> QED
  BY <1>1, LenProperties, ElementOfSeq

LEMMA VerifiedExists ==
    ASSUME NEW b \in Block
    PROVE  \E n \in 0 .. Len(b.commits) : IsVerified(b, n)
<1> DEFINE bad == {i \in 1 .. Len(b.commits) : ~b.commits[i].crc}
<1>0. Len(b.commits) \in Nat
  BY BlockFields
<1>1. CASE bad = {}
  BY <1>0, <1>1 DEF IsVerified
<1>2. CASE bad # {}
  <2>1. PICK k \in bad : \A j \in bad : k <= j
    <3>1. bad \in SUBSET Nat
      BY <1>0
    <3> HIDE DEF bad
    <3> QED
      BY <1>2, <3>1, SmallestExists
  <2>2. k - 1 \in 0 .. Len(b.commits) /\ k - 1 + 1 = k
    BY <1>0, <2>1
  <2>3. \A i \in 1 .. (k - 1) : b.commits[i].crc
    BY <1>0, <2>1
  <2>4. IsVerified(b, k - 1)
    BY <2>1, <2>2, <2>3 DEF IsVerified
  <2> QED
    BY <2>2, <2>4
<1> QED
  BY <1>1, <1>2

LEMMA VerifiedProps ==
    ASSUME NEW b \in Block
    PROVE  IsVerified(b, Verified(b)) /\ Verified(b) \in Nat
<1>1. IsVerified(b, Verified(b))
  BY VerifiedExists DEF IsVerified, Verified
<1>2. Len(b.commits) \in Nat
  BY BlockFields
<1> QED
  BY <1>1, <1>2 DEF IsVerified

LEMMA VerifiedIs ==
    ASSUME NEW b \in Block, NEW n, IsVerified(b, n)
    PROVE  Verified(b) = n
<1> DEFINE m == Verified(b)
<1>1. IsVerified(b, m) /\ m \in Nat /\ n \in Nat /\ Len(b.commits) \in Nat
  BY VerifiedProps, BlockFields DEF IsVerified
<1> HIDE DEF m
<1>2. ~(m < n)
  BY <1>1 DEF IsVerified
<1>3. ~(n < m)
  BY <1>1 DEF IsVerified
<1>4. m = n
  BY <1>1, <1>2, <1>3
<1> QED
  BY <1>4 DEF m

(* Superblock structs. *)
Starts(b)  == b.commits # <<>> => b.commits[1].super
Patched(b) == Readable(b) => b.commits[LocateSuperblock(b)].compat

LEMMA LocateProps ==
    ASSUME NEW b \in Block, Supers(b) # {}
    PROVE  /\ LocateSuperblock(b) \in Supers(b) /\ LocateSuperblock(b) = Max(Supers(b))
           /\ LocateSuperblock(b) \in 1 .. Len(b.commits) /\ LocateSuperblock(b) # 0
<1>1. Len(b.commits) \in Nat /\ Verified(b) \in Nat /\ Verified(b) <= Len(b.commits)
  BY BlockFields, VerifiedProps DEF IsVerified
<1>2. Supers(b) \in SUBSET (1 .. Verified(b))
  BY DEF Supers
<1>3. Max(Supers(b)) \in Supers(b)
  BY <1>1, <1>2, LargestExists DEF Max
<1> QED
  BY <1>1, <1>2, <1>3 DEF LocateSuperblock

LEMMA ReadableHasSuper ==
    ASSUME NEW b \in Block, Starts(b), Readable(b)
    PROVE  1 \in Supers(b) /\ Supers(b) # {}
<1>1. Len(b.commits) \in Nat /\ Verified(b) \in Nat /\ Verified(b) <= Len(b.commits)
  BY BlockFields, VerifiedProps DEF IsVerified
<1>2. Verified(b) >= 1 /\ Len(b.commits) >= 1
  BY <1>1 DEF Readable
<1>3. b.commits # <<>>
  BY <1>2
<1> QED
  BY <1>2, <1>3 DEF Supers, Starts

-----------------------------------------------------------------------------
(* Blocks that grow by a commit, and torn ones.                               *)
Extended(b, c) == [b EXCEPT !.commits = Append(@, c)]
Dir(b) == b.commits[Verified(b)].files

LEMMA FreshType ==
    ASSUME NEW f \in Nat
    PROVE  /\ Fresh(f) \in Commit /\ Fresh(f).files = f /\ Fresh(f).super /\ Fresh(f).crc
           /\ (core = 3 => Fresh(f).compat)
BY DEF Fresh, Commit

LEMMA FreshWith ==
    ASSUME NEW f \in Nat, NEW s \in BOOLEAN
    PROVE  LET c == [Fresh(f) EXCEPT !.super = s]
           IN  c \in Commit /\ c.files = f /\ c.crc
BY DEF Fresh, Commit

LEMMA FreshBad ==
    ASSUME NEW f \in Nat
    PROVE  LET c == [Fresh(f) EXCEPT !.crc = FALSE]
           IN  c \in Commit /\ ~c.crc /\ c.super
BY DEF Fresh, Commit

LEMMA ExtendedType ==
    ASSUME NEW b \in Block, NEW c \in Commit
    PROVE  /\ Extended(b, c) \in Block /\ Extended(b, c).rev = b.rev
           /\ Extended(b, c).commits = Append(b.commits, c)
           /\ Len(Extended(b, c).commits) = Len(b.commits) + 1
           /\ \A i \in 1 .. Len(b.commits) : Extended(b, c).commits[i] = b.commits[i]
           /\ Extended(b, c).commits[Len(b.commits) + 1] = c
           /\ Extended(b, c).commits # <<>>
<1>1. b.rev \in Nat /\ b.commits \in Seq(Commit)
  BY BlockFields
<1>2. Append(b.commits, c) \in Seq(Commit)
  BY <1>1, AppendProperties
<1>3. /\ Extended(b, c).rev = b.rev /\ Extended(b, c).commits = Append(b.commits, c)
      /\ Extended(b, c) \in Block
  BY <1>1, <1>2 DEF Extended, Block
<1> QED
  BY <1>1, <1>3, AppendProperties

LEMMA ExtendedStarts ==
    ASSUME NEW b \in Block, NEW c \in Commit, Starts(b), b.commits # <<>> \/ c.super
    PROVE  Starts(Extended(b, c))
<1>1. b.commits \in Seq(Commit) /\ Len(b.commits) \in Nat
  BY BlockFields
<1>2. CASE b.commits = <<>>
  <2>1. Len(b.commits) = 0
    BY <1>2
  <2> QED
    BY <1>2, <2>1, ExtendedType DEF Starts
<1>3. CASE b.commits # <<>>
  <2>1. 1 \in 1 .. Len(b.commits)
    BY <1>1, <1>3, EmptySeq
  <2> QED
    BY <1>3, <2>1, ExtendedType DEF Starts
<1> QED
  BY <1>2, <1>3

(* One more commit on a whole block is what is mounted, and a torn one is not. *)
LEMMA ExtendedGood ==
    ASSUME NEW b \in Block, NEW c \in Commit, Whole(b), c.crc
    PROVE  /\ Verified(Extended(b, c)) = Len(b.commits) + 1
           /\ Readable(Extended(b, c)) /\ Dir(Extended(b, c)) = c.files
<1>1. Len(b.commits) \in Nat /\ \A i \in 1 .. Len(b.commits) : b.commits[i].crc
  BY BlockFields, VerifiedProps DEF Whole, IsVerified
<1>2. IsVerified(Extended(b, c), Len(b.commits) + 1)
  <2>1. ASSUME NEW i \in 1 .. (Len(b.commits) + 1) PROVE Extended(b, c).commits[i].crc
    <3>1. CASE i \in 1 .. Len(b.commits)
      BY <1>1, <3>1, ExtendedType
    <3>2. CASE i = Len(b.commits) + 1
      BY <3>2, ExtendedType
    <3> QED
      BY <1>1, <3>1, <3>2
  <2> QED
    BY <1>1, <2>1, ExtendedType DEF IsVerified
<1>3. Verified(Extended(b, c)) = Len(b.commits) + 1
  BY <1>2, ExtendedType, VerifiedIs
<1> QED
  BY <1>1, <1>3, ExtendedType DEF Readable, Dir

LEMMA ExtendedBad ==
    ASSUME NEW b \in Block, NEW c \in Commit, Whole(b), ~c.crc
    PROVE  /\ Verified(Extended(b, c)) = Verified(b)
           /\ Readable(Extended(b, c)) = Readable(b)
           /\ Readable(b) => Dir(Extended(b, c)) = Dir(b)
<1>1. /\ Len(b.commits) \in Nat /\ Verified(b) = Len(b.commits)
      /\ \A i \in 1 .. Len(b.commits) : b.commits[i].crc
  BY BlockFields, VerifiedProps DEF Whole, IsVerified
<1>2. IsVerified(Extended(b, c), Len(b.commits))
  <2> DEFINE e == Extended(b, c).commits
             n == Len(b.commits)
  <2>1. Len(e) = n + 1 /\ e[n + 1] = c /\ \A i \in 1 .. n : e[i] = b.commits[i]
    BY <1>1, ExtendedType
  <2> HIDE DEF e
  <2>2. n \in 0 .. Len(e) /\ (\A i \in 1 .. n : e[i].crc) /\ ~e[n + 1].crc
    BY <1>1, <2>1
  <2> QED
    BY <2>2 DEF IsVerified, e
<1>3. Verified(Extended(b, c)) = Len(b.commits)
  BY <1>2, ExtendedType, VerifiedIs
<1> QED
  BY <1>1, <1>3, ExtendedType DEF Readable, Dir

LEMMA SingleType ==
    ASSUME NEW r \in Nat, NEW c \in Commit, c.super, c.crc
    PROVE  LET s == [rev |-> r, commits |-> <<c>>]
           IN  s \in Block /\ Starts(s) /\ Readable(s) /\ Dir(s) = c.files /\ Verified(s) = 1 /\ s.rev = r
<1> DEFINE s == [rev |-> r, commits |-> <<c>>]
<1>1. <<c>> \in Seq(Commit) /\ Len(<<c>>) = 1 /\ <<c>>[1] = c
  OBVIOUS
<1>2. s \in Block /\ s.commits = <<c>> /\ s.rev = r
  BY <1>1 DEF Block
<1> HIDE DEF s
<1>3. IsVerified(s, 1)
  BY <1>1, <1>2 DEF IsVerified
<1>4. Verified(s) = 1
  BY <1>2, <1>3, VerifiedIs
<1>5. Starts(s) /\ Readable(s) /\ Dir(s) = c.files
  BY <1>1, <1>2, <1>4 DEF Starts, Readable, Dir
<1> QED
  BY <1>2, <1>4, <1>5 DEF s

LEMMA ErasedType ==
    Erased \in Block /\ Starts(Erased) /\ ~Readable(Erased) /\ Erased.rev = 0 /\ Whole(Erased)
<1>1. Erased \in Block /\ Erased.commits = <<>> /\ Len(Erased.commits) = 0 /\ Erased.rev = 0
  BY DEF Erased, Block
<1>2. IsVerified(Erased, 0)
  BY <1>1 DEF IsVerified
<1>3. Verified(Erased) = 0
  BY <1>1, <1>2, VerifiedIs
<1> QED
  BY <1>1, <1>3 DEF Starts, Readable, Whole

LEMMA TornType ==
    ASSUME NEW b \in Block, Starts(b), NEW t \in Torn(b)
    PROVE  t \in Block /\ Starts(t) /\ t.rev = b.rev
<1>1. PICK n \in 0 .. Len(b.commits) : t = [b EXCEPT !.commits = SubSeq(@, 1, n)]
  BY DEF Torn
<1>2. b.rev \in Nat /\ b.commits \in Seq(Commit) /\ Len(b.commits) \in Nat
      /\ \A i \in 1 .. Len(b.commits) : b.commits[i] \in Commit
  BY BlockFields
<1> DEFINE s == SubSeq(b.commits, 1, n)
<1>3. n \in Int /\ 1 \in Int /\ \A i \in 1 .. n : b.commits[i] \in Commit
  BY <1>2
<1>4. /\ s \in Seq(Commit) /\ Len(s) = IF 1 <= n THEN n - 1 + 1 ELSE 0
      /\ \A i \in 1 .. (n - 1 + 1) : s[i] = b.commits[1 + i - 1]
  BY <1>3, SubSeqProperties
<1>5. t.rev = b.rev /\ t.commits = s /\ t \in Block
  BY <1>1, <1>2, <1>4 DEF Block
<1> HIDE DEF s
<1>6. Starts(t)
  <2> SUFFICES ASSUME t.commits # <<>> PROVE t.commits[1].super
    BY DEF Starts
  <2>1. Len(s) # 0
    BY <1>4, <1>5, EmptySeq
  <2>2. n >= 1
    BY <1>3, <1>4, <2>1
  <2>3. s[1] = b.commits[1] /\ b.commits # <<>>
    BY <1>2, <1>3, <1>4, <2>2
  <2> QED
    BY <1>5, <2>3 DEF Starts
<1> QED
  BY <1>5, <1>6

-----------------------------------------------------------------------------
(* Patching the last superblock struct changes nothing else. *)
LEMMA PatchedType ==
    ASSUME NEW b \in Block, Starts(b), ToPatch(b)
    PROVE  /\ PatchedBlock(b) \in Block /\ PatchedBlock(b).rev = b.rev /\ Starts(PatchedBlock(b))
           /\ Readable(PatchedBlock(b)) = Readable(b) /\ Patched(PatchedBlock(b))
           /\ Readable(b) => Dir(PatchedBlock(b)) = Dir(b)
<1> DEFINE k == LocateSuperblock(b)
           c == b.commits[k]
           d == [c EXCEPT !.compat = TRUE]
           s == [b.commits EXCEPT ![k] = d]
           p == PatchedBlock(b)
<1>1. /\ b.rev \in Nat /\ b.commits \in Seq(Commit) /\ Len(b.commits) \in Nat
      /\ \A i \in 1 .. Len(b.commits) : b.commits[i] \in Commit
  BY BlockFields
<1>2. Supers(b) # {} /\ k \in 1 .. Len(b.commits) /\ k = Max(Supers(b)) /\ k \in Supers(b)
  <2>1. Supers(b) # {}
    BY DEF ToPatch, LocateSuperblock
  <2> QED
    BY <2>1, LocateProps
<1>3. d \in Commit /\ d.files = c.files /\ d.super = c.super /\ d.crc = c.crc /\ d.compat
  <2>1. c \in Commit
    BY <1>1, <1>2
  <2> HIDE DEF c
  <2> QED
    BY <2>1 DEF Commit
<1> HIDE DEF d
<1>4. s \in Seq(Commit) /\ Len(s) = Len(b.commits)
      /\ \A i \in 1 .. Len(b.commits) : s[i] = IF i = k THEN d ELSE b.commits[i]
  BY <1>1, <1>2, <1>3, ExceptSeq
<1>5. p = [b EXCEPT !.commits = s]
  BY <1>1 DEF PatchedBlock, d
<1> HIDE DEF s, p, k
<1>6. p \in Block /\ p.rev = b.rev /\ p.commits = s
  BY <1>1, <1>4, <1>5 DEF Block
<1>7. \A i \in 1 .. Len(b.commits) : /\ s[i].files = b.commits[i].files
                                     /\ s[i].super = b.commits[i].super
                                     /\ s[i].crc = b.commits[i].crc
  BY <1>3, <1>4
<1>8. Verified(p) = Verified(b) /\ Verified(b) \in Nat /\ Verified(b) <= Len(b.commits)
  <2>1. IsVerified(b, Verified(b)) /\ Verified(b) \in Nat
    BY VerifiedProps
  <2>2. IsVerified(p, Verified(b))
    <3>1. Verified(b) \in 0 .. Len(p.commits)
      BY <1>4, <1>6, <2>1 DEF IsVerified
    <3>2. \A i \in 1 .. Verified(b) : p.commits[i].crc
      BY <1>1, <1>6, <1>7, <2>1 DEF IsVerified
    <3>3. Verified(b) = Len(p.commits) \/ ~p.commits[Verified(b) + 1].crc
      <4>1. CASE Verified(b) = Len(b.commits)
        BY <1>4, <1>6, <4>1
      <4>2. CASE Verified(b) # Len(b.commits)
        <5>1. Verified(b) + 1 \in 1 .. Len(b.commits)
          BY <1>1, <2>1, <4>2 DEF IsVerified
        <5> QED
          BY <1>6, <1>7, <2>1, <4>2, <5>1 DEF IsVerified
      <4> QED
        BY <4>1, <4>2
    <3> QED
      BY <3>1, <3>2, <3>3 DEF IsVerified
  <2> QED
    BY <1>1, <1>6, <2>1, <2>2, VerifiedIs DEF IsVerified
<1>9. Supers(p) = Supers(b)
  BY <1>1, <1>6, <1>7, <1>8 DEF Supers
<1>10. LocateSuperblock(p) = k
  BY <1>2, <1>9 DEF LocateSuperblock
<1>11. Patched(p)
  BY <1>2, <1>3, <1>4, <1>6, <1>10 DEF Patched
<1>12. Starts(p)
  <2> SUFFICES ASSUME p.commits # <<>> PROVE p.commits[1].super
    BY DEF Starts
  <2>1. 1 \in 1 .. Len(b.commits)
    BY <1>1, <1>2
  <2>2. b.commits # <<>>
    BY <2>1
  <2> QED
    BY <1>6, <1>7, <2>1, <2>2 DEF Starts
<1>13. Readable(p) = Readable(b)
  BY <1>8 DEF Readable
<1>14. Readable(b) => Dir(p) = Dir(b)
  <2>1. Readable(b) => Verified(b) \in 1 .. Len(b.commits)
    BY <1>1, <1>8 DEF Readable
  <2> QED
    BY <1>6, <1>7, <1>8, <2>1 DEF Dir
<1> QED
  BY <1>6, <1>11, <1>12, <1>13, <1>14 DEF p

-----------------------------------------------------------------------------
(* The block that counts. *)

Blocks == [Pair -> Block]
Lead(bs, b) == Readable(bs[b]) /\ (Readable(bs[Other(b)]) => bs[Other(b)].rev < bs[b].rev)
Apart(bs)   == Readable(bs[0]) /\ Readable(bs[1]) => bs[0].rev # bs[1].rev

LEMMA PairOther ==
    /\ \A b \in Pair : Other(b) \in Pair /\ Other(b) # b /\ Other(Other(b)) = b
    /\ \A b, c \in Pair : c = b \/ c = Other(b)
    /\ 0 \in Pair /\ 1 \in Pair /\ Other(0) = 1 /\ Other(1) = 0
    /\ \A b \in Pair : b = 0 \/ b = 1
BY DEF Pair, Other

LEMMA LeadIsNewest ==
    ASSUME NEW bs \in Blocks, NEW b \in Pair, Lead(bs, b)
    PROVE  Newest(bs) = b
<1>1. bs[b].rev \in Nat /\ bs[Other(b)].rev \in Nat
  BY PairOther, BlockFields DEF Blocks
<1>2. Readable(bs[b]) /\ \A c \in Pair : Readable(bs[c]) => bs[c].rev <= bs[b].rev
  BY <1>1, PairOther DEF Lead
<1>3. \A d \in Pair : Readable(bs[d]) /\ (\A c \in Pair : Readable(bs[c]) => bs[c].rev <= bs[d].rev) => d = b
  BY <1>1, PairOther DEF Lead
<1> QED
  BY <1>2, <1>3 DEF Newest

LEMMA LeadExists ==
    ASSUME NEW bs \in Blocks, Apart(bs), \E b \in Pair : Readable(bs[b])
    PROVE  \E b \in Pair : Lead(bs, b)
<1>1. bs[0].rev \in Nat /\ bs[1].rev \in Nat
  BY PairOther, BlockFields DEF Blocks
<1>2. CASE Readable(bs[0]) /\ Readable(bs[1])
  <2>1. bs[0].rev < bs[1].rev \/ bs[1].rev < bs[0].rev
    BY <1>1, <1>2 DEF Apart
  <2> QED
    BY <1>2, <2>1, PairOther DEF Lead
<1>3. CASE ~(Readable(bs[0]) /\ Readable(bs[1]))
  BY <1>3, PairOther DEF Lead
<1> QED
  BY <1>2, <1>3

LEMMA NewestLeads ==
    ASSUME NEW bs \in Blocks, Apart(bs), \E b \in Pair : Readable(bs[b])
    PROVE  Newest(bs) \in Pair /\ Lead(bs, Newest(bs)) /\ Mounted(bs) = Dir(bs[Newest(bs)])
<1>1. PICK b \in Pair : Lead(bs, b)
  BY LeadExists
<1>2. Newest(bs) = b
  BY <1>1, LeadIsNewest
<1> QED
  BY <1>1, <1>2 DEF Mounted, Dir

(* What is mounted depends on the revision, the readability and the directory *)
(* of the blocks only.                                                       *)
LEMMA MountedSame ==
    ASSUME NEW bs \in Blocks, NEW cs \in Blocks, Apart(bs), \E b \in Pair : Readable(bs[b]),
           \A b \in Pair : /\ cs[b].rev = bs[b].rev /\ Readable(cs[b]) = Readable(bs[b])
                           /\ Readable(bs[b]) => Dir(cs[b]) = Dir(bs[b])
    PROVE  Apart(cs) /\ Mounted(cs) = Mounted(bs) /\ Newest(cs) = Newest(bs)
<1>1. PICK b \in Pair : Lead(bs, b)
  BY LeadExists
<1>2. Lead(cs, b) /\ Apart(cs)
  BY <1>1, PairOther DEF Lead, Apart
<1>3. Newest(bs) = b /\ Newest(cs) = b
  BY <1>1, <1>2, LeadIsNewest
<1>4. Dir(cs[b]) = Dir(bs[b])
  BY <1>1 DEF Lead
<1> QED
  BY <1>2, <1>3, <1>4 DEF Mounted, Dir

-----------------------------------------------------------------------------
(* The inductive invariant, and the steps of EMSESP::start.                    *)
(* The flash as it is, with the block that is being rewritten as it will be.  *)
Copies == [b \in Pair |-> IF pc = "write" /\ b = block THEN buf ELSE blocks[b]]

Typed ==
    /\ blocks \in Blocks /\ buf \in Block /\ block \in Pair
    /\ pc \in {"off", "running", "patch", "write", "mount"}
    /\ files \in Nat /\ latest \in Nat /\ writes \in Nat /\ cuts \in Nat
    /\ pc = "write" => blocks[block] = Erased

(* Before the first cut both copies are readable, and one always is.          *)
CopyInv ==
    /\ \A b \in Pair : Starts(Copies[b])
    /\ \E b \in Pair : Readable(Copies[b])
    /\ cuts = 0 => \A b \in Pair : Readable(Copies[b])

(* The blocks littlefs_migrate has been at are accepted.                      *)
PatchInv ==
    /\ pc = "mount" => \A b \in Pair : Patched(blocks[b])
    /\ pc \in {"patch", "write"} /\ block = 1 => Patched(blocks[0])
    /\ pc = "write" => Patched(buf)

(* The copy that counts is the last directory that was committed.             *)
LatestInv ==
    /\ Apart(Copies)
    /\ ~atRisk => Mounted(Copies) = latest
    /\ LatestKept

IInv == Typed /\ NeverFormatted /\ CopyInv /\ PatchInv /\ LatestInv

LEMMA CopiesType ==
    ASSUME Typed
    PROVE  /\ Copies \in Blocks
           /\ pc # "write" => Copies = blocks
           /\ \A b \in Pair : Copies[b] \in Block
BY DEF Typed, Copies, Blocks

LEMMA SameCopies ==
    ASSUME CopyInv, LatestInv, Copies' = Copies, UNCHANGED <<cuts, latest, atRisk>>, LatestKept'
    PROVE  CopyInv' /\ LatestInv'
BY DEF CopyInv, LatestInv

(* A file system in use has a block that counts.                              *)
LEMMA InUse ==
    ASSUME IInv, pc # "write"
    PROVE  /\ Copies = blocks /\ blocks \in Blocks /\ Apart(blocks)
           /\ \E b \in Pair : Readable(blocks[b])
           /\ Newest(blocks) \in Pair /\ Lead(blocks, Newest(blocks))
           /\ Mounted(blocks) = Dir(blocks[Newest(blocks)])
           /\ \A b \in Pair : Starts(blocks[b]) /\ blocks[b] \in Block
           /\ ~atRisk => Mounted(blocks) = latest
<1>1. Copies = blocks /\ blocks \in Blocks /\ Apart(blocks)
      /\ (\E b \in Pair : Readable(blocks[b])) /\ (\A b \in Pair : Starts(blocks[b]))
      /\ (~atRisk => Mounted(blocks) = latest)
  BY CopiesType DEF IInv, CopyInv, LatestInv, Typed
<1>2. \A b \in Pair : blocks[b] \in Block
  BY <1>1 DEF Blocks
<1> QED
  BY <1>1, <1>2, NewestLeads

LEMMA DirNat ==
    ASSUME NEW b \in Block, Readable(b)
    PROVE  Dir(b) \in Nat
<1>1. Verified(b) \in 1 .. Len(b.commits)
  BY VerifiedProps, BlockFields DEF IsVerified, Readable
<1> QED
  BY <1>1, BlockFields DEF Dir, Commit

LEMMA MountedNat ==
    ASSUME IInv, pc # "write"
    PROVE  Mounted(blocks) \in Nat
BY InUse, DirNat DEF Lead

LEMMA RunKeeps ==
    ASSUME IInv, pc # "write", Run(blocks), UNCHANGED <<blocks, latest, atRisk>>
    PROVE  LatestKept' /\ files' \in Nat /\ pc' = "running"
BY InUse, MountedNat DEF Run, LatestKept

LEMMA StartKeeps == IInv /\ Start => IInv'
<1> SUFFICES ASSUME IInv, Start PROVE IInv'
  OBVIOUS
<1>1. pc = "off" /\ UNCHANGED <<blocks, core, buf, latest, atRisk, formatted, writes, cuts>>
  BY DEF Start, history
<1>2. Typed /\ CopyInv /\ LatestInv /\ NeverFormatted
  BY DEF IInv
<1>3. CASE Run(blocks) /\ UNCHANGED block
  <2>1. LatestKept' /\ files' \in Nat /\ pc' = "running"
    BY <1>1, <1>3, RunKeeps
  <2>2. Copies' = Copies
    BY <1>1, <1>3, <2>1 DEF Copies
  <2> QED
    BY <1>1, <1>2, <1>3, <2>1, <2>2, SameCopies DEF IInv, Typed, PatchInv, NeverFormatted
<1>4. CASE pc' = "patch" /\ block' = 0 /\ UNCHANGED files
  <2>1. Copies' = Copies
    BY <1>1, <1>4 DEF Copies
  <2> QED
    BY <1>1, <1>2, <1>4, <2>1, SameCopies, PairOther DEF IInv, Typed, PatchInv, NeverFormatted, LatestKept
<1> QED
  BY <1>3, <1>4 DEF Start

LEMMA NotToPatch ==
    ASSUME NEW b \in Block, Starts(b), ~ToPatch(b)
    PROVE  Patched(b)
BY ReadableHasSuper, LocateProps DEF ToPatch, Patched

LEMMA SkipKeeps == IInv /\ PatchSkip => IInv'
<1> SUFFICES ASSUME IInv, PatchSkip PROVE IInv'
  OBVIOUS
<1>1. pc = "patch" /\ UNCHANGED <<blocks, core, buf, files, latest, atRisk, formatted, writes, cuts>>
      /\ ~ToPatch(blocks[block]) /\ NextBlock
  BY DEF PatchSkip, history
<1>2. Typed /\ CopyInv /\ LatestInv /\ NeverFormatted /\ PatchInv
  BY DEF IInv
<1>3. Patched(blocks[block])
  BY <1>1, <1>2, InUse, NotToPatch DEF Typed
<1>4. pc' \in {"patch", "mount"} /\ block' \in Pair
  BY <1>1, <1>2 DEF NextBlock, Typed, Pair
<1>5. Copies' = Copies
  BY <1>1, <1>4 DEF Copies
<1>6. PatchInv'
  <2>1. CASE block = 0
    BY <1>1, <1>3, <2>1 DEF NextBlock, PatchInv
  <2>2. CASE block = 1
    BY <1>1, <1>2, <1>3, <2>2, PairOther DEF NextBlock, PatchInv
  <2> QED
    BY <1>2, <2>1, <2>2, PairOther DEF Typed
<1>7. LatestKept'
  BY <1>4 DEF LatestKept
<1> QED
  BY <1>1, <1>2, <1>4, <1>5, <1>6, <1>7, SameCopies DEF IInv, Typed, NeverFormatted

LEMMA EraseKeeps == IInv /\ PatchErase => IInv'
<1> SUFFICES ASSUME IInv, PatchErase PROVE IInv'
  OBVIOUS
<1>1. /\ pc = "patch" /\ pc' = "write" /\ ToPatch(blocks[block])
      /\ buf' = PatchedBlock(blocks[block]) /\ blocks' = [blocks EXCEPT ![block] = Erased]
      /\ UNCHANGED <<core, block, files, latest, atRisk, formatted, writes, cuts>>
  BY DEF PatchErase, BlockErased, history
<1>2. Typed /\ CopyInv /\ LatestInv /\ NeverFormatted /\ PatchInv /\ block \in Pair
  BY DEF IInv, Typed
<1>3. Copies = blocks /\ blocks \in Blocks /\ Apart(blocks) /\ (\E b \in Pair : Readable(blocks[b]))
      /\ (\A b \in Pair : Starts(blocks[b]) /\ blocks[b] \in Block)
  BY <1>1, InUse
<1>4. /\ buf' \in Block /\ buf'.rev = blocks[block].rev /\ Starts(buf') /\ Patched(buf')
      /\ Readable(buf') = Readable(blocks[block])
      /\ Readable(blocks[block]) => Dir(buf') = Dir(blocks[block])
  BY <1>1, <1>2, <1>3, PatchedType
<1>5. blocks' \in Blocks /\ blocks'[block] = Erased /\ \A b \in Pair : b # block => blocks'[b] = blocks[b]
  BY <1>1, <1>2, <1>3, ErasedType DEF Blocks
<1>6. Copies' \in Blocks /\ \A b \in Pair : Copies'[b] = IF b = block THEN buf' ELSE blocks[b]
  BY <1>1, <1>3, <1>4, <1>5 DEF Copies, Blocks
<1>7. Apart(Copies') /\ Mounted(Copies') = Mounted(blocks)
  <2>1. \A b \in Pair : /\ Copies'[b].rev = blocks[b].rev /\ Readable(Copies'[b]) = Readable(blocks[b])
                        /\ Readable(blocks[b]) => Dir(Copies'[b]) = Dir(blocks[b])
    BY <1>4, <1>6
  <2> QED
    BY <1>3, <1>6, <2>1, MountedSame
<1>8. CopyInv'
  BY <1>1, <1>2, <1>3, <1>4, <1>6 DEF CopyInv
<1>9. LatestInv'
  BY <1>1, <1>2, <1>3, <1>7 DEF LatestInv, LatestKept
<1>10. PatchInv'
  BY <1>1, <1>2, <1>4, <1>5, PairOther DEF PatchInv
<1>11. Typed'
  BY <1>1, <1>2, <1>4, <1>5 DEF Typed
<1> QED
  BY <1>1, <1>2, <1>8, <1>9, <1>10, <1>11 DEF IInv, NeverFormatted

LEMMA WriteBackKeeps == IInv /\ PatchWrite => IInv'
<1> SUFFICES ASSUME IInv, PatchWrite PROVE IInv'
  OBVIOUS
<1>1. /\ pc = "write" /\ blocks' = [blocks EXCEPT ![block] = buf] /\ NextBlock
      /\ UNCHANGED <<core, buf, files, latest, atRisk, formatted, writes, cuts>>
  BY DEF PatchWrite, history
<1>2. Typed /\ CopyInv /\ LatestInv /\ NeverFormatted /\ PatchInv /\ block \in Pair
      /\ blocks \in Blocks /\ buf \in Block
  BY DEF IInv, Typed
<1>3. pc' \in {"patch", "mount"} /\ block' \in Pair
  BY <1>1, <1>2 DEF NextBlock, Pair
<1>4. blocks' \in Blocks /\ \A b \in Pair : blocks'[b] = IF b = block THEN buf ELSE blocks[b]
  BY <1>1, <1>2 DEF Blocks
<1>5. Copies' = Copies
  BY <1>1, <1>3, <1>4 DEF Copies
<1>6. PatchInv'
  <2>1. Patched(blocks'[block])
    BY <1>1, <1>2, <1>4 DEF PatchInv
  <2>2. CASE block = 0
    BY <1>1, <2>1, <2>2 DEF NextBlock, PatchInv
  <2>3. CASE block = 1
    <3>1. Patched(blocks'[0])
      BY <1>1, <1>2, <1>4, <2>3, PairOther DEF PatchInv
    <3> QED
      BY <1>1, <2>1, <2>3, <3>1, PairOther DEF NextBlock, PatchInv
  <2> QED
    BY <1>2, <2>2, <2>3, PairOther
<1>7. LatestKept'
  BY <1>3 DEF LatestKept
<1> QED
  BY <1>1, <1>2, <1>3, <1>4, <1>5, <1>6, <1>7, SameCopies DEF IInv, Typed, NeverFormatted

(* Once both blocks are patched, the file system is mounted.                  *)
LEMMA MountKeeps == IInv /\ MountAgain => IInv'
<1> SUFFICES ASSUME IInv, MountAgain PROVE IInv'
  OBVIOUS
<1>1. pc = "mount" /\ UNCHANGED <<core, block, buf, atRisk, writes, cuts>>
  BY DEF MountAgain
<1>2. Typed /\ CopyInv /\ LatestInv /\ NeverFormatted /\ PatchInv
  BY DEF IInv
<1>3. Begun(blocks)
  <2>1. /\ Newest(blocks) \in Pair /\ Readable(blocks[Newest(blocks)])
        /\ \E b \in Pair : Readable(blocks[b])
        /\ blocks[Newest(blocks)] \in Block /\ Starts(blocks[Newest(blocks)])
    BY <1>1, InUse DEF Lead
  <2>2. Patched(blocks[Newest(blocks)])
    BY <1>1, <1>2, <2>1 DEF PatchInv
  <2>3. LocateSuperblock(blocks[Newest(blocks)]) = Max(Supers(blocks[Newest(blocks)]))
    BY <2>1, ReadableHasSuper, LocateProps
  <2> QED
    BY <2>1, <2>2, <2>3 DEF Begun, Mounts, Accepts, Patched
<1>4. Run(blocks) /\ UNCHANGED <<blocks, formatted, latest>>
  BY <1>3 DEF MountAgain
<1>5. LatestKept' /\ files' \in Nat /\ pc' = "running"
  BY <1>1, <1>4, RunKeeps
<1>6. Copies' = Copies
  BY <1>1, <1>4, <1>5 DEF Copies
<1> QED
  BY <1>1, <1>2, <1>4, <1>5, <1>6, SameCopies DEF IInv, Typed, PatchInv, NeverFormatted

LEMMA UpgradeKeeps == IInv /\ Upgrade => IInv'
<1> SUFFICES ASSUME IInv, Upgrade PROVE IInv'
  OBVIOUS
<1>1. pc = "running" /\ pc' = "off"
      /\ UNCHANGED <<blocks, block, buf, files, latest, atRisk, formatted, writes, cuts>>
  BY DEF Upgrade, history
<1>2. Copies' = Copies
  BY <1>1 DEF Copies
<1> QED
  BY <1>1, <1>2, SameCopies DEF IInv, Typed, PatchInv, NeverFormatted, LatestKept

-----------------------------------------------------------------------------
(* The file system in use, and power cuts.                                    *)
(* One block is written and from then on counts.                              *)
LEMMA LeadMounted ==
    ASSUME NEW bs \in Blocks, NEW b \in Pair, Lead(bs, b)
    PROVE  Mounted(bs) = Dir(bs[b]) /\ Apart(bs)
<1>1. Newest(bs) = b
  BY LeadIsNewest
<1>2. Apart(bs)
  <2>1. bs[0].rev \in Nat /\ bs[1].rev \in Nat
    BY PairOther, BlockFields DEF Blocks
  <2> QED
    BY <2>1, PairOther DEF Lead, Apart
<1> QED
  BY <1>1, <1>2 DEF Mounted, Dir

LEMMA WriteKeeps == IInv /\ Write => IInv'
<1> SUFFICES ASSUME IInv, Write PROVE IInv'
  OBVIOUS
<1>1. /\ pc = "running" /\ latest' = writes + 1 /\ files' = writes + 1 /\ writes' = writes + 1
      /\ UNCHANGED <<core, pc, block, buf, atRisk, formatted, cuts>>
  BY DEF Write
<1>2. Typed /\ CopyInv /\ LatestInv /\ NeverFormatted /\ PatchInv /\ writes \in Nat
  BY DEF IInv, Typed
<1> DEFINE b == Newest(blocks)
<1>3. /\ Copies = blocks /\ blocks \in Blocks /\ b \in Pair /\ Lead(blocks, b)
      /\ \A c \in Pair : Starts(blocks[c]) /\ blocks[c] \in Block
  BY <1>1, InUse
<1>4. Other(b) \in Pair /\ Other(b) # b /\ Other(Other(b)) = b /\ \A c \in Pair : c = b \/ c = Other(b)
  BY <1>3, PairOther
<1>5. blocks[b].rev \in Nat /\ Readable(blocks[b]) /\ blocks[b].commits # <<>>
  <2>1. blocks[b] \in Block /\ Readable(blocks[b])
    BY <1>3 DEF Lead
  <2>2. Len(blocks[b].commits) # 0
    BY <2>1, VerifiedProps, BlockFields DEF Readable, IsVerified
  <2>3. Len(<<>>) = 0
    OBVIOUS
  <2> QED
    BY <2>1, <2>2, <2>3, BlockFields, Zenon
<1>6. ASSUME NEW x \in Block, NEW d \in Pair, blocks' = [blocks EXCEPT ![d] = x],
             Starts(x), Readable(x), Dir(x) = writes + 1, Lead(blocks', d)
      PROVE  IInv'
  <2>1. blocks' \in Blocks /\ \A c \in Pair : blocks'[c] = IF c = d THEN x ELSE blocks[c]
    BY <1>3, <1>6 DEF Blocks
  <2>2. Copies' = blocks'
    BY <1>1, <2>1 DEF Copies, Blocks
  <2>3. CopyInv'
    BY <1>1, <1>2, <1>3, <1>6, <2>1, <2>2 DEF CopyInv
  <2>4. LatestInv'
    BY <1>1, <1>6, <2>1, <2>2, LeadMounted DEF LatestInv, LatestKept
  <2>5. Typed'
    BY <1>1, <1>2, <2>1 DEF Typed
  <2>6. PatchInv'
    BY <1>1 DEF PatchInv
  <2> QED
    BY <1>1, <1>2, <2>3, <2>4, <2>5, <2>6 DEF IInv, NeverFormatted
<1> HIDE DEF b
<1>7. ASSUME NEW super \in BOOLEAN, Whole(blocks[b]),
             blocks' = [blocks EXCEPT ![b].commits = Append(@, [Fresh(writes + 1) EXCEPT !.super = super])]
      PROVE  IInv'
  <2> DEFINE c == [Fresh(writes + 1) EXCEPT !.super = super]
             x == Extended(blocks[b], c)
  <2>1. c \in Commit /\ c.files = writes + 1 /\ c.crc
    BY <1>2, FreshWith
  <2>2. blocks' = [blocks EXCEPT ![b] = x]
    BY <1>7 DEF Extended
  <2> HIDE DEF c
  <2>3. /\ x \in Block /\ x.rev = blocks[b].rev /\ Starts(x) /\ Readable(x) /\ Dir(x) = writes + 1
    BY <1>3, <1>5, <1>7, <2>1, ExtendedType, ExtendedStarts, ExtendedGood
  <2> HIDE DEF x
  <2>4. Lead(blocks', b)
    BY <1>3, <1>4, <2>2, <2>3 DEF Lead, Blocks
  <2> QED
    BY <1>3, <1>6, <2>2, <2>3, <2>4
<1>8. ASSUME blocks' = [blocks EXCEPT ![Other(b)] =
                  [rev |-> blocks[b].rev + 1, commits |-> <<Fresh(writes + 1)>>]]
      PROVE  IInv'
  <2> DEFINE x == [rev |-> blocks[b].rev + 1, commits |-> <<Fresh(writes + 1)>>]
  <2>1. x \in Block /\ x.rev = blocks[b].rev + 1 /\ Starts(x) /\ Readable(x) /\ Dir(x) = writes + 1
    <3>1. blocks[b].rev + 1 \in Nat /\ writes + 1 \in Nat
      BY <1>2, <1>5
    <3> QED
      BY <3>1, FreshType, SingleType
  <2>2. blocks' = [blocks EXCEPT ![Other(b)] = x]
    BY <1>8
  <2> HIDE DEF x
  <2>3. Lead(blocks', Other(b))
    BY <1>3, <1>4, <1>5, <2>1, <2>2 DEF Lead, Blocks
  <2> QED
    BY <1>4, <1>6, <2>1, <2>2, <2>3
<1> QED
  BY <1>7, <1>8 DEF Write, b

(* With one cut the copy that is not being written is left.                   *)
LEMMA CutKeeps ==
    ASSUME MaxCuts <= 1, IInv, PowerCut
    PROVE  IInv'
<1>1. /\ pc' = "off" /\ cuts' = cuts + 1 /\ cuts < MaxCuts
      /\ UNCHANGED <<core, block, buf, files, latest, formatted, writes>>
      /\ atRisk' = (atRisk \/ (pc = "write" /\ \A b \in Pair : buf.rev >= blocks[b].rev))
  BY DEF PowerCut
<1>2. Typed /\ CopyInv /\ LatestInv /\ NeverFormatted /\ PatchInv /\ block \in Pair
      /\ blocks \in Blocks /\ buf \in Block /\ cuts \in Nat /\ MaxCuts \in Nat
  BY MigrationAssumption DEF IInv, Typed
<1>3. cuts = 0 /\ cuts' \in Nat /\ cuts' # 0 /\ \A b \in Pair : Readable(Copies[b])
  BY <1>1, <1>2 DEF CopyInv
<1>4. ASSUME blocks' \in Blocks,
             \A b \in Pair : Starts(blocks'[b]), \E b \in Pair : Readable(blocks'[b]), Apart(blocks'),
             ~atRisk' => Mounted(blocks') = latest
      PROVE  IInv'
  <2>1. Copies' = blocks'
    BY <1>1, <1>4 DEF Copies, Blocks
  <2>2. CopyInv' /\ LatestInv'
    BY <1>1, <1>3, <1>4, <2>1 DEF CopyInv, LatestInv, LatestKept
  <2>3. Typed' /\ PatchInv'
    BY <1>1, <1>2, <1>3, <1>4 DEF Typed, PatchInv
  <2> QED
    BY <1>1, <1>2, <2>2, <2>3 DEF IInv, NeverFormatted
<1>5. CASE pc # "write"
  <2> DEFINE b == Newest(blocks)
  <2>1. /\ Copies = blocks /\ b \in Pair /\ Lead(blocks, b) /\ Mounted(blocks) = Dir(blocks[b])
        /\ Apart(blocks) /\ (\E c \in Pair : Readable(blocks[c]))
        /\ \A c \in Pair : Starts(blocks[c]) /\ blocks[c] \in Block
        /\ (~atRisk => Mounted(blocks) = latest)
    BY <1>5, InUse
  <2>2. ~atRisk' => ~atRisk
    BY <1>1, <1>5
  <2> HIDE DEF b
  <2>3. Other(b) \in Pair /\ Other(b) # b /\ Other(Other(b)) = b /\ \A c \in Pair : c = b \/ c = Other(b)
    BY <2>1, PairOther
  <2>4. CASE UNCHANGED blocks
    BY <1>2, <1>4, <2>1, <2>2, <2>4
  <2> DEFINE c == [Fresh(files) EXCEPT !.crc = FALSE]
  <2>5. c \in Commit /\ ~c.crc /\ c.super
    BY <1>2, FreshBad DEF Typed
  <2>6. \A x : Bad(x) = Extended(x, c)
    BY DEF Bad, Extended
  <2> HIDE DEF c
  <2>7. CASE Whole(blocks[b]) /\ blocks' = [blocks EXCEPT ![b] = Bad(blocks[b])]
    <3> DEFINE x == Extended(blocks[b], c)
    <3>1. blocks[b] \in Block /\ Readable(blocks[b]) /\ Starts(blocks[b])
      BY <2>1 DEF Lead
    <3>2. blocks' = [blocks EXCEPT ![b] = x]
      BY <2>6, <2>7
    <3>3. x \in Block /\ x.rev = blocks[b].rev /\ Readable(x) /\ Dir(x) = Dir(blocks[b]) /\ Starts(x)
      BY <2>5, <2>7, <3>1, ExtendedType, ExtendedStarts, ExtendedBad
    <3> HIDE DEF x
    <3>4. blocks' \in Blocks /\ \A d \in Pair : blocks'[d] = IF d = b THEN x ELSE blocks[d]
      BY <1>2, <2>1, <3>2, <3>3 DEF Blocks
    <3>5. Lead(blocks', b)
      BY <2>1, <2>3, <3>3, <3>4 DEF Lead
    <3>6. Mounted(blocks') = Mounted(blocks) /\ Apart(blocks')
      BY <2>1, <3>3, <3>4, <3>5, LeadMounted
    <3> QED
      BY <1>4, <2>1, <2>2, <3>1, <3>3, <3>4, <3>6
  <2>8. CASE blocks' = [blocks EXCEPT ![Other(b)] = Bad(Erased)]
    <3> DEFINE x == Extended(Erased, c)
    <3>1. x \in Block /\ ~Readable(x) /\ Starts(x)
      BY <2>5, ErasedType, ExtendedType, ExtendedStarts, ExtendedBad
    <3>2. blocks' = [blocks EXCEPT ![Other(b)] = x]
      BY <2>6, <2>8
    <3> HIDE DEF x
    <3>3. blocks' \in Blocks /\ \A d \in Pair : blocks'[d] = IF d = Other(b) THEN x ELSE blocks[d]
      BY <1>2, <2>3, <3>1, <3>2 DEF Blocks
    <3>4. Lead(blocks', b)
      BY <2>1, <2>3, <3>1, <3>3 DEF Lead
    <3>5. Mounted(blocks') = Mounted(blocks) /\ Apart(blocks')
      BY <2>1, <2>3, <3>3, <3>4, LeadMounted
    <3>6. \E d \in Pair : Readable(blocks'[d])
      BY <2>1, <3>4 DEF Lead
    <3> QED
      BY <1>4, <2>1, <2>2, <3>1, <3>3, <3>5, <3>6
  <2> QED
    BY <1>5, <2>4, <2>7, <2>8 DEF PowerCut, b
<1>6. CASE pc = "write"
  <2> DEFINE o == Other(block)
  <2>1. o \in Pair /\ o # block /\ Other(o) = block /\ \A c \in Pair : c = block \/ c = o
    BY <1>2, PairOther
  <2> HIDE DEF o
  <2>2. Copies[block] = buf /\ Copies[o] = blocks[o] /\ Copies \in Blocks /\ blocks[block] = Erased
    BY <1>2, <1>6, <2>1, CopiesType DEF Copies, Typed
  <2>3. /\ Readable(blocks[o]) /\ Starts(blocks[o]) /\ blocks[o] \in Block /\ Starts(buf) /\ Readable(buf)
    BY <1>2, <1>3, <2>1, <2>2 DEF CopyInv, Blocks
  <2>4. buf.rev # blocks[o].rev /\ buf.rev \in Nat /\ blocks[o].rev \in Nat
    <3>1. Copies[0].rev # Copies[1].rev
      BY <1>2, <1>3, PairOther DEF LatestInv, Apart
    <3> QED
      BY <1>2, <2>1, <2>2, <2>3, <3>1, BlockFields, PairOther
  <2>5. ASSUME ~atRisk' PROVE ~atRisk /\ buf.rev < blocks[o].rev
    <3>1. ~atRisk /\ ~ \A b \in Pair : buf.rev >= blocks[b].rev
      BY <1>1, <1>6, <2>5
    <3>2. buf.rev >= blocks[block].rev
      BY <2>2, <2>4, ErasedType
    <3> QED
      BY <2>1, <2>4, <3>1, <3>2
  <2>6. ASSUME ~atRisk' PROVE latest = Dir(blocks[o])
    <3>1. Lead(Copies, o)
      BY <2>1, <2>2, <2>3, <2>5, <2>6 DEF Lead
    <3> QED
      BY <1>2, <2>1, <2>2, <2>5, <2>6, <3>1, LeadMounted DEF LatestInv
  <2>7. ASSUME NEW t \in Block, Starts(t), t.rev = buf.rev \/ ~Readable(t),
               blocks' \in Blocks, blocks'[block] = t, blocks'[o] = blocks[o]
        PROVE  IInv'
    <3>1. Apart(blocks')
      BY <1>2, <2>1, <2>4, <2>7, PairOther DEF Apart
    <3>2. ASSUME ~atRisk' PROVE Mounted(blocks') = latest
      <4>1. Lead(blocks', o)
        BY <2>1, <2>3, <2>5, <2>7, <3>2 DEF Lead
      <4> QED
        BY <2>1, <2>6, <2>7, <3>2, <4>1, LeadMounted
    <3> QED
      BY <1>4, <2>1, <2>3, <2>7, <3>1, <3>2
  <2>8. CASE UNCHANGED blocks
    BY <1>2, <2>2, <2>7, <2>8, ErasedType
  <2>9. ASSUME NEW t \in Torn(buf), blocks' = [blocks EXCEPT ![block] = t] PROVE IInv'
    <3>1. t \in Block /\ Starts(t) /\ t.rev = buf.rev
      BY <1>2, <2>3, TornType
    <3>2. blocks' \in Blocks /\ blocks'[block] = t /\ blocks'[o] = blocks[o]
      BY <1>2, <2>1, <2>9, <3>1 DEF Blocks
    <3> QED
      BY <2>7, <3>1, <3>2
  <2> QED
    BY <1>6, <2>8, <2>9 DEF PowerCut
<1> QED
  BY <1>5, <1>6

-----------------------------------------------------------------------------
(* The theorems.                                                              *)
LEMMA InitHolds == Init => IInv
<1> SUFFICES ASSUME Init PROVE IInv
  OBVIOUS
<1>1. /\ pc = "running" /\ blocks = Format /\ block = 0 /\ buf = Erased /\ files = 0 /\ latest = 0
      /\ atRisk = FALSE /\ formatted = FALSE /\ writes = 0 /\ cuts = 0
  BY DEF Init
<1>2. Fresh(0) \in Commit /\ Fresh(0).super /\ Fresh(0).crc /\ Fresh(0).files = 0
  BY FreshType
<1>3. ASSUME NEW b \in Pair
      PROVE  /\ Format[b] \in Block /\ Format[b].rev = b + 1 /\ Starts(Format[b])
             /\ Readable(Format[b]) /\ Dir(Format[b]) = 0
  <2>1. Format[b] = [rev |-> b + 1, commits |-> <<Fresh(0)>>] /\ b + 1 \in Nat
    BY DEF Format, Pair
  <2> QED
    BY <1>2, <2>1, SingleType
<1>4. Format \in Blocks
  BY <1>3 DEF Format, Blocks
<1>5. Copies = Format
  BY <1>1 DEF Copies, Format
<1>6. Lead(Format, 1)
  BY <1>3, PairOther DEF Lead
<1>7. Mounted(Format) = 0 /\ Apart(Format)
  BY <1>3, <1>4, <1>6, LeadMounted, PairOther
<1>8. Typed
  BY <1>1, <1>4, ErasedType, PairOther DEF Typed
<1> QED
  BY <1>1, <1>3, <1>5, <1>7, <1>8, PairOther DEF IInv, NeverFormatted, CopyInv, PatchInv, LatestInv, LatestKept

LEMMA StutterKeeps == IInv /\ UNCHANGED vars => IInv'
<1> SUFFICES ASSUME IInv, UNCHANGED vars PROVE IInv'
  OBVIOUS
<1>1. UNCHANGED <<blocks, core, pc, block, buf, files, latest, atRisk, formatted, writes, cuts>>
  BY DEF vars
<1>2. Copies' = Copies
  BY <1>1 DEF Copies
<1>3. Typed' /\ PatchInv' /\ NeverFormatted' /\ LatestKept'
  BY <1>1 DEF IInv, LatestInv, Typed, PatchInv, NeverFormatted, LatestKept
<1> QED
  BY <1>1, <1>2, <1>3 DEF IInv, CopyInv, LatestInv, Mounted, Newest, Readable, Apart, Starts

LEMMA StepHolds ==
    ASSUME MaxCuts <= 1
    PROVE  IInv /\ [Next]_vars => IInv'
BY StartKeeps, SkipKeeps, EraseKeeps, WriteBackKeeps, MountKeeps, WriteKeeps, UpgradeKeeps, CutKeeps,
   StutterKeeps DEF Next

LEMMA Invariance ==
    ASSUME MaxCuts <= 1
    PROVE  Spec => []IInv
BY InitHolds, StepHolds, PTL DEF Spec

(* An upgrade never costs the settings: EMSESP::start never formats a file   *)
(* system it could have converted, whatever commits the two blocks hold, also *)
(* when the power fails once while littlefs_migrate rewrites them.            *)
THEOREM SettingsSurvive ==
    ASSUME MaxCuts <= 1
    PROVE  Spec => []NeverFormatted
<1>1. IInv => NeverFormatted
  BY DEF IInv
<1> QED
  BY <1>1, Invariance, PTL

(* The settings after the upgrade are the last ones saved before it, unless    *)
(* the power failed while the block that counts was being rewritten: patching  *)
(* the superblock struct leaves the commits after it as they are.              *)
THEOREM LastDirectoryKept ==
    ASSUME MaxCuts <= 1
    PROVE  Spec => []LatestKept
<1>1. IInv => LatestKept
  BY DEF IInv, LatestInv
<1> QED
  BY <1>1, Invariance, PTL

(* What is true of littlefs_migrate's comment: until the power has failed, and *)
(* afterwards except while a block is being rewritten, one copy is readable    *)
(* (see OneReadable, which a second attempt after a power cut violates).       *)
THEOREM OneCopyReadable ==
    ASSUME MaxCuts <= 1
    PROVE  Spec => [](cuts = 0 \/ pc # "write" => OneReadable)
<1>1. IInv => (cuts = 0 \/ pc # "write" => OneReadable)
  <2> SUFFICES ASSUME IInv, cuts = 0 \/ pc # "write" PROVE \E b \in Pair : Readable(blocks[b])
    BY DEF OneReadable
  <2>1. CASE pc # "write"
    BY <2>1, InUse
  <2>2. CASE pc = "write"
    <3>1. block \in Pair /\ blocks \in Blocks /\ \A b \in Pair : Readable(Copies[b])
      BY <2>2 DEF IInv, CopyInv, Typed
    <3>2. Other(block) \in Pair /\ Other(block) # block
      BY <3>1, PairOther
    <3>3. Copies[Other(block)] = blocks[Other(block)]
      BY <2>2, <3>1, <3>2 DEF Copies, Blocks
    <3> QED
      BY <3>1, <3>2, <3>3
  <2> QED
    BY <2>1, <2>2
<1> QED
  BY <1>1, Invariance, PTL
=============================================================================
