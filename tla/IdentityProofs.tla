--------------------------- MODULE IdentityProofs ---------------------------
(***************************************************************************)
(* What authorises an action, for any capabilities, rules, proofs and      *)
(* processes: the delegation chain, the control proof and the execution.   *)
(***************************************************************************)
EXTENDS Services, Sequences, FiniteSetTheorems, TLAPS

-----------------------------------------------------------------------------
(***************************************************************************)
(* A verified chain narrows from every link to every link below it, for    *)
(* any capabilities, limits, windows and depth.                            *)
(*                                                                         *)
(* The argument is by the links of a chain, and chains are built one link  *)
(* at a time: what holds of every prefix is an invariant of the behaviors  *)
(* that build them.                                                        *)
(***************************************************************************)

LEMMA AttenuationConstants ==
  /\ Capabilities \cup Requested \subseteq Seq(Segments)
  /\ Limits \subseteq Nat \ {Delegating!NoLimit}
  /\ MaxDepth \in Nat /\ LastTime \in Nat
BY ServicesAssumption DEF Delegating!AttenuationAssumption

(* What a link hands on, the clock aside.                                  *)
Narrows(child, parent) ==
  /\ Delegating!Covers(parent.capabilities, child.capabilities)
  /\ Delegating!Tightens(child.limit, parent.limit)
  /\ child.window[2] <= parent.window[2]

StartsWithin(child, parent) == child.window[1] >= parent.window[1]

Unbroken(k) ==
  \A i \in 2..k : Narrows(chain[i], chain[i - 1]) /\ StartsWithin(chain[i], chain[i - 1])

(* Every prefix whose neighbours narrow, narrows throughout.               *)
PrefixesNarrow ==
  \A k \in 1..Len(chain) : Unbroken(k) =>
    \A i \in 1..(k - 1) : Narrows(chain[k], chain[i]) /\ StartsWithin(chain[k], chain[i])

(* What delegate looked at when it made a link.                            *)
MintedLinksNarrow ==
  \A i \in 2..Len(chain) : chain[i].minted => Narrows(chain[i], chain[i - 1])

DelegatingIInv == Delegating!TypeOK /\ PrefixesNarrow /\ MintedLinksNarrow

-----------------------------------------------------------------------------
(* Permission and tightening are transitive.                               *)
LEMMA PermitsIsTransitive ==
  ASSUME NEW a \in Seq(Segments), NEW b \in Seq(Segments), NEW c \in Seq(Segments),
         Delegating!Permits(a, b), Delegating!Permits(b, c)
  PROVE  Delegating!Permits(a, c)
<1>1. PICK m \in 0..Len(a) :
        /\ m <= Len(b)
        /\ \A i \in 1..m : a[i] # Star /\ b[i] = a[i]
        /\ m = Len(a) \/ (m = Len(a) - 1 /\ a[Len(a)] = Star)
  BY DEF Delegating!Permits
<1>2. PICK n \in 0..Len(b) :
        /\ n <= Len(c)
        /\ \A i \in 1..n : b[i] # Star /\ c[i] = b[i]
        /\ n = Len(b) \/ (n = Len(b) - 1 /\ b[Len(b)] = Star)
  BY DEF Delegating!Permits
<1>3. Len(a) \in Nat /\ Len(b) \in Nat /\ Len(c) \in Nat
  OBVIOUS
<1>4. m <= n
  <2> SUFFICES ASSUME ~(m <= n) PROVE FALSE
    OBVIOUS
  <2>1. n = Len(b) - 1 /\ b[Len(b)] = Star /\ m = Len(b)
    BY <1>1, <1>2, <1>3
  <2>2. Len(b) \in 1..m
    BY <1>1, <1>3, <2>1
  <2> QED BY <1>1, <2>1, <2>2
<1>5. m <= Len(c)
  BY <1>2, <1>3, <1>4
<1>6. \A i \in 1..m : a[i] # Star /\ c[i] = a[i]
  <2> TAKE i \in 1..m
  <2>1. i \in 1..n
    BY <1>3, <1>4
  <2> QED BY <1>1, <1>2, <2>1
<1> QED BY <1>1, <1>5, <1>6 DEF Delegating!Permits

LEMMA CoversIsTransitive ==
  ASSUME NEW A \in SUBSET Seq(Segments), NEW B \in SUBSET Seq(Segments),
         NEW C \in SUBSET Seq(Segments), Delegating!Covers(A, B), Delegating!Covers(B, C)
  PROVE  Delegating!Covers(A, C)
BY PermitsIsTransitive DEF Delegating!Covers

LEMMA TightensIsTransitive ==
  ASSUME NEW a \in Nat, NEW b \in Nat, NEW c \in Nat, Delegating!Tightens(b, a),
         Delegating!Tightens(c, b)
  PROVE  Delegating!Tightens(c, a)
BY DEF Delegating!Tightens, Delegating!NoLimit

(* What the fields of a link are.                                          *)
LEMMA LinkFields ==
  ASSUME NEW l \in Delegating!Link
  PROVE  /\ l.capabilities \in SUBSET Seq(Segments)
         /\ l.limit \in Nat
         /\ l.window[1] \in Int /\ l.window[2] \in Int
<1>1. PICK c \in Capabilities : l.capabilities = {c}
  BY DEF Delegating!Link
<1>2. l.limit \in Limits \cup {Delegating!NoLimit}
  BY DEF Delegating!Link
<1>3. l.window \in (0..LastTime) \X (0..LastTime)
  BY DEF Delegating!Link, Delegating!Windows
<1>4. l.window[1] \in 0..LastTime /\ l.window[2] \in 0..LastTime
  BY <1>3
<1>5. l.capabilities \in SUBSET Seq(Segments)
  BY <1>1, AttenuationConstants
<1>6. l.limit \in Nat
  <2>1. Limits \subseteq Nat
    BY AttenuationConstants
  <2>2. Delegating!NoLimit \in Nat
    BY DEF Delegating!NoLimit
  <2> QED BY <1>2, <2>1, <2>2
<1>7. l.window[1] \in Int /\ l.window[2] \in Int
  BY <1>4, AttenuationConstants
<1> QED BY <1>5, <1>6, <1>7

LEMMA NarrowsIsTransitive ==
  ASSUME NEW x \in Delegating!Link, NEW y \in Delegating!Link, NEW z \in Delegating!Link,
         Narrows(y, x), Narrows(z, y)
  PROVE  Narrows(z, x)
<1>1. Delegating!Covers(x.capabilities, z.capabilities)
  BY CoversIsTransitive, LinkFields DEF Narrows
<1>2. Delegating!Tightens(z.limit, x.limit)
  BY TightensIsTransitive, LinkFields DEF Narrows
<1>3. z.window[2] <= x.window[2]
  <2>1. x.window[2] \in Int /\ y.window[2] \in Int /\ z.window[2] \in Int
    BY LinkFields
  <2>2. y.window[2] <= x.window[2] /\ z.window[2] <= y.window[2]
    BY DEF Narrows
  <2> QED BY <2>1, <2>2
<1> QED BY <1>1, <1>2, <1>3 DEF Narrows

-----------------------------------------------------------------------------
(* A chain that grows by one link.                                         *)
LEMMA AppendPreserves ==
  ASSUME DelegatingIInv, NEW link \in Delegating!Link, Len(chain) < MaxDepth + 2,
         link.minted => Narrows(link, chain[Len(chain)]),
         chain' = Append(chain, link), UNCHANGED now
  PROVE  DelegatingIInv'
<1> DEFINE n == Len(chain)
<1>1. chain \in Seq(Delegating!Link) /\ n \in Nat /\ n >= 1
  BY AttenuationConstants DEF DelegatingIInv, Delegating!TypeOK
<1>2. /\ chain' \in Seq(Delegating!Link) /\ Len(chain') = n + 1
      /\ \A i \in 1..n : chain'[i] = chain[i]
      /\ chain'[n + 1] = link
  BY <1>1
<1>3. Delegating!TypeOK'
  BY <1>1, <1>2, AttenuationConstants DEF DelegatingIInv, Delegating!TypeOK
<1>4. \A i \in 1..(n + 1) : chain'[i] \in Delegating!Link
  BY <1>1, <1>2
<1>5. MintedLinksNarrow'
  <2> SUFFICES ASSUME NEW i \in 2..(n + 1), chain'[i].minted
               PROVE  Narrows(chain'[i], chain'[i - 1])
    BY <1>2 DEF MintedLinksNarrow, Narrows, Delegating!Covers, Delegating!Tightens,
       Delegating!Permits
  <2>1. CASE i = n + 1
    BY <1>1, <1>2, <2>1
  <2>2. CASE i \in 2..n
    <3>1. i - 1 \in 1..n /\ i \in 1..n
      BY <1>1, <2>2
    <3> QED BY <1>2, <2>2, <3>1 DEF DelegatingIInv, MintedLinksNarrow
  <2> QED BY <1>1, <2>1, <2>2
<1>6. PrefixesNarrow'
  <2> SUFFICES ASSUME NEW k \in 1..(n + 1), NEW i \in 1..(k - 1),
                      \A j \in 2..k : /\ Narrows(chain'[j], chain'[j - 1])
                                      /\ StartsWithin(chain'[j], chain'[j - 1])
               PROVE  Narrows(chain'[k], chain'[i]) /\ StartsWithin(chain'[k], chain'[i])
    BY <1>2 DEF PrefixesNarrow, Unbroken, Narrows, StartsWithin, Delegating!Covers,
       Delegating!Tightens, Delegating!Permits
  <2>1. CASE k \in 1..n
    <3>1. Unbroken(k)
      <4> SUFFICES ASSUME NEW j \in 2..k
                   PROVE  Narrows(chain[j], chain[j - 1])
                            /\ StartsWithin(chain[j], chain[j - 1])
        BY DEF Unbroken
      <4>1. j \in 1..n /\ j - 1 \in 1..n
        BY <1>1, <2>1
      <4> QED BY <1>2, <4>1
    <3>2. k \in 1..n /\ i \in 1..n
      BY <1>1, <2>1
    <3> QED BY <1>2, <3>1, <3>2 DEF DelegatingIInv, PrefixesNarrow
  <2>2. CASE k = n + 1
    <3>1. Narrows(link, chain[n]) /\ StartsWithin(link, chain[n])
      <4>1. CASE n + 1 \in 2..k
        BY <1>1, <1>2, <4>1
      <4> QED BY <1>1, <2>2, <4>1
    <3>2. CASE i = n
      BY <1>1, <1>2, <2>2, <3>1, <3>2
    <3>3. CASE i \in 1..(n - 1)
      <4>1. Unbroken(n)
        <5> SUFFICES ASSUME NEW j \in 2..n
                     PROVE  /\ Narrows(chain[j], chain[j - 1])
                            /\ StartsWithin(chain[j], chain[j - 1])
          BY DEF Unbroken
        <5>1. j \in 1..n /\ j - 1 \in 1..n /\ j \in 2..k
          BY <1>1, <2>2
        <5> QED BY <1>2, <5>1
      <4>2. Narrows(chain[n], chain[i]) /\ StartsWithin(chain[n], chain[i])
        <5>1. n \in 1..Len(chain) /\ i \in 1..(n - 1)
          BY <1>1, <3>3
        <5> HIDE DEF n
        <5> QED BY <4>1, <5>1 DEF DelegatingIInv, PrefixesNarrow
      <4>3. i \in 1..n /\ n \in 1..n
        BY <1>1, <3>3
      <4>4. chain[i] \in Delegating!Link /\ chain[n] \in Delegating!Link
        BY <1>1, <4>3
      <4>5. Narrows(link, chain[i])
        BY <3>1, <4>2, <4>4, NarrowsIsTransitive
      <4>6. StartsWithin(link, chain[i])
        BY <3>1, <4>2, <4>4, LinkFields DEF StartsWithin
      <4> QED BY <1>2, <2>2, <4>3, <4>5, <4>6
    <3> QED BY <1>1, <2>2, <3>2, <3>3
  <2> QED BY <1>1, <2>1, <2>2
<1> QED BY <1>3, <1>5, <1>6 DEF DelegatingIInv

LEMMA DelegatingInitEstablishes == Delegating!Init => DelegatingIInv
<1> SUFFICES ASSUME Delegating!Init PROVE DelegatingIInv
  OBVIOUS
<1>1. PICK root \in Delegating!Link : chain = <<root>>
  BY DEF Delegating!Init
<1>2. chain \in Seq(Delegating!Link) /\ Len(chain) = 1 /\ now \in 0..LastTime
  BY <1>1, AttenuationConstants DEF Delegating!Init
<1>3. Delegating!TypeOK
  BY <1>2, AttenuationConstants DEF Delegating!TypeOK
<1>4. PrefixesNarrow /\ MintedLinksNarrow
  BY <1>2 DEF PrefixesNarrow, MintedLinksNarrow
<1> QED BY <1>3, <1>4 DEF DelegatingIInv

(* What delegate makes is a link, and narrows its parent.                  *)
LEMMA DelegatePreserves ==
  ASSUME DelegatingIInv, Len(chain) < MaxDepth + 2,
         NEW c \in Capabilities, NEW l \in Limits \cup {Delegating!NoLimit},
         NEW ttl \in 1..LastTime,
         Delegating!Delegate({c}, l, ttl)
  PROVE  DelegatingIInv'
<1> DEFINE parent == chain[Len(chain)]
           until == Delegating!Until(ttl, parent)
           link == [capabilities |-> {c}, limit |-> l,
                    window |-> <<now, until>>, minted |-> TRUE]
<1>1. /\ Delegating!Covers(parent.capabilities, {c}) /\ Delegating!Tightens(l, parent.limit)
      /\ until > now
      /\ chain' = Append(chain, link)
      /\ UNCHANGED now
  BY DEF Delegating!Delegate
<1>2. parent \in Delegating!Link
  BY AttenuationConstants DEF DelegatingIInv, Delegating!TypeOK
<1>3. parent.window \in (0..LastTime) \X (0..LastTime)
  BY <1>2 DEF Delegating!Link, Delegating!Windows
<1>4. parent.window[2] \in 0..LastTime /\ now \in 0..LastTime
  BY <1>3 DEF DelegatingIInv, Delegating!TypeOK
<1>5. until \in 0..LastTime /\ until <= parent.window[2]
  <2>1. CASE now + ttl < parent.window[2]
    BY <1>4, <2>1, AttenuationConstants DEF Delegating!Until
  <2>2. CASE ~(now + ttl < parent.window[2])
    BY <1>4, <2>2, AttenuationConstants DEF Delegating!Until
  <2> QED BY <2>1, <2>2
<1> HIDE DEF until, parent
<1>6. <<now, until>> \in Delegating!Windows
  BY <1>1, <1>4, <1>5 DEF Delegating!Windows
<1>7. link \in Delegating!Link
  BY <1>6 DEF Delegating!Link
<1>8. Narrows(link, parent)
  BY <1>1, <1>5 DEF Narrows
<1> HIDE DEF link
<1> QED BY <1>1, <1>7, <1>8, AppendPreserves DEF parent

LEMMA SignPreserves ==
  ASSUME DelegatingIInv, Len(chain) < MaxDepth + 2, NEW signed \in Delegating!Link,
         Delegating!Sign(signed)
  PROVE  DelegatingIInv'
<1> DEFINE link == [signed EXCEPT !.minted = FALSE]
<1>1. link \in Delegating!Link /\ ~link.minted
  BY DEF Delegating!Link
<1>2. chain' = Append(chain, link) /\ UNCHANGED now
  BY DEF Delegating!Sign
<1> HIDE DEF link
<1> QED BY <1>1, <1>2, AppendPreserves

(* The conjunction holds of every chain that can be built.                 *)
THEOREM DelegatingInvariance == Delegating!Spec => []DelegatingIInv
<1>1. DelegatingIInv /\ [Delegating!Next]_Delegating!vars => DelegatingIInv'
  <2> SUFFICES ASSUME DelegatingIInv, [Delegating!Next]_Delegating!vars PROVE DelegatingIInv'
    OBVIOUS
  <2>1. ASSUME Len(chain) < MaxDepth + 2,
               NEW cs \in {{c} : c \in Capabilities},
               NEW l \in Limits \cup {Delegating!NoLimit},
               NEW ttl \in 1..LastTime, Delegating!Delegate(cs, l, ttl)
        PROVE  DelegatingIInv'
    BY <2>1, DelegatePreserves
  <2>2. ASSUME Len(chain) < MaxDepth + 2, NEW link \in Delegating!Link, Delegating!Sign(link)
        PROVE  DelegatingIInv'
    BY <2>2, SignPreserves
  <2>3. ASSUME UNCHANGED chain, now' \in 0..LastTime PROVE DelegatingIInv'
    <3>1. Delegating!TypeOK'
      BY <2>3 DEF DelegatingIInv, Delegating!TypeOK
    <3>2. PrefixesNarrow' /\ MintedLinksNarrow'
      BY <2>3 DEF DelegatingIInv, PrefixesNarrow, MintedLinksNarrow, Unbroken, Narrows,
                  StartsWithin, Delegating!Covers, Delegating!Tightens, Delegating!Permits
    <3> QED BY <3>1, <3>2 DEF DelegatingIInv
  <2>4. CASE Delegating!Tick
    BY <2>3, <2>4, AttenuationConstants DEF Delegating!Tick, DelegatingIInv, Delegating!TypeOK
  <2>5. CASE UNCHANGED Delegating!vars
    BY <2>3, <2>5 DEF Delegating!vars, DelegatingIInv, Delegating!TypeOK
  <2> QED BY <2>1, <2>2, <2>4, <2>5 DEF Delegating!Next
<1> QED BY <1>1, DelegatingInitEstablishes, PTL DEF Delegating!Spec

(* TypeOK.                                                                 *)
THEOREM DelegatingTypeCorrect == Delegating!Spec => []Delegating!TypeOK
<1>1. DelegatingIInv => Delegating!TypeOK
  BY DEF DelegatingIInv
<1> QED BY <1>1, DelegatingInvariance, PTL

-----------------------------------------------------------------------------
(* A prefix that narrows throughout encloses the window of its last link.  *)
LEMMA WindowsAreNested ==
  ASSUME DelegatingIInv, Unbroken(Len(chain)), Delegating!Within(chain[Len(chain)].window)
  PROVE  \A i \in 1..Len(chain) : Delegating!Within(chain[i].window)
<1> DEFINE n == Len(chain)
<1> SUFFICES ASSUME NEW i \in 1..n, i # n PROVE Delegating!Within(chain[i].window)
  OBVIOUS
<1>1. n \in Nat /\ n \in 1..n /\ i \in 1..(n - 1)
  BY DEF DelegatingIInv, Delegating!TypeOK
<1>2. chain[i] \in Delegating!Link /\ chain[n] \in Delegating!Link
  BY <1>1 DEF DelegatingIInv, Delegating!TypeOK
<1>3. Narrows(chain[n], chain[i]) /\ StartsWithin(chain[n], chain[i])
  <2> HIDE DEF n
  <2>1. \A k \in 1..n : Unbroken(k) =>
          \A j \in 1..(k - 1) :
            Narrows(chain[k], chain[j]) /\ StartsWithin(chain[k], chain[j])
    BY DEF DelegatingIInv, PrefixesNarrow, n
  <2>2. Unbroken(n)
    BY DEF n
  <2> QED BY <1>1, <2>1, <2>2
<1>4. /\ chain[i].window[1] \in Int /\ chain[i].window[2] \in Int
      /\ chain[n].window[1] \in Int /\ chain[n].window[2] \in Int
      /\ now \in Int
  BY <1>2, LinkFields, AttenuationConstants DEF DelegatingIInv, Delegating!TypeOK
<1>5. /\ chain[n].window[2] <= chain[i].window[2]
      /\ chain[i].window[1] <= chain[n].window[1]
      /\ chain[n].window[1] <= now /\ now < chain[n].window[2]
  BY <1>3, <1>4 DEF Narrows, StartsWithin, Delegating!Within
<1> QED BY <1>4, <1>5 DEF Delegating!Within

(* What a narrower link allows, the wider one allows.                      *)
LEMMA AllowedAbove ==
  ASSUME NEW x \in Delegating!Link, NEW y \in Delegating!Link, Narrows(y, x),
         NEW r \in Requested, NEW n \in Nat, Delegating!Allows(y, r, n)
  PROVE  Delegating!Allows(x, r, n)
<1>1. PICK c \in y.capabilities : Delegating!Permits(c, r)
  BY DEF Delegating!Allows
<1>2. PICK h \in x.capabilities : Delegating!Permits(h, c)
  BY <1>1 DEF Narrows, Delegating!Covers
<1>3. h \in Seq(Segments) /\ c \in Seq(Segments) /\ r \in Seq(Segments)
  BY <1>1, <1>2, LinkFields, AttenuationConstants
<1>4. Delegating!Permits(h, r)
  BY <1>1, <1>2, <1>3, PermitsIsTransitive
<1>5. x.limit \in Nat /\ y.limit \in Nat
  BY LinkFields
<1>6. x.limit = Delegating!NoLimit \/ n < x.limit
  BY <1>5 DEF Narrows, Delegating!Tightens, Delegating!Allows, Delegating!NoLimit
<1> QED BY <1>2, <1>4, <1>6 DEF Delegating!Allows

(* No authority is gained on the way down a verified chain, and a chain    *)
(* that delegate made verifies.                                            *)
THEOREM ChainsOnlyNarrow == Delegating!Spec => []Delegating!ChainsNarrow
<1>1. DelegatingIInv => Delegating!AuthorityOnlyNarrows
  <2> SUFFICES ASSUME DelegatingIInv, Delegating!Verified, NEW i \in 1..Len(chain)
               PROVE  /\ Delegating!Within(chain[i].window)
                      /\ \A r \in Requested, c \in {0} \cup Limits :
                           Delegating!Allows(chain[Len(chain)], r, c) =>
                             Delegating!Allows(chain[i], r, c)
    BY DEF Delegating!AuthorityOnlyNarrows
  <2> DEFINE n == Len(chain)
  <2>1. n \in Nat /\ n \in 1..n
    BY DEF DelegatingIInv, Delegating!TypeOK
  <2>2. Unbroken(n)
    BY DEF Delegating!Verified, Delegating!LinkHolds, Unbroken, Narrows, StartsWithin
  <2>3. Delegating!Within(chain[n].window)
    <3>1. CASE n = 1
      BY <3>1 DEF Delegating!Verified
    <3>2. CASE n \in 2..n
      BY <3>2 DEF Delegating!Verified, Delegating!LinkHolds
    <3>3. n = 1 \/ n \in 2..n
      <4> HIDE DEF n
      <4> QED BY <2>1
    <3> QED BY <3>1, <3>2, <3>3
  <2>4. Delegating!Within(chain[i].window)
    BY <2>2, <2>3, WindowsAreNested
  <2>5. chain[i] \in Delegating!Link /\ chain[n] \in Delegating!Link
    BY <2>1 DEF DelegatingIInv, Delegating!TypeOK
  <2>6. ASSUME NEW r \in Requested, NEW c \in {0} \cup Limits,
               Delegating!Allows(chain[n], r, c)
        PROVE  Delegating!Allows(chain[i], r, c)
    <3>1. CASE i = n
      BY <2>6, <3>1
    <3>2. CASE i \in 1..(n - 1)
      <4>1. \A k \in 1..Len(chain) : Unbroken(k) =>
              \A j \in 1..(k - 1) : Narrows(chain[k], chain[j])
        BY DEF DelegatingIInv, PrefixesNarrow
      <4>2. Narrows(chain[n], chain[i])
        BY <2>1, <2>2, <3>2, <4>1
      <4>3. c \in Nat
        BY AttenuationConstants
      <4> QED BY <2>5, <2>6, <4>2, <4>3, AllowedAbove
    <3> QED BY <2>1, <3>1, <3>2
  <2> QED BY <2>4, <2>6
<1>2. DelegatingIInv => Delegating!MintedChainsVerify
  <2> SUFFICES ASSUME DelegatingIInv,
                      \A i \in 2..Len(chain) :
                        chain[i].minted /\ chain[i].window[1] >= chain[i - 1].window[1],
                      Len(chain) - 1 <= MaxDepth,
                      Delegating!Within(chain[Len(chain)].window)
               PROVE  Delegating!Verified
    BY DEF Delegating!MintedChainsVerify
  <2>1. Unbroken(Len(chain))
    BY DEF DelegatingIInv, MintedLinksNarrow, Unbroken, StartsWithin
  <2>2. \A i \in 1..Len(chain) : Delegating!Within(chain[i].window)
    BY <2>1, WindowsAreNested
  <2>3. Len(chain) \in Nat /\ Len(chain) >= 1
    BY DEF DelegatingIInv, Delegating!TypeOK
  <2>4. \A i \in 2..Len(chain) : Delegating!LinkHolds(chain[i], chain[i - 1])
    BY <2>1, <2>2, <2>3 DEF Unbroken, Narrows, StartsWithin, Delegating!LinkHolds
  <2> QED BY <2>2, <2>3, <2>4 DEF Delegating!Verified
<1>3. DelegatingIInv => Delegating!ChainsNarrow
  BY <1>1, <1>2 DEF Delegating!ChainsNarrow
<1> QED BY <1>3, DelegatingInvariance, PTL

-----------------------------------------------------------------------------
(***************************************************************************)
(* A control proof is good once, for any processes, verifications in       *)
(* progress and lifetime.                                                  *)
(***************************************************************************)

LEMMA ProofConstants ==
  /\ Proofs # {} /\ Processes # {}
  /\ Lifetime \in Nat \ {0}
  /\ Table \notin Processes
BY ServicesAssumption DEF Proving!ProofAssumption

(* A proof found valid has its nonce where the next claim will look for    *)
(* it: in the table, or in the map of the process until that forgets it.   *)
AcceptedIsRemembered ==
  \A p \in Proofs, i \in Processes : accepted[i][p] > 0 =>
    IF durable THEN p \in spent[Table] ELSE clock >= Lifetime \/ p \in spent[i]

(* What may be claimed was presented with good signatures and in time.     *)
ClaimantsAreGenuine ==
  \A v \in Verifiers : at[v] = "checked" /\ coreOk[v] => proof[v] \in genuine

ProvingIInv ==
  /\ Proving!TypeOK
  /\ AcceptedIsRemembered
  /\ ClaimantsAreGenuine
  /\ Proving!NoncesAreSpentOnce

-----------------------------------------------------------------------------
LEMMA ProvingInitEstablishes ==
  ASSUME Proving!Init
  PROVE  ProvingIInv
<1>1. Proving!AnyProof \in Proofs /\ Proving!AnyProcess \in Processes
  BY ProofConstants DEF Proving!AnyProof, Proving!AnyProcess
<1>2. Proving!TypeOK
  BY <1>1, ProofConstants DEF Proving!Init, Proving!TypeOK
<1>3. AcceptedIsRemembered /\ ClaimantsAreGenuine
  BY DEF Proving!Init, AcceptedIsRemembered, ClaimantsAreGenuine
<1>4. Proving!NoncesAreSpentOnce
  BY DEF Proving!Init, Proving!NoncesAreSpentOnce, Proving!AcceptedOnce,
     Proving!ForgedSpendsNothing
<1> QED BY <1>2, <1>3, <1>4 DEF ProvingIInv

LEMMA PresentPreserves ==
  ASSUME ProvingIInv, NEW v \in Verifiers, NEW p \in Proofs, NEW i \in Processes,
         Proving!Present(v, p, i)
  PROVE  ProvingIInv'
<1>1. PICK signed \in BOOLEAN :
        /\ coreOk' = [coreOk EXCEPT ![v] = signed /\ clock < Lifetime]
        /\ genuine' = IF signed /\ clock < Lifetime THEN genuine \cup {p} ELSE genuine
  BY DEF Proving!Present
<1>2. /\ proof' = [proof EXCEPT ![v] = p] /\ at' = [at EXCEPT ![v] = "checked"]
      /\ process' = [process EXCEPT ![v] = i]
      /\ UNCHANGED <<durable, clock, spent, accepted, straddled>>
  BY DEF Proving!Present
<1>3. genuine \subseteq genuine' /\ genuine' \subseteq Proofs
  BY <1>1 DEF ProvingIInv, Proving!TypeOK
<1>4. Proving!TypeOK'
  <2>1. coreOk' \in [Verifiers -> BOOLEAN]
    <3>1. (signed /\ clock < Lifetime) \in BOOLEAN
      OBVIOUS
    <3> QED BY <1>1, <3>1 DEF ProvingIInv, Proving!TypeOK
  <2> QED BY <1>2, <1>3, <2>1 DEF ProvingIInv, Proving!TypeOK
<1>5. AcceptedIsRemembered'
  BY <1>2 DEF ProvingIInv, AcceptedIsRemembered
<1>6. ClaimantsAreGenuine'
  <2> SUFFICES ASSUME NEW u \in Verifiers, at'[u] = "checked", coreOk'[u]
               PROVE  proof'[u] \in genuine'
    BY DEF ClaimantsAreGenuine
  <2>1. CASE u = v
    <3>1. signed /\ clock < Lifetime
      BY <1>1, <2>1 DEF ProvingIInv, Proving!TypeOK
    <3> QED BY <1>1, <1>2, <2>1, <3>1 DEF ProvingIInv, Proving!TypeOK
  <2>2. CASE u # v
    <3>1. at[u] = "checked" /\ coreOk[u] /\ proof'[u] = proof[u]
      BY <1>1, <1>2, <2>2 DEF ProvingIInv, Proving!TypeOK
    <3> QED BY <1>3, <3>1 DEF ProvingIInv, ClaimantsAreGenuine
  <2> QED BY <2>1, <2>2
<1>7. Proving!NoncesAreSpentOnce'
  BY <1>2, <1>3
    DEF ProvingIInv, Proving!NoncesAreSpentOnce, Proving!AcceptedOnce,
       Proving!ForgedSpendsNothing
<1> QED BY <1>4, <1>5, <1>6, <1>7 DEF ProvingIInv

(* An answered verification leaves nothing behind that could claim.        *)
LEMMA AnsweredKeeps ==
  ASSUME ProvingIInv, NEW v \in Verifiers, Proving!Answered(v)
  PROVE  /\ at' \in [Verifiers -> {"idle", "checked"}]
         /\ proof' \in [Verifiers -> Proofs] /\ process' \in [Verifiers -> Processes]
         /\ coreOk' \in [Verifiers -> BOOLEAN]
         /\ ClaimantsAreGenuine'
         /\ UNCHANGED <<durable, clock, genuine>>
<1>1. proof[v] \in Proofs /\ process[v] \in Processes
  BY DEF ProvingIInv, Proving!TypeOK
<1>2. Proving!AnyProof \in Proofs /\ Proving!AnyProcess \in Processes
  BY <1>1 DEF Proving!AnyProof, Proving!AnyProcess
<1>3. \A u \in Verifiers \ {v} :
        at'[u] = at[u] /\ coreOk'[u] = coreOk[u] /\ proof'[u] = proof[u]
  BY DEF Proving!Answered, ProvingIInv, Proving!TypeOK
<1>4. at'[v] = "idle"
  BY DEF Proving!Answered, ProvingIInv, Proving!TypeOK
<1>5. genuine' = genuine
  BY DEF Proving!Answered
<1>6. ClaimantsAreGenuine'
  BY <1>3, <1>4, <1>5 DEF ProvingIInv, ClaimantsAreGenuine
<1> QED BY <1>2, <1>6 DEF Proving!Answered, ProvingIInv, Proving!TypeOK

(* A claim is of a nonce its store did not have, and puts it there.        *)
LEMMA ClaimPreserves ==
  ASSUME ProvingIInv, NEW v \in Verifiers, Proving!Claim(v)
  PROVE  ProvingIInv'
<1> DEFINE p == proof[v]
           i == process[v]
           s == Proving!StoreOf(v)
<1>1. p \in Proofs /\ i \in Processes
  BY DEF ProvingIInv, Proving!TypeOK
<1>2. s \in Proving!Stores /\ s = IF durable THEN Table ELSE i
  BY <1>1 DEF Proving!StoreOf, Proving!Stores
<1>3. p \in genuine
  BY DEF Proving!Claim, Proving!MayClaim, ProvingIInv, ClaimantsAreGenuine
<1>4. Proving!Remembered(v) \subseteq spent[s] /\ p \notin Proving!Remembered(v)
  BY DEF Proving!Claim, Proving!Remembered
<1>5. /\ spent' = [spent EXCEPT ![s] = Proving!Remembered(v) \cup {p}]
      /\ straddled' = IF clock >= Lifetime THEN straddled \cup {p} ELSE straddled
      /\ Proving!Answered(v)
  BY DEF Proving!Claim
<1>6. PICK valid \in BOOLEAN :
        accepted' = [accepted EXCEPT ![i][p] = IF valid /\ @ < 2 THEN @ + 1 ELSE @]
  BY DEF Proving!Claim, Proving!MayClaim
<1>7. durable \in BOOLEAN /\ clock \in Nat /\ Lifetime \in Nat
  BY ProofConstants DEF ProvingIInv, Proving!TypeOK
<1>8. \A q \in Proofs, j \in Processes :
        /\ accepted[j][q] \in 0..2
        /\ <<j, q>> # <<i, p>> => accepted'[j][q] = accepted[j][q]
        /\ accepted'[i][p] \in 0..2
        /\ accepted'[i][p] <= accepted[i][p] + 1
  BY <1>1, <1>6 DEF ProvingIInv, Proving!TypeOK
<1> HIDE DEF p, i, s
<1>9. /\ spent'[s] = Proving!Remembered(v) \cup {p}
      /\ \A t \in Proving!Stores \ {s} : spent'[t] = spent[t]
  BY <1>2, <1>5 DEF ProvingIInv, Proving!TypeOK
<1>10. UNCHANGED <<durable, clock, genuine>>
  BY <1>5 DEF Proving!Answered
<1>11. Proving!TypeOK'
  <2>1. spent' \in [Proving!Stores -> SUBSET Proofs]
    BY <1>1, <1>2, <1>4, <1>5 DEF ProvingIInv, Proving!TypeOK
  <2>2. accepted' \in [Processes -> [Proofs -> 0..2]]
    BY <1>1, <1>6 DEF ProvingIInv, Proving!TypeOK
  <2>3. genuine' \cup straddled' \subseteq Proofs
    BY <1>1, <1>5, <1>10 DEF ProvingIInv, Proving!TypeOK
  <2> QED BY <1>5, <1>10, <2>1, <2>2, <2>3, AnsweredKeeps DEF ProvingIInv, Proving!TypeOK
(* What the claim found in its store is all it held, but for a map's       *)
(* nonces that are out of date.                                            *)
<1>12. durable \/ clock < Lifetime => Proving!Remembered(v) = spent[s]
  BY <1>7 DEF Proving!Remembered, s
<1>13. AcceptedIsRemembered'
  <2> SUFFICES ASSUME NEW q \in Proofs, NEW j \in Processes, accepted'[j][q] > 0
               PROVE  IF durable THEN q \in spent'[Table]
                      ELSE clock >= Lifetime \/ q \in spent'[j]
    BY <1>10 DEF AcceptedIsRemembered
  <2>1. CASE j = i /\ q = p
    BY <1>2, <1>9, <2>1
  <2>2. CASE ~(j = i /\ q = p)
    <3>1. accepted[j][q] > 0
      BY <1>8, <2>2
    <3>2. IF durable THEN q \in spent[Table] ELSE clock >= Lifetime \/ q \in spent[j]
      BY <3>1 DEF ProvingIInv, AcceptedIsRemembered
    <3>3. Table \in Proving!Stores /\ j \in Proving!Stores
      BY DEF Proving!Stores
    <3> QED BY <1>7, <1>9, <1>12, <3>2, <3>3
  <2> QED BY <2>1, <2>2
<1>14. Proving!AcceptedOnce'
  <2>1. ASSUME NEW q \in Proofs, NEW j \in Processes, durable \/ q \notin straddled'
        PROVE  accepted'[j][q] <= 1
    <3>1. CASE j = i /\ q = p
      <4>1. accepted[i][p] = 0
        <5>1. durable \/ clock < Lifetime
          BY <1>5, <1>7, <2>1, <3>1
        <5>2. p \notin spent[s]
          BY <1>4, <1>12, <5>1
        <5>3. ~(accepted[i][p] > 0)
          BY <1>1, <1>2, <1>7, <5>1, <5>2 DEF ProvingIInv, AcceptedIsRemembered
        <5> QED BY <1>1, <1>8, <5>3
      <4> QED BY <1>1, <1>8, <3>1, <4>1
    <3>2. CASE ~(j = i /\ q = p)
      <4>1. durable \/ q \notin straddled
        BY <1>5, <2>1
      <4>2. accepted[j][q] <= 1
        BY <4>1 DEF ProvingIInv, Proving!NoncesAreSpentOnce, Proving!AcceptedOnce
      <4> QED BY <1>8, <3>2, <4>2
    <3> QED BY <3>1, <3>2
  <2>2. ASSUME durable, NEW q \in Proofs, NEW j \in Processes, NEW k \in Processes,
               accepted'[j][q] > 0, accepted'[k][q] > 0
        PROVE  j = k
    <3>1. CASE q = p
      <4>1. p \notin spent[Table]
        BY <1>2, <1>4, <1>12, <2>2
      <4>2. \A l \in Processes : ~(accepted[l][p] > 0)
        BY <1>1, <2>2, <4>1 DEF ProvingIInv, AcceptedIsRemembered
      <4> QED BY <1>8, <2>2, <3>1, <4>2
    <3>2. CASE q # p
      <4>1. accepted[j][q] > 0 /\ accepted[k][q] > 0
        BY <1>8, <2>2, <3>2
      <4> QED BY <2>2, <4>1 DEF ProvingIInv, Proving!NoncesAreSpentOnce, Proving!AcceptedOnce
    <3> QED BY <3>1, <3>2
  <2> QED BY <1>10, <2>1, <2>2 DEF Proving!AcceptedOnce
<1>15. Proving!ForgedSpendsNothing'
  BY <1>2, <1>3, <1>4, <1>9, <1>10
    DEF ProvingIInv, Proving!NoncesAreSpentOnce, Proving!ForgedSpendsNothing
<1>16. ClaimantsAreGenuine'
  BY <1>5, AnsweredKeeps
<1> QED BY <1>11, <1>13, <1>14, <1>15, <1>16 DEF ProvingIInv, Proving!NoncesAreSpentOnce

(* A verification that ends without a claim, whatever it looked at.        *)
LEMMA OtherAnswersPreserve ==
  ASSUME ProvingIInv, NEW v \in Verifiers, Proving!NotClaimed(v) \/ Proving!Replay(v)
  PROVE  ProvingIInv'
<1> DEFINE s == Proving!StoreOf(v)
<1>1. Proving!Answered(v) /\ UNCHANGED <<accepted, straddled>>
  BY DEF Proving!NotClaimed, Proving!Replay
<1>2. process[v] \in Processes /\ durable \in BOOLEAN /\ clock \in Nat /\ Lifetime \in Nat
  BY ProofConstants DEF ProvingIInv, Proving!TypeOK
<1>3. s \in Proving!Stores /\ Proving!Remembered(v) \subseteq spent[s]
  BY <1>2 DEF Proving!StoreOf, Proving!Stores, Proving!Remembered
<1>4. durable \/ clock < Lifetime => Proving!Remembered(v) = spent[s]
  BY <1>2 DEF Proving!Remembered
<1> HIDE DEF s
<1>5. spent' = spent \/ spent' = [spent EXCEPT ![s] = Proving!Remembered(v)]
  BY DEF Proving!NotClaimed, Proving!Replay, s
<1>6. spent' \in [Proving!Stores -> SUBSET Proofs] /\ \A t \in Proving!Stores :
        spent'[t] \subseteq spent[t]
  BY <1>3, <1>5 DEF ProvingIInv, Proving!TypeOK
<1>7. durable \/ clock < Lifetime => spent' = spent
  BY <1>3, <1>4, <1>5 DEF ProvingIInv, Proving!TypeOK
<1>8. UNCHANGED <<durable, clock, genuine>> /\ ClaimantsAreGenuine'
  BY <1>1, AnsweredKeeps
<1>9. Proving!TypeOK'
  BY <1>1, <1>6, <1>8, AnsweredKeeps DEF ProvingIInv, Proving!TypeOK
<1>10. AcceptedIsRemembered'
  BY <1>1, <1>2, <1>7, <1>8 DEF ProvingIInv, AcceptedIsRemembered
<1>11. Proving!NoncesAreSpentOnce'
  BY <1>1, <1>6, <1>8
    DEF ProvingIInv, Proving!NoncesAreSpentOnce, Proving!AcceptedOnce,
       Proving!ForgedSpendsNothing
<1> QED BY <1>8, <1>9, <1>10, <1>11 DEF ProvingIInv

(* The table may have taken the nonce of a proof that was not found valid. *)
LEMMA StoreUnavailablePreserves ==
  ASSUME ProvingIInv, NEW v \in Verifiers, Proving!StoreUnavailable(v)
  PROVE  ProvingIInv'
<1>1. PICK kept \in SUBSET {proof[v]} : spent' = [spent EXCEPT ![Table] = @ \cup kept]
  BY DEF Proving!StoreUnavailable
<1>2. /\ Proving!Answered(v) /\ UNCHANGED <<accepted, straddled>>
      /\ at[v] = "checked" /\ coreOk[v]
  BY DEF Proving!StoreUnavailable, Proving!MayClaim
<1>3. proof[v] \in genuine /\ proof[v] \in Proofs
  BY <1>2 DEF ProvingIInv, ClaimantsAreGenuine, Proving!TypeOK
<1>4. /\ spent' \in [Proving!Stores -> SUBSET Proofs]
      /\ \A t \in Proving!Stores :
           spent[t] \subseteq spent'[t] /\ spent'[t] \subseteq spent[t] \cup kept
  BY <1>1, <1>3 DEF ProvingIInv, Proving!TypeOK
<1>5. UNCHANGED <<durable, clock, genuine>> /\ ClaimantsAreGenuine'
  BY <1>2, AnsweredKeeps
<1>6. Proving!TypeOK'
  BY <1>2, <1>4, <1>5, AnsweredKeeps DEF ProvingIInv, Proving!TypeOK
<1>7. AcceptedIsRemembered'
  <2>1. Table \in Proving!Stores /\ Processes \subseteq Proving!Stores
    BY DEF Proving!Stores
  <2> QED BY <1>2, <1>4, <1>5, <2>1 DEF ProvingIInv, AcceptedIsRemembered
<1>8. Proving!NoncesAreSpentOnce'
  <2>1. kept \subseteq genuine
    BY <1>3
  <2>2. Proving!ForgedSpendsNothing'
    BY <1>4, <1>5, <2>1
      DEF ProvingIInv, Proving!NoncesAreSpentOnce, Proving!ForgedSpendsNothing
  <2>3. Proving!AcceptedOnce'
    BY <1>2, <1>5 DEF ProvingIInv, Proving!NoncesAreSpentOnce, Proving!AcceptedOnce
  <2> QED BY <2>2, <2>3 DEF Proving!NoncesAreSpentOnce
<1> QED BY <1>5, <1>6, <1>7, <1>8 DEF ProvingIInv

LEMMA RestartPreserves ==
  ASSUME ProvingIInv, NEW i \in Processes, Proving!Restart(i)
  PROVE  ProvingIInv'
<1>1. /\ ~durable
      /\ spent' = [spent EXCEPT ![i] = {}]
      /\ accepted' = [accepted EXCEPT ![i] = [p \in Proofs |-> 0]]
      /\ UNCHANGED <<durable, clock, Proving!verifierVars, genuine, straddled>>
  BY DEF Proving!Restart
<1>2. i \in Proving!Stores
  BY DEF Proving!Stores
<1>3. /\ spent' \in [Proving!Stores -> SUBSET Proofs]
      /\ spent'[i] = {} /\ \A t \in Proving!Stores \ {i} : spent'[t] = spent[t]
  BY <1>1, <1>2 DEF ProvingIInv, Proving!TypeOK
<1>4. /\ accepted' \in [Processes -> [Proofs -> 0..2]]
      /\ \A p \in Proofs : accepted'[i][p] = 0
      /\ \A j \in Processes \ {i} : accepted'[j] = accepted[j]
  BY <1>1 DEF ProvingIInv, Proving!TypeOK
<1>5. Proving!TypeOK'
  BY <1>1, <1>3, <1>4 DEF ProvingIInv, Proving!TypeOK, Proving!verifierVars
<1>6. AcceptedIsRemembered'
  <2> SUFFICES ASSUME NEW p \in Proofs, NEW j \in Processes, accepted'[j][p] > 0
               PROVE  clock >= Lifetime \/ p \in spent'[j]
    BY <1>1 DEF AcceptedIsRemembered
  <2>1. j # i
    BY <1>4
  <2>2. j \in Proving!Stores
    BY DEF Proving!Stores
  <2> QED BY <1>1, <1>3, <1>4, <2>1, <2>2 DEF ProvingIInv, AcceptedIsRemembered
<1>7. ClaimantsAreGenuine'
  BY <1>1 DEF ProvingIInv, ClaimantsAreGenuine, Proving!verifierVars
<1>8. Proving!NoncesAreSpentOnce'
  <2>1. Proving!ForgedSpendsNothing'
    BY <1>1, <1>3 DEF ProvingIInv, Proving!NoncesAreSpentOnce, Proving!ForgedSpendsNothing
  <2>2. Proving!AcceptedOnce'
    BY <1>1, <1>4 DEF ProvingIInv, Proving!NoncesAreSpentOnce, Proving!AcceptedOnce
  <2> QED BY <2>1, <2>2 DEF Proving!NoncesAreSpentOnce
<1> QED BY <1>5, <1>6, <1>7, <1>8 DEF ProvingIInv

LEMMA ProvingNextPreserves == ProvingIInv /\ [Proving!Next]_Proving!vars => ProvingIInv'
<1> SUFFICES ASSUME ProvingIInv, [Proving!Next]_Proving!vars PROVE ProvingIInv'
  OBVIOUS
<1>1. ASSUME NEW v \in Verifiers, NEW p \in Proofs, NEW i \in Processes,
             Proving!Present(v, p, i)
      PROVE  ProvingIInv'
  BY <1>1, PresentPreserves
<1>2. ASSUME NEW v \in Verifiers, Proving!Claim(v) PROVE ProvingIInv'
  BY <1>2, ClaimPreserves
<1>3. ASSUME NEW v \in Verifiers,
             Proving!NotClaimed(v) \/ Proving!Replay(v) \/ Proving!StoreUnavailable(v)
      PROVE  ProvingIInv'
  BY <1>3, OtherAnswersPreserve, StoreUnavailablePreserves
<1>4. ASSUME NEW i \in Processes, Proving!Restart(i) PROVE ProvingIInv'
  BY <1>4, RestartPreserves
<1>5. CASE Proving!Tick
  <2>1. clock \in Nat /\ clock' = clock + 1 /\ clock' \in 0..(Lifetime + 1)
    BY <1>5, ProofConstants DEF Proving!Tick, ProvingIInv, Proving!TypeOK
  <2>2. UNCHANGED <<durable, spent, at, proof, process, coreOk, accepted, genuine, straddled>>
    BY <1>5 DEF Proving!Tick, Proving!verifierVars
  <2>3. Proving!TypeOK'
    BY <2>1, <2>2 DEF ProvingIInv, Proving!TypeOK
  <2>4. AcceptedIsRemembered'
    BY <2>1, <2>2, ProofConstants DEF ProvingIInv, AcceptedIsRemembered
  <2>5. ClaimantsAreGenuine' /\ Proving!NoncesAreSpentOnce'
    BY <2>2 DEF ProvingIInv, ClaimantsAreGenuine, Proving!NoncesAreSpentOnce,
       Proving!AcceptedOnce,
                Proving!ForgedSpendsNothing
  <2> QED BY <2>3, <2>4, <2>5 DEF ProvingIInv
<1>6. CASE UNCHANGED Proving!vars
  BY <1>6 DEF Proving!vars, Proving!verifierVars, ProvingIInv, Proving!TypeOK,
     AcceptedIsRemembered, ClaimantsAreGenuine,
              Proving!NoncesAreSpentOnce, Proving!AcceptedOnce, Proving!ForgedSpendsNothing
<1> QED BY <1>1, <1>2, <1>3, <1>4, <1>5, <1>6 DEF Proving!Next

(* The invariant, by the specification.                                    *)
THEOREM ProvingInvariance == Proving!Spec => []ProvingIInv
<1>1. Proving!Init => ProvingIInv
  BY ProvingInitEstablishes
<1> QED BY <1>1, ProvingNextPreserves, PTL DEF Proving!Spec

(* TypeOK.                                                                 *)
THEOREM ProvingTypeCorrect == Proving!Spec => []Proving!TypeOK
<1>1. ProvingIInv => Proving!TypeOK
  BY DEF ProvingIInv
<1> QED BY <1>1, ProvingInvariance, PTL

-----------------------------------------------------------------------------
(* A proof is found valid once, and what is not genuine spends no nonce.   *)
THEOREM SpentOnce == Proving!Spec => []Proving!NoncesAreSpentOnce
<1>1. ProvingIInv => Proving!NoncesAreSpentOnce
  BY DEF ProvingIInv
<1> QED BY <1>1, ProvingInvariance, PTL

-----------------------------------------------------------------------------
(***************************************************************************)
(* A requestId acts once and what acts was allowed, for any calls,         *)
(* requests, capabilities, rules and laws.                                 *)
(***************************************************************************)

LEMMA ExecutionConstants ==
  /\ RequestIds # {} /\ Shapes # {}
  /\ \A s \in Shapes : s.high \in BOOLEAN
  /\ \A r \in Rules : r.effect \in {"deny", "require_approval"} /\ r.when \subseteq Shapes
BY ServicesAssumption DEF Executing!ExecutionAssumption, Executing!KernelAssumption

(* What is so of a requestId that no two calls were about at one time: the *)
(* one call about it finds no receipt until it writes its own.             *)
Undisturbed(i) ==
  /\ \A c, d \in Executing!About(i) : c = d
  /\ effects[i] <= 1
  /\ ledger[i] = Executing!NoReceipt => (effects[i] = 1 <=>
       \E c \in Executing!About(i) : call[c] = "running")
  /\ ledger[i] # Executing!NoReceipt => Executing!About(i) = {} /\ (ledger[i].executed <=>
       effects[i] = 1)

(* A call the gate let through is not among the blocked.                   *)
BlockedWasNotAllowed == \A c \in Calls : call[c] = "blocked" => verdict[c] # "ALLOW"

ExecutingIInv ==
  /\ Executing!TypeOK
  /\ BlockedWasNotAllowed
  /\ \A i \in RequestIds \ contested : Undisturbed(i)

-----------------------------------------------------------------------------
(* The receipts tell themselves apart.                                     *)
LEMMA ReceiptsDiffer ==
  /\ Executing!NoReceipt \in Executing!Receipts /\ ~Executing!NoReceipt.executed
  /\ \A d \in Executing!Decisions \ {"ALLOW"} :
       Executing!Blocked(d) \in Executing!Receipts
         /\ Executing!Blocked(d) # Executing!NoReceipt /\ ~Executing!Blocked(d).executed
  /\ \A d \in Executing!Decisions, o \in {"committed", "error"} :
       Executing!Ran(d, o) # Executing!NoReceipt /\ Executing!Ran(d, o).executed
  /\ Executing!Ran("ALLOW", "committed") \in Executing!Receipts
  /\ Executing!Ran("ALLOW", "error") \in Executing!Receipts
  /\ Executing!Ran("DENY", "error") \in Executing!Receipts
<1>1. Executing!NoReceipt \in Executing!Receipts /\ ~Executing!NoReceipt.executed
  BY DEF Executing!Receipts, Executing!NoReceipt
<1>2. ASSUME NEW d \in Executing!Decisions \ {"ALLOW"}
      PROVE  Executing!Blocked(d) \in Executing!Receipts
               /\ Executing!Blocked(d) # Executing!NoReceipt /\ ~Executing!Blocked(d).executed
  <2>1. Executing!Blocked(d) \in Executing!Receipts
    BY DEF Executing!Receipts
  <2>2. Executing!Blocked(d).outcome # Executing!NoReceipt.outcome
          /\ ~Executing!Blocked(d).executed
    BY DEF Executing!Blocked, Executing!NoReceipt
  <2> QED BY <2>1, <2>2
<1>3. ASSUME NEW d \in Executing!Decisions, NEW o \in {"committed", "error"}
      PROVE  Executing!Ran(d, o) # Executing!NoReceipt /\ Executing!Ran(d, o).executed
  <2>1. Executing!Ran(d, o).outcome # Executing!NoReceipt.outcome
          /\ Executing!Ran(d, o).executed
    BY DEF Executing!Ran, Executing!NoReceipt
  <2> QED BY <2>1
<1>4. /\ Executing!Ran("ALLOW", "committed") \in Executing!Receipts
      /\ Executing!Ran("ALLOW", "error") \in Executing!Receipts
      /\ Executing!Ran("DENY", "error") \in Executing!Receipts
  BY DEF Executing!Receipts
<1> QED BY <1>1, <1>2, <1>3, <1>4

(* ALLOW takes everything the kernel asks for.                             *)
LEMMA AllowIsWarranted ==
  ASSUME NEW s \in Shapes, Executing!Dispose(s, granted, approvals, confidence) = "ALLOW"
  PROVE  /\ s.capability \in granted \ LawForbids
         /\ \A r \in Rules : s \in r.when =>
              r.effect = "require_approval" /\ r.id \in approvals
         /\ s.high => confidence = "enough"
<1>1. /\ s.capability \notin LawForbids /\ ~Executing!Denied(s)
      /\ Executing!Unmet(s, approvals) = {}
      /\ s.capability \in granted
      /\ s.high => confidence = "enough"
  BY ExecutionConstants DEF Executing!Dispose
<1>2. ASSUME NEW r \in Rules, s \in r.when
      PROVE  r.effect = "require_approval" /\ r.id \in approvals
  <2>1. r.effect = "require_approval"
    BY <1>1, <1>2, ExecutionConstants DEF Executing!Denied
  <2> QED BY <1>1, <1>2, <2>1 DEF Executing!Unmet
<1> QED BY <1>1, <1>2

LEMMA DispositionIsADecision ==
  ASSUME NEW s
  PROVE  Executing!Dispose(s, granted, approvals, confidence) \in Executing!Decisions
BY DEF Executing!Dispose, Executing!Decisions

(* A step that leaves a requestId and the calls about it alone.            *)
LEMMA UntouchedStays ==
  ASSUME NEW i \in RequestIds, Undisturbed(i),
         UNCHANGED <<ledger[i], effects[i], Executing!About(i)>>,
         \A c \in Executing!About(i) : call'[c] = call[c]
  PROVE  Undisturbed(i)'
BY DEF Undisturbed

-----------------------------------------------------------------------------
LEMMA ExecutingInitEstablishes == Executing!Init => ExecutingIInv
<1> SUFFICES ASSUME Executing!Init PROVE ExecutingIInv
  OBVIOUS
<1>1. Executing!NobodysRequest \in RequestIds /\ Executing!NoShape \in Shapes
  BY ExecutionConstants DEF Executing!NobodysRequest, Executing!NoShape
<1>2. Executing!TypeOK
  BY <1>1, ReceiptsDiffer
    DEF Executing!Init, Executing!TypeOK, Executing!Decisions, Executing!Confidences
<1>3. \A i \in RequestIds :
        Executing!About(i) = {} /\ ledger[i] = Executing!NoReceipt /\ effects[i] = 0
  BY DEF Executing!Init, Executing!About
<1> QED BY <1>2, <1>3 DEF Executing!Init, ExecutingIInv, Undisturbed, BlockedWasNotAllowed

LEMMA RefusePreserves ==
  ASSUME ExecutingIInv, NEW i \in RequestIds, Executing!RefuseSwappedArgs(i)
  PROVE  ExecutingIInv'
<1>1. /\ ledger' = [ledger EXCEPT ![i] = Executing!Blocked("DENY")]
      /\ ledger[i] = Executing!NoReceipt
      /\ contested' = IF Executing!About(i) = {} THEN contested ELSE contested \cup {i}
      /\ UNCHANGED <<call, request, shape, verdict, granted, approvals, confidence, effects>>
  BY DEF Executing!RefuseSwappedArgs, Executing!Unused, Executing!NoteContested,
     Executing!callVars, Executing!context
<1>2. /\ Executing!Blocked("DENY") \in Executing!Receipts
      /\ Executing!Blocked("DENY") # Executing!NoReceipt
      /\ ~Executing!Blocked("DENY").executed
  BY ReceiptsDiffer DEF Executing!Decisions
<1>3. Executing!TypeOK' /\ BlockedWasNotAllowed'
  BY <1>1, <1>2 DEF ExecutingIInv, Executing!TypeOK, BlockedWasNotAllowed
<1>4. \A j \in RequestIds : Executing!About(j)' = Executing!About(j)
  BY <1>1 DEF Executing!About
<1>5. ASSUME NEW j \in RequestIds \ contested' PROVE Undisturbed(j)'
  <2>1. j \notin contested /\ Undisturbed(j) /\ effects[j] \in 0..2
    BY <1>1, <1>5 DEF ExecutingIInv, Executing!TypeOK
  <2>2. CASE j = i
    <3>1. Executing!About(i) = {}
      BY <1>1, <1>5, <2>2
    <3>2. effects[i] # 1
      BY <1>1, <2>1, <2>2, <3>1 DEF Undisturbed
    <3>3. ledger'[i] = Executing!Blocked("DENY")
      BY <1>1 DEF ExecutingIInv, Executing!TypeOK
    <3> QED BY <1>1, <1>2, <1>4, <2>1, <2>2, <3>1, <3>2, <3>3 DEF Undisturbed
  <2>3. CASE j # i
    <3>1. ledger'[j] = ledger[j]
      BY <1>1, <2>3 DEF ExecutingIInv, Executing!TypeOK
    <3> QED BY <1>1, <1>4, <2>1, <3>1, UntouchedStays
  <2> QED BY <2>2, <2>3
<1> QED BY <1>3, <1>5 DEF ExecutingIInv

(* A new call is the only one about its requestId, or that is contested.   *)
LEMMA BeginPreserves ==
  ASSUME ExecutingIInv, NEW c \in Calls, NEW i \in RequestIds, NEW s \in Shapes,
         Executing!Begin(c, i, s)
  PROVE  ExecutingIInv'
<1> DEFINE d == Executing!Dispose(s, granted, approvals, confidence)
<1>1. /\ call[c] = "idle" /\ ledger[i] = Executing!NoReceipt
      /\ call' = [call EXCEPT ![c] = IF d = "ALLOW" THEN "running" ELSE "blocked"]
      /\ verdict' = [verdict EXCEPT ![c] = d]
      /\ effects' = [effects EXCEPT ![i] = IF d = "ALLOW" /\ @ < 2 THEN @ + 1 ELSE @]
      /\ request' = [request EXCEPT ![c] = i]
      /\ shape' = [shape EXCEPT ![c] = s]
      /\ contested' = IF Executing!About(i) = {} THEN contested ELSE contested \cup {i}
      /\ UNCHANGED <<ledger, granted, approvals, confidence>>
  BY DEF Executing!Begin, Executing!Unused, Executing!NoteContested, Executing!context
<1>2. d \in Executing!Decisions
  BY DispositionIsADecision
<1> HIDE DEF d
<1>3. Executing!TypeOK'
  <2>1. call' \in [Calls -> {"idle", "blocked", "running"}]
    BY <1>1 DEF ExecutingIInv, Executing!TypeOK
  <2>2. verdict' \in [Calls -> Executing!Decisions] /\ request' \in [Calls -> RequestIds]
        /\ shape' \in [Calls -> Shapes]
    BY <1>1, <1>2 DEF ExecutingIInv, Executing!TypeOK
  <2>3. effects' \in [RequestIds -> 0..2]
    BY <1>1 DEF ExecutingIInv, Executing!TypeOK
  <2>4. contested' \subseteq RequestIds
    BY <1>1 DEF ExecutingIInv, Executing!TypeOK
  <2> QED BY <1>1, <2>1, <2>2, <2>3, <2>4 DEF ExecutingIInv, Executing!TypeOK
<1>4. BlockedWasNotAllowed'
  BY <1>1 DEF ExecutingIInv, Executing!TypeOK, BlockedWasNotAllowed
<1>5. \A b \in Calls \ {c} : call'[b] = call[b] /\ request'[b] = request[b]
  BY <1>1 DEF ExecutingIInv, Executing!TypeOK
<1>6. /\ call'[c] = IF d = "ALLOW" THEN "running" ELSE "blocked"
      /\ request'[c] = i
  BY <1>1 DEF ExecutingIInv, Executing!TypeOK
<1>7. Executing!About(i)' = Executing!About(i) \cup {c}
  BY <1>5, <1>6 DEF Executing!About
<1>8. ASSUME NEW j \in RequestIds \ contested' PROVE Undisturbed(j)'
  <2>1. j \notin contested /\ Undisturbed(j) /\ effects[j] \in 0..2
    BY <1>1, <1>8 DEF ExecutingIInv, Executing!TypeOK
  <2>2. CASE j = i
    <3>1. Executing!About(i) = {}
      BY <1>1, <1>8, <2>2
    <3>2. effects[i] = 0
      BY <1>1, <2>1, <2>2, <3>1 DEF Undisturbed
    <3>3. effects'[i] = IF d = "ALLOW" THEN 1 ELSE 0
      BY <1>1, <3>2 DEF ExecutingIInv, Executing!TypeOK
    <3>4. Executing!About(i)' = {c}
      BY <1>7, <3>1
    <3> QED BY <1>1, <1>6, <2>2, <3>3, <3>4 DEF Undisturbed
  <2>3. CASE j # i
    <3>1. Executing!About(j)' = Executing!About(j) /\ c \notin Executing!About(j)
      BY <1>1, <1>5, <1>6, <2>3 DEF Executing!About
    <3>2. effects'[j] = effects[j] /\ ledger'[j] = ledger[j]
      BY <1>1, <2>3 DEF ExecutingIInv, Executing!TypeOK
    <3>3. \A b \in Executing!About(j) : call'[b] = call[b]
      BY <1>5, <3>1 DEF Executing!About
    <3> QED BY <2>1, <3>1, <3>2, <3>3, UntouchedStays
  <2> QED BY <2>2, <2>3
<1> QED BY <1>3, <1>4, <1>8 DEF ExecutingIInv

(* A call writes its receipt and is gone.                                  *)
LEMMA RecordPreserves ==
  ASSUME ExecutingIInv, NEW c \in Calls, NEW written \in Executing!Receipts,
         ledger' = [ledger EXCEPT ![request[c]] = written], Executing!Return(c),
         call[c] # "idle", written # Executing!NoReceipt,
         written.executed <=> call[c] = "running"
  PROVE  ExecutingIInv'
<1> PICK i \in RequestIds : i = request[c]
  BY DEF ExecutingIInv, Executing!TypeOK
<1>1. /\ call' = [call EXCEPT ![c] = "idle"]
      /\ request' = [request EXCEPT ![c] = Executing!NobodysRequest]
      /\ shape' = [shape EXCEPT ![c] = Executing!NoShape]
      /\ verdict' = [verdict EXCEPT ![c] = "DENY"]
      /\ UNCHANGED <<granted, approvals, confidence, effects, contested>>
  BY DEF Executing!Return, Executing!context
<1>2. Executing!NobodysRequest \in RequestIds /\ Executing!NoShape \in Shapes
        /\ "DENY" \in Executing!Decisions
  BY ExecutionConstants DEF Executing!NobodysRequest, Executing!NoShape, Executing!Decisions
<1>3. Executing!TypeOK'
  BY <1>1, <1>2 DEF ExecutingIInv, Executing!TypeOK
<1>4. BlockedWasNotAllowed'
  BY <1>1 DEF ExecutingIInv, Executing!TypeOK, BlockedWasNotAllowed
<1>5. /\ call'[c] = "idle"
      /\ \A b \in Calls \ {c} : call'[b] = call[b] /\ request'[b] = request[b]
  BY <1>1 DEF ExecutingIInv, Executing!TypeOK
<1>6. \A j \in RequestIds : Executing!About(j)' = Executing!About(j) \ {c}
  BY <1>5 DEF Executing!About
<1>7. i \in RequestIds /\ c \in Executing!About(i)
  BY DEF ExecutingIInv, Executing!TypeOK, Executing!About
<1>8. ASSUME NEW j \in RequestIds \ contested' PROVE Undisturbed(j)'
  <2>1. Undisturbed(j) /\ effects[j] \in 0..2 /\ effects'[j] = effects[j]
    BY <1>1, <1>8 DEF ExecutingIInv, Executing!TypeOK
  <2>2. CASE j = i
    <3>1. Executing!About(i) = {c} /\ ledger[i] = Executing!NoReceipt
      BY <1>7, <2>1, <2>2 DEF Undisturbed
    <3>2. effects[i] = 1 <=> call[c] = "running"
      BY <2>1, <2>2, <3>1 DEF Undisturbed
    <3>3. Executing!About(i)' = {}
      BY <1>6, <1>7, <3>1
    <3>4. ledger'[i] = written
      BY <1>7 DEF ExecutingIInv, Executing!TypeOK
    <3> QED BY <2>1, <2>2, <3>2, <3>3, <3>4 DEF Undisturbed
  <2>3. CASE j # i
    <3>1. Executing!About(j)' = Executing!About(j) /\ c \notin Executing!About(j)
      BY <1>6, <2>3 DEF Executing!About
    <3>2. ledger'[j] = ledger[j]
      BY <2>3 DEF ExecutingIInv, Executing!TypeOK
    <3>3. \A b \in Executing!About(j) : call'[b] = call[b]
      BY <1>5, <3>1 DEF Executing!About
    <3> QED BY <2>1, <3>1, <3>2, <3>3, UntouchedStays
  <2> QED BY <2>2, <2>3
<1> QED BY <1>3, <1>4, <1>8 DEF ExecutingIInv

LEMMA ExecutingNextPreserves ==
  ExecutingIInv /\ [Executing!Next]_Executing!vars => ExecutingIInv'
<1> SUFFICES ASSUME ExecutingIInv, [Executing!Next]_Executing!vars PROVE ExecutingIInv'
  OBVIOUS
<1>1. ASSUME NEW i \in RequestIds, Executing!RefuseSwappedArgs(i) PROVE ExecutingIInv'
  BY <1>1, RefusePreserves
<1>2. ASSUME NEW c \in Calls, NEW i \in RequestIds, NEW s \in Shapes, Executing!Begin(c, i, s)
      PROVE  ExecutingIInv'
  BY <1>2, BeginPreserves
<1>3. ASSUME NEW c \in Calls, Executing!RecordBlocked(c) PROVE ExecutingIInv'
  <2>1. call[c] = "blocked" /\ verdict[c] \in Executing!Decisions \ {"ALLOW"}
    BY <1>3 DEF Executing!RecordBlocked, ExecutingIInv, Executing!TypeOK, BlockedWasNotAllowed
  <2>2. /\ Executing!Blocked(verdict[c]) \in Executing!Receipts
        /\ Executing!Blocked(verdict[c]) # Executing!NoReceipt
        /\ ~Executing!Blocked(verdict[c]).executed
    BY <2>1, ReceiptsDiffer
  <2>3. ledger' = [ledger EXCEPT ![request[c]] =
          Executing!Blocked(verdict[c])] /\ Executing!Return(c)
    BY <1>3 DEF Executing!RecordBlocked
  <2> QED BY <2>1, <2>2, <2>3, RecordPreserves
<1>4. ASSUME NEW c \in Calls, Executing!RecordRun(c) PROVE ExecutingIInv'
  <2>1. PICK written \in {Executing!Ran("ALLOW", "committed"), Executing!Ran("ALLOW", "error"),
                          Executing!Ran("DENY", "error")} :
          ledger' = [ledger EXCEPT ![request[c]] = written]
    BY <1>4 DEF Executing!RecordRun, Executing!Put
  <2>2. written \in Executing!Receipts /\ written # Executing!NoReceipt /\ written.executed
    BY ReceiptsDiffer DEF Executing!Decisions
  <2>3. call[c] = "running" /\ Executing!Return(c)
    BY <1>4 DEF Executing!RecordRun
  <2> QED BY <2>1, <2>2, <2>3, RecordPreserves
<1>5. ASSUME UNCHANGED <<ledger, Executing!callVars, effects, contested>>, Executing!TypeOK'
      PROVE  ExecutingIInv'
  <2>1. \A i \in RequestIds : Executing!About(i)' = Executing!About(i)
    BY <1>5 DEF Executing!About, Executing!callVars
  <2> QED BY <1>5, <2>1
            DEF ExecutingIInv, Undisturbed, BlockedWasNotAllowed, Executing!callVars
<1>6. CASE Executing!ContextChanges
  <2>1. UNCHANGED <<ledger, Executing!callVars, effects, contested>>
    BY <1>6 DEF Executing!ContextChanges
  <2>2. granted' \subseteq Grantable /\ approvals' \subseteq Executing!RuleIds
        /\ confidence' \in Executing!Confidences
    BY <1>6 DEF Executing!ContextChanges, ExecutingIInv, Executing!TypeOK
  <2>3. Executing!TypeOK'
    BY <2>1, <2>2 DEF ExecutingIInv, Executing!TypeOK, Executing!callVars
  <2> QED BY <1>5, <2>1, <2>3
<1>7. CASE UNCHANGED Executing!vars
  <2>1. Executing!TypeOK'
    BY <1>7 DEF Executing!vars, Executing!vars, Executing!callVars, Executing!context,
       ExecutingIInv, Executing!TypeOK
  <2> QED BY <1>5, <1>7, <2>1 DEF Executing!vars, Executing!vars
<1> QED BY <1>1, <1>2, <1>3, <1>4, <1>6, <1>7 DEF Executing!Next

(* The conjunction of the invariants holds in every reachable state.       *)
THEOREM ExecutingInvariance == Executing!Spec => []ExecutingIInv
BY ExecutingInitEstablishes, ExecutingNextPreserves, PTL DEF Executing!Spec

(* TypeOK.                                                                 *)
THEOREM ExecutingTypeCorrect == Executing!Spec => []Executing!TypeOK
<1>1. ExecutingIInv => Executing!TypeOK
  BY DEF ExecutingIInv
<1> QED BY <1>1, ExecutingInvariance, PTL

-----------------------------------------------------------------------------
(* A requestId acts at most once, its receipt says whether it did and is   *)
(* not replaced, unless two calls were about it at one time; and what acts *)
(* was allowed by every law, rule and grant.                               *)
THEOREM ActsOnce == Executing!Spec => Executing!ActionsRunOnce
<1>1. ExecutingIInv => Executing!SingleUseUnlessContested
  BY DEF ExecutingIInv, Executing!SingleUseUnlessContested, Undisturbed
<1>2. ExecutingIInv => Executing!ReceiptsTellWhatRan
  BY ReceiptsDiffer DEF ExecutingIInv, Executing!ReceiptsTellWhatRan, Undisturbed
<1> DEFINE Stands == \A i \in RequestIds :
             ledger[i] # Executing!NoReceipt /\ ledger'[i] # ledger[i] => i \in contested
           Warranted == \A c \in Calls :
             call[c] = "idle" /\ call'[c] = "running" =>
               LET s == shape'[c] IN
               /\ s.capability \in granted \ LawForbids
               /\ \A r \in Rules : s \in r.when =>
                    r.effect = "require_approval" /\ r.id \in approvals
               /\ s.high => confidence = "enough"
<1>3. ExecutingIInv /\ [Executing!Next]_Executing!vars => [Stands]_Executing!vars
  <2> SUFFICES ASSUME ExecutingIInv, Executing!Next, NEW i \in RequestIds,
                      ledger[i] # Executing!NoReceipt, ledger'[i] # ledger[i]
               PROVE  i \in contested
    BY DEF Executing!vars
  <2>1. ASSUME NEW j \in RequestIds, Executing!RefuseSwappedArgs(j) PROVE FALSE
    BY <2>1 DEF Executing!RefuseSwappedArgs, Executing!Unused, ExecutingIInv, Executing!TypeOK
  <2>2. ASSUME NEW c \in Calls, Executing!RecordBlocked(c) \/ Executing!RecordRun(c)
        PROVE  i \in contested
    <3>1. request[c] = i /\ call[c] # "idle"
      BY <2>2 DEF Executing!RecordBlocked, Executing!RecordRun, Executing!Put, ExecutingIInv,
         Executing!TypeOK
    <3>2. c \in Executing!About(i)
      BY <3>1 DEF Executing!About
    <3> QED BY <3>2 DEF ExecutingIInv, Undisturbed
  <2>3. ASSUME UNCHANGED ledger PROVE FALSE
    BY <2>3
  <2> QED BY <2>1, <2>2, <2>3 DEF Executing!Next, Executing!Begin, Executing!ContextChanges
<1>4. ExecutingIInv /\ [Executing!Next]_Executing!vars => [Warranted]_Executing!vars
  <2> SUFFICES ASSUME ExecutingIInv, Executing!Next PROVE Warranted
    BY DEF Executing!vars
  <2>1. ASSUME NEW b \in Calls, NEW i \in RequestIds, NEW s \in Shapes,
               Executing!Begin(b, i, s)
        PROVE  Warranted
    <3> SUFFICES ASSUME NEW c \in Calls, call[c] = "idle", call'[c] = "running"
                 PROVE  LET t == shape'[c] IN
                        /\ t.capability \in granted \ LawForbids
                        /\ \A r \in Rules : t \in r.when =>
                             r.effect = "require_approval" /\ r.id \in approvals
                        /\ t.high => confidence = "enough"
      OBVIOUS
    <3>1. c = b /\ shape'[c] = s /\ Executing!Dispose(s, granted, approvals, confidence) =
            "ALLOW"
      BY <2>1 DEF Executing!Begin, ExecutingIInv, Executing!TypeOK
    <3> QED BY <3>1, AllowIsWarranted
  <2>2. ASSUME \A c \in Calls : call'[c] = "running" => call[c] = "running"
        PROVE  Warranted
    BY <2>2
  <2>3. ASSUME NEW c \in Calls, Executing!RecordBlocked(c) \/ Executing!RecordRun(c)
        PROVE  Warranted
    BY <2>2, <2>3
      DEF Executing!RecordBlocked, Executing!RecordRun, Executing!Return, ExecutingIInv,
         Executing!TypeOK
  <2>4. CASE Executing!ContextChanges \/ \E i \in RequestIds : Executing!RefuseSwappedArgs(i)
    BY <2>2, <2>4
      DEF Executing!ContextChanges, Executing!RefuseSwappedArgs, Executing!callVars
  <2> QED BY <2>1, <2>3, <2>4 DEF Executing!Next
<1> QED
  BY <1>1, <1>2, <1>3, <1>4, ExecutingInvariance, PTL
     DEF Executing!Spec, Executing!ActionsRunOnce, Executing!ReceiptsStand,
        Executing!NothingRunsUnwarranted
=============================================================================
