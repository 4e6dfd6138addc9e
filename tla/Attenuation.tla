---------------------------- MODULE Attenuation ----------------------------
(***************************************************************************)
(* How delegation chains come about: authority handed on link by link, by  *)
(* delegate, which may only narrow it, and by links somebody signs by      *)
(* hand; and when a verifier accepts one (capability.ts, caveat.ts,        *)
(* delegation.ts).                                                         *)
(*                                                                         *)
(* A link is what its grant says; signatures are good, since whoever holds *)
(* a key may sign a link that widens.  A capability is a sequence of       *)
(* segments.  Of the caveats one kind is kept, a number that may only go   *)
(* down (maxCalls; maxValue and the allowlist's sets go the same way).     *)
(***************************************************************************)
EXTENDS Integers, Sequences

CONSTANTS
  Segments,       \* what capabilities are made of
  Star,           \* the segment that stands for all that may follow
  Capabilities,   \* the capabilities grants may carry
  Requested,      \* concrete capabilities somebody may ask for
  Limits,         \* of the caveat
  MaxDepth,       \* MAX_DELEGATION_DEPTH
  LastTime        \* bound of the clock and of the windows

NoLimit == 0      \* no caveat of the kind

AttenuationAssumption ==
  /\ Capabilities \cup Requested \subseteq Seq(Segments)
  /\ Limits \subseteq Nat \ {NoLimit}
  /\ MaxDepth \in Nat /\ LastTime \in Nat

Windows == {w \in (0..LastTime) \X (0..LastTime) : w[1] < w[2]}

Link == [capabilities : {{c} : c \in Capabilities}, limit : Limits \cup {NoLimit},
         window : Windows, minted : BOOLEAN]

VARIABLES
  chain,   \* the grants, the root's first
  now

-----------------------------------------------------------------------------
\* fault: a parent that is the more specific one permits, too
PermitsPrefix(parent, child) ==
  \A i \in DOMAIN parent \cap DOMAIN child :
    parent[i] = Star \/ parent[i] = child[i]

(* Segment by segment; a star covers the rest, and only as the last.       *)
Permits(parent, child) ==
  \E n \in 0..Len(parent) :
    /\ n <= Len(child)
    /\ \A i \in 1..n : parent[i] # Star /\ child[i] = parent[i]
    /\ n = Len(parent) \/ (n = Len(parent) - 1 /\ parent[Len(parent)] = Star)

Covers(held, requested) == \A r \in requested : \E h \in held : Permits(h, r)

(* An absent caveat is an unconstrained one.                               *)
Tightens(child, parent) == parent = NoLimit \/ (child # NoLimit /\ child <= parent)

Within(w) == w[1] <= now /\ now < w[2]

LinkHolds(child, parent) ==
  /\ Covers(parent.capabilities, child.capabilities)
  /\ Tightens(child.limit, parent.limit)
  /\ child.window[2] <= parent.window[2] /\ child.window[1] >= parent.window[1]
  /\ Within(child.window)

(* verifyDelegationChain; the root's other checks are ControlProof's.      *)
Verified ==
  /\ Len(chain) - 1 <= MaxDepth
  /\ Within(chain[1].window)
  /\ \A i \in 2..Len(chain) : LinkHolds(chain[i], chain[i - 1])

Allows(link, request, calls) ==
  /\ \E c \in link.capabilities : Permits(c, request)
  /\ link.limit = NoLimit \/ calls < link.limit

vars == <<chain, now>>

TypeOK ==
  /\ chain \in Seq(Link) /\ Len(chain) \in 1..(MaxDepth + 2)
  /\ now \in 0..LastTime

\* fault: the time asked for is the time granted
UntilUnclamped(ttl, parent) == now + ttl

(* "Clamp rather than reject."                                             *)
Until(ttl, parent) ==
  IF now + ttl < parent.window[2] THEN now + ttl ELSE parent.window[2]

(* delegate: refused when it widens; neither its depth nor its parent's    *)
(* notBefore is looked at.                                                 *)
Delegate(capabilities, limit, ttl) ==
  LET parent == chain[Len(chain)]
      until == Until(ttl, parent)
  IN /\ Covers(parent.capabilities, capabilities)
     /\ Tightens(limit, parent.limit)
     /\ until > now
     /\ chain' = Append(chain, [capabilities |-> capabilities, limit |-> limit,
                                window |-> <<now, until>>, minted |-> TRUE])
     /\ UNCHANGED now

(* Any other link somebody signs.                                          *)
Sign(link) ==
  /\ chain' = Append(chain, [link EXCEPT !.minted = FALSE])
  /\ UNCHANGED now

Init ==
  /\ now = 0
  /\ \E root \in {l \in Link : ~l.minted} : chain = <<root>>

Tick ==
  /\ now < LastTime
  /\ now' = now + 1
  /\ UNCHANGED chain

Next ==
  \/ /\ Len(chain) < MaxDepth + 2
     /\ \/ \E cs \in {{c} : c \in Capabilities}, l \in Limits \cup {NoLimit}, ttl \in 1..LastTime :
             Delegate(cs, l, ttl)
        \/ \E link \in Link : Sign(link)
  \/ Tick

Spec == Init /\ [][Next]_vars

-----------------------------------------------------------------------------
(* What the last link of a verified chain allows now, every link above it  *)
(* allows now, the human's grant included: no request, no count of calls   *)
(* and no moment is gained on the way down.                                *)
AuthorityOnlyNarrows ==
  Verified =>
    \A i \in 1..Len(chain) :
      /\ Within(chain[i].window)
      /\ \A r \in Requested, n \in {0} \cup Limits :
           Allows(chain[Len(chain)], r, n) => Allows(chain[i], r, n)

(* "A supervisor cannot mint a chain that silently fails downstream"       *)
(* (delegation.ts 141-143): a chain that delegate alone made is verified   *)
(* for as long as its last link is in time, if it is no deeper than a      *)
(* verifier accepts and no link was minted before its parent's window.     *)
MintedChainsVerify ==
  /\ \A i \in 2..Len(chain) :
       chain[i].minted /\ chain[i].window[1] >= chain[i - 1].window[1]
  /\ Len(chain) - 1 <= MaxDepth
  /\ Within(chain[Len(chain)].window)
  => Verified

(* No authority is gained down a chain, and a chain that delegate made is  *)
(* accepted.                                                               *)
ChainsNarrow == AuthorityOnlyNarrows /\ MintedChainsVerify
=============================================================================
