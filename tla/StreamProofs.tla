---------------------------- MODULE StreamProofs -----------------------------
(***************************************************************************)
(* Proofs about the streams of an event system as others see them: the     *)
(* policy that decides which are enabled (StreamPolicy and                 *)
(* StreamPolicyManager), the directories through which they are found      *)
(* (StreamFiles) and the explorers that find them (StreamDiscovery).       *)
(***************************************************************************)
EXTENDS StreamDiscovery, StreamPolicyManager, StreamPolicy, FiniteSetTheorems,
        WellFoundedInduction, TLAPS

\* A leaf that names no prover is given to Zenon.
USE ZenonT(30)

-----------------------------------------------------------------------------
(***************************************************************************)
(* The properties of the stream policy: of the manager that applies it     *)
(* (StreamPolicyManager), for any number of streams, names, handles and    *)
(* policies, and of the language it is written in (StreamPolicy), for any  *)
(* prefixes, names and number of directives.                               *)
(*                                                                         *)
(* The manager only has weak references, so the argument rests on what a   *)
(* strong reference implies: whoever can use a stream keeps it alive, a    *)
(* stream that is alive is registered, and pruning keeps what is alive.    *)
(* So the manager finds every usable stream, by name and when it sets a    *)
(* policy, and what it misses is being torn down.                          *)
(*                                                                         *)
(* The parser keeps one rule for each prefix, so sorting has no ties and   *)
(* the last rule that matches a name is the one of its longest prefix.     *)
(***************************************************************************)

-----------------------------------------------------------------------------
(* The manager.                                                            *)

StreamState == {"unused", "new", "live", "dying", "removing", "gone"}

TypeOK ==
    /\ spc \in [Stream -> StreamState]
    /\ sname \in [Stream -> ManagedName \cup {Nil}]
    /\ handles \in [Stream -> Nat]
    /\ queue \in [Stream -> BOOLEAN]
    /\ failed \in [Stream -> BOOLEAN]
    /\ dirAt \in [ManagedName -> Stream \cup {Nil}]
    /\ emptied \subseteq Stream
    /\ streams \subseteq Stream
    /\ policy \subseteq ManagedName
    /\ mutex \in {"free", "registering", "setting"}
    /\ current \in Stream \cup {Nil}
    /\ todo \subseteq Stream
    /\ sets \in Nat

\* References keep streams alive, and the manager knows the live ones.
References ==
    /\ mutex = "free" => current = Nil
    /\ mutex = "registering" => current # Nil
    /\ \A s \in Stream :
          /\ spc[s] \in {"new", "live", "dying", "removing"} => sname[s] \in ManagedName
          /\ spc[s] = "live" => s \in streams /\ (handles[s] > 0 \/ current = s)
          /\ handles[s] > 0 => spc[s] = "live"
          /\ spc[s] = "new" <=> mutex = "registering" /\ current = s
          /\ mutex = "setting" /\ current = s => spc[s] = "live"
          /\ s \in streams => spc[s] \notin {"unused", "new"}

\* The name of a stream is its own from its registration to its last handle.
Names ==
    \A s, t \in Stream :
        spc[s] \in {"new", "live"} /\ spc[t] \in {"new", "live"} /\ sname[s] = sname[t]
            => s = t

\* Which streams have a queue, and where its directory is.
Directories ==
    /\ \A s \in Stream :
          /\ queue[s] => spc[s] \in {"live", "dying", "removing"}
          /\ spc[s] \in {"unused", "new"} => ~failed[s]
          /\ spc[s] = "removing" => s \in emptied
          /\ s \in emptied => spc[s] \in {"removing", "gone"}
          /\ queue[s] /\ spc[s] \in {"live", "dying"} => dirAt[sname[s]] = s
    /\ \A n \in ManagedName, s \in Stream :
          dirAt[n] = s => sname[s] = n /\ queue[s]

Follows(s) == IF sname[s] \in policy THEN queue[s] \/ failed[s] ELSE ~queue[s]

\* A stream follows the policy, or it is still to be visited.
Policies ==
    \A s \in Stream :
        spc[s] = "live" =>
            Follows(s) \/ (mutex = "setting" /\ (s \in todo \/ current = s))

IInv == TypeOK /\ References /\ Names /\ Directories /\ Policies

(* There is no stream before the first call of create_stream.                *)
LEMMA InitIInv == Init => IInv
<1> SUFFICES ASSUME Init PROVE IInv
  OBVIOUS
<1> USE ManagerAssumption DEF Init
<1>1. TypeOK
  BY DEF TypeOK, StreamState
<1>2. References /\ Names
  BY SMTT(30) DEF References, Names
<1>3. Directories /\ Policies
  BY DEF Directories, Policies
<1> QED
  BY <1>1, <1>2, <1>3 DEF IInv

\* What apply_stream_rule does to the stream that it works on; of the
\* directories of others it only replaces one that was emptied.
RuleEffect(s) ==
    /\ queue' \in [Stream -> BOOLEAN] /\ failed' \in [Stream -> BOOLEAN]
    /\ dirAt' \in [ManagedName -> Stream \cup {Nil}] /\ emptied' = emptied
    /\ \A t \in Stream \ {s} : queue'[t] = queue[t] /\ failed'[t] = failed[t]
    /\ sname[s] \in policy => queue'[s] \/ failed'[s]
    /\ sname[s] \notin policy => ~queue'[s]
    /\ queue'[s] => dirAt'[sname[s]] = s
    /\ ~queue'[s] => \A n \in ManagedName : dirAt'[n] # s
    /\ failed'[s] => failed[s] \/ ~queue'[s]
    /\ \A n \in ManagedName : dirAt'[n] # dirAt[n] =>
          /\ n = sname[s]
          /\ dirAt[n] = s \/ dirAt[n] = Nil \/ dirAt[n] \in emptied
          /\ dirAt'[n] = Nil \/ (dirAt'[n] = s /\ queue'[s])

(* apply_stream_rule has this effect in every reachable state.               *)
LEMMA RuleApplied ==
    ASSUME IInv, NEW s \in Stream, spc[s] \in {"new", "live"}, ApplyStreamRule(s)
    PROVE  RuleEffect(s)
<1> USE ManagerAssumption DEF RuleEffect
<1>0. /\ sname[s] \in ManagedName /\ s \notin emptied
      /\ queue[s] => spc[s] = "live" /\ dirAt[sname[s]] = s
      /\ \A n \in ManagedName : dirAt[n] = s => n = sname[s] /\ queue[s]
  BY DEF IInv, TypeOK, References, Directories
<1>1. CASE /\ sname[s] \in policy /\ ~queue[s] /\ Vacant(sname[s])
           /\ queue' = [queue EXCEPT ![s] = TRUE]
           /\ dirAt' = [dirAt EXCEPT ![sname[s]] = s]
           /\ emptied' = emptied \ {s}
           /\ failed' = [failed EXCEPT ![s] = FALSE]
  <2>1. emptied' = emptied
    BY <1>0, <1>1
  <2> QED
    BY <1>0, <1>1, <2>1 DEF IInv, TypeOK, Vacant
<1>2. CASE /\ sname[s] \in policy /\ ~queue[s]
           /\ failed' = [failed EXCEPT ![s] = TRUE]
           /\ UNCHANGED <<queue, dirAt, emptied>>
  BY <1>0, <1>2 DEF IInv, TypeOK
<1>3. CASE /\ sname[s] \notin policy /\ queue[s]
           /\ queue' = [queue EXCEPT ![s] = FALSE]
           /\ dirAt' = [dirAt EXCEPT ![sname[s]] = Nil]
           /\ UNCHANGED <<emptied, failed>>
  BY <1>0, <1>3 DEF IInv, TypeOK
<1>4. CASE /\ (sname[s] \in policy) = queue[s]
           /\ UNCHANGED <<queue, dirAt, emptied, failed>>
  BY <1>0, <1>4 DEF IInv, TypeOK
<1> QED
  BY <1>1, <1>2, <1>3, <1>4 DEF ApplyStreamRule

(* Every step of the manager, of a holder of handles and of a stream that is *)
(* torn down keeps IInv.                                                     *)
LEMMA NextIInv == IInv /\ [Next]_vars => IInv'
<1> SUFFICES ASSUME IInv, [Next]_vars PROVE IInv'
  OBVIOUS
<1> USE ManagerAssumption DEF IInv
<1>1. ASSUME NEW s \in Stream, NEW n \in ManagedName, CreateStream(s, n) PROVE IInv'
  <2> USE <1>1 DEF CreateStream
  <2>1. TypeOK'
    BY SMTT(30) DEF TypeOK, StreamState, Pruned
  <2>2. References'
    BY SMTT(30) DEF TypeOK, References, Pruned, Alive, StrongCount
  <2>3. Names'
    BY SMTT(30) DEF TypeOK, References, Names, NameInUse, Alive, StrongCount
  <2>4. Directories'
    BY SMTT(30) DEF TypeOK, References, Directories
  <2>5. Policies'
    BY SMTT(30) DEF TypeOK, References, Policies, Follows
  <2> QED
    BY <2>1, <2>2, <2>3, <2>4, <2>5
<1>2. ASSUME RegisterStream PROVE IInv'
  <2> USE <1>2 DEF RegisterStream
  <2>1. current \in Stream /\ spc[current] = "new" /\ sname[current] \in ManagedName
    BY DEF TypeOK, References
  <2>2. ~queue[current] /\ ~failed[current]
    BY <2>1 DEF Directories
  <2>3. RuleEffect(current)
    BY <2>1, RuleApplied
  <2>4. TypeOK'
    BY <2>1, <2>3, SMTT(30) DEF RuleEffect, TypeOK, StreamState
  <2>5. References'
    BY <2>1, SMTT(30) DEF TypeOK, References
  <2>6. Names'
    BY <2>1, SMTT(30) DEF TypeOK, Names
  <2>7. Directories'
    BY <2>1, <2>2, <2>3, SMTT(30) DEF RuleEffect, TypeOK, References, Directories
  <2>8. Policies'
    BY <2>1, <2>3, SMTT(30) DEF RuleEffect, TypeOK, References, Policies, Follows
  <2> QED
    BY <2>4, <2>5, <2>6, <2>7, <2>8
<1>3. ASSUME NEW names \in SUBSET ManagedName, SetStreamPolicy(names) PROVE IInv'
  <2> USE <1>3 DEF SetStreamPolicy, streamState
  <2>1. TypeOK'
    BY SMTT(30) DEF TypeOK, Pruned
  <2>2. References'
    BY SMTT(30) DEF TypeOK, References, Pruned, Alive, StrongCount
  <2>3. Names' /\ Directories'
    BY DEF Names, Directories
  <2>4. Policies'
    BY SMTT(30) DEF TypeOK, References, Policies, Pruned, Alive, StrongCount
  <2> QED
    BY <2>1, <2>2, <2>3, <2>4
<1>4. ASSUME VisitStream PROVE IInv'
  <2> USE <1>4 DEF VisitStream, streamState
  <2>1. TypeOK'
    BY DEF TypeOK
  <2>2. References'
    BY SMTT(30) DEF TypeOK, References, Alive, StrongCount
  <2>3. Names' /\ Directories'
    BY DEF Names, Directories
  <2>4. Policies'
    BY SMTT(30) DEF TypeOK, References, Policies, Follows, Alive, StrongCount
  <2> QED
    BY <2>1, <2>2, <2>3, <2>4
<1>5. ASSUME UpdateStream PROVE IInv'
  <2> USE <1>5 DEF UpdateStream
  <2>1. current \in Stream /\ spc[current] = "live" /\ sname[current] \in ManagedName
    BY DEF TypeOK, References
  <2>2. RuleEffect(current)
    BY <2>1, RuleApplied
  <2>3. TypeOK'
    BY <2>1, <2>2 DEF RuleEffect, TypeOK, StreamState
  <2>4. References'
    BY <2>1, SMTT(30) DEF TypeOK, References
  <2>5. Names'
    BY <2>1 DEF TypeOK, Names
  <2>6. Directories'
    <3>1. /\ \A t \in Stream : spc'[t] = spc[t] \/ (t = current /\ spc'[t] = "dying")
          /\ sname' = sname /\ spc'[current] \in {"live", "dying"}
      BY <2>1 DEF TypeOK
    <3> HIDE <1>5
    <3>2. ASSUME NEW t \in Stream
          PROVE  /\ queue'[t] => spc'[t] \in {"live", "dying", "removing"}
                 /\ spc'[t] \in {"unused", "new"} => ~failed'[t]
                 /\ spc'[t] = "removing" => t \in emptied'
                 /\ t \in emptied' => spc'[t] \in {"removing", "gone"}
                 /\ queue'[t] /\ spc'[t] \in {"live", "dying"} => dirAt'[sname[t]] = t
      <4>1. CASE t = current
        BY <2>1, <2>2, <3>1, <4>1 DEF RuleEffect, Directories
      <4>2. CASE t # current
        <5>1. /\ spc'[t] = spc[t] /\ queue'[t] = queue[t] /\ failed'[t] = failed[t]
              /\ emptied' = emptied
          BY <2>2, <3>1, <4>2 DEF RuleEffect
        <5>2. queue[t] /\ spc[t] \in {"live", "dying"}
                 => sname[t] \in ManagedName /\ dirAt[sname[t]] = t /\ t \notin emptied
          BY DEF References, Directories
        <5>3. queue[t] /\ spc[t] \in {"live", "dying"} => dirAt'[sname[t]] = t
          BY <2>2, <4>2, <5>2, ManagerAssumption DEF RuleEffect
        <5> QED
          BY <5>1, <5>3 DEF Directories
      <4> QED
        BY <4>1, <4>2
    <3>3. ASSUME NEW n \in ManagedName, NEW t \in Stream, dirAt'[n] = t
          PROVE  sname[t] = n /\ queue'[t]
      <4>1. CASE dirAt'[n] = dirAt[n]
        <5>1. sname[t] = n /\ queue[t]
          BY <3>3, <4>1 DEF Directories
        <5> QED
          BY <2>2, <3>3, <5>1 DEF RuleEffect
      <4>2. CASE dirAt'[n] # dirAt[n]
        BY <2>2, <3>3, <4>2, ManagerAssumption DEF RuleEffect
      <4> QED
        BY <4>1, <4>2
    <3> QED
      BY <3>1, <3>2, <3>3 DEF Directories
  <2>7. Policies'
    BY <2>1, <2>2, SMTT(30) DEF RuleEffect, TypeOK, Policies, Follows
  <2> QED
    BY <2>3, <2>4, <2>5, <2>6, <2>7
<1>6. ASSUME PolicyIsSet PROVE IInv'
  <2> USE <1>6 DEF PolicyIsSet, streamState
  <2>1. TypeOK' /\ References'
    BY DEF TypeOK, References
  <2>2. Names' /\ Directories'
    BY DEF Names, Directories
  <2>3. Policies'
    BY DEF Policies, Follows
  <2> QED
    BY <2>1, <2>2, <2>3
<1>7. ASSUME NEW s \in Stream, CloneHandle(s) \/ DropHandle(s) PROVE IInv'
  <2> USE <1>7 DEF CloneHandle, DropHandle, managerState
  <2>1. TypeOK'
    BY SMTT(30) DEF TypeOK, StreamState
  <2>2. References'
    BY SMTT(30) DEF TypeOK, References, StrongCount
  <2>3. Names'
    BY SMTT(30) DEF TypeOK, Names
  <2>4. Directories'
    BY SMTT(30) DEF TypeOK, References, Directories
  <2>5. Policies'
    BY SMTT(30) DEF TypeOK, Policies, Follows
  <2> QED
    BY <2>1, <2>2, <2>3, <2>4, <2>5
<1>8. ASSUME NEW s \in Stream, EmptyDirectory(s) PROVE IInv'
  <2> USE <1>8 DEF EmptyDirectory, managerState
  <2>1. TypeOK'
    BY SMTT(30) DEF TypeOK, StreamState
  <2>2. References'
    BY SMTT(30) DEF TypeOK, References
  <2>3. Names'
    BY SMTT(30) DEF TypeOK, Names
  <2>4. Directories'
    <3>1. CASE queue[s]
      BY <3>1, SMTT(30) DEF TypeOK, Directories
    <3>2. CASE ~queue[s]
      BY <3>2, SMTT(30) DEF TypeOK, Directories
    <3> QED
      BY <3>1, <3>2
  <2>5. Policies'
    BY DEF TypeOK, Policies, Follows
  <2> QED
    BY <2>1, <2>2, <2>3, <2>4, <2>5
<1>9. ASSUME NEW s \in Stream, RemoveStreamDirectory(s) PROVE IInv'
  <2> USE <1>9 DEF RemoveStreamDirectory, managerState
  <2>1. /\ sname[s] \in ManagedName /\ s \in emptied
        /\ dirAt' \in [ManagedName -> Stream \cup {Nil}]
        /\ \A n \in ManagedName : dirAt'[n] = dirAt[n] \/ (dirAt'[n] = Nil /\ Vacant(n))
        /\ dirAt'[sname[s]] # s
    BY SMTT(30) DEF TypeOK, References, Directories, Vacant
  <2>2. TypeOK'
    BY <2>1 DEF TypeOK, StreamState
  <2>3. References'
    BY DEF TypeOK, References
  <2>4. Names'
    BY DEF TypeOK, Names
  <2>5. Directories'
    BY <2>1, SMTT(30) DEF TypeOK, References, Directories, Vacant
  <2>6. Policies'
    BY DEF TypeOK, Policies, Follows
  <2> QED
    BY <2>2, <2>3, <2>4, <2>5, <2>6
<1>10. CASE UNCHANGED vars
  BY <1>10 DEF vars, TypeOK, References, Names, Directories, Policies, Follows
<1> QED
  BY <1>1, <1>2, <1>3, <1>4, <1>5, <1>6, <1>7, <1>8, <1>9, <1>10 DEF Next, AllDropped

(* IInv holds in every reachable state.                                      *)
THEOREM IInvAlways == Spec => []IInv
  BY InitIInv, NextIInv, PTL DEF Spec

(* register_new_stream never gives two usable streams the same name.         *)
THEOREM NamesUnique == Spec => []LiveNamesUnique
<1>1. IInv => LiveNamesUnique
  BY DEF IInv, Names, LiveNamesUnique
<1> QED
  BY <1>1, IInvAlways, PTL

(* Between calls on the manager every usable stream follows the policy.      *)
THEOREM PolicyFollowed == Spec => []StreamsFollowPolicy
<1>1. IInv => StreamsFollowPolicy
  BY DEF IInv, Policies, Follows, StreamsFollowPolicy
<1> QED
  BY <1>1, IInvAlways, PTL

(* Tearing down a dead stream does not take away the directory of an enabled *)
(* stream of the same name.                                                  *)
THEOREM EnabledPublished == Spec => []EnabledStreamsArePublished
<1>1. IInv => EnabledStreamsArePublished
  BY DEF IInv, Directories, EnabledStreamsArePublished
<1> QED
  BY <1>1, IInvAlways, PTL

(* A name is only blocked by a stream that is used or being torn down.       *)
THEOREM NamesFreed == Spec => []NamesAreFreedAgain
<1>1. IInv => NamesAreFreedAgain
  BY SMTT(30) DEF IInv, TypeOK, Directories, NamesAreFreedAgain
<1> QED
  BY <1>1, IInvAlways, PTL

-----------------------------------------------------------------------------
(* The policy language: least and greatest elements.                       *)

\* A non-empty set of naturals has a least element.
LEMMA LeastNatural ==
  ASSUME NEW T, T \subseteq Nat, T # {}
  PROVE  \E n \in T : \A m \in T : n =< m
<1> DEFINE R == {ss \in Nat \X Nat : ss[1] < ss[2]}
<1>1. IsWellFoundedOn(R, Nat)
  BY NatLessThanWellFounded DEF OpToRel
<1>2. PICK n \in T : \A m \in T : ~ (<<m, n>> \in R)
  <2> HIDE DEF R
  <2> QED
    BY <1>1, WFMin
<1>3. \A m \in T : n =< m
  <2> TAKE m \in T
  <2>1. m \in Nat /\ n \in Nat
    OBVIOUS
  <2>2. ~(m < n)
    BY <1>2, <2>1
  <2> QED
    BY <2>1, <2>2, SMTT(30)
<1> QED
  BY <1>3

\* The maximum of a set of positions.
LEMMA MaxOfPositions ==
  ASSUME NEW k \in Nat, NEW S, S \subseteq 1 .. k, S # {}
  PROVE  Max(S) \in S /\ \A y \in S : y =< Max(S)
<1> DEFINE T == {n \in Nat : k - n \in S}
<1>1. T \subseteq Nat /\ T # {}
  <2>1. PICK x \in S : TRUE
    OBVIOUS
  <2>2. x \in 1 .. k
    OBVIOUS
  <2>3. k - x \in Nat /\ k - (k - x) = x
    BY <2>2, SMTT(30)
  <2> QED
    BY <2>1, <2>3
<1>2. PICK n \in T : \A m \in T : n =< m
  <2> HIDE DEF T
  <2> QED
    BY <1>1, LeastNatural
<1>3. \A y \in S : k - n >= y
  <2> TAKE y \in S
  <2>1. y \in 1 .. k
    OBVIOUS
  <2>2. k - y \in Nat /\ k - (k - y) = y
    BY <2>1, SMTT(30)
  <2>3. k - y \in T
    BY <2>2
  <2>4. n =< k - y /\ n \in Nat
    BY <1>2, <2>3
  <2> QED
    BY <2>1, <2>4, SMTT(30)
<1>4. k - n \in S
  BY <1>2
<1>5. Max(S) \in S /\ \A y \in S : Max(S) >= y
  BY <1>3, <1>4 DEF Max
<1>6. \A y \in S : y \in Int
  BY SMTT(30)
<1> QED
  BY <1>5, <1>6

\* The maximum is the only element that is not exceeded.
LEMMA MaxIs ==
  ASSUME NEW k \in Nat, NEW S, S \subseteq 1 .. k, NEW m \in S, \A y \in S : y =< m
  PROVE  Max(S) = m
<1>1. Max(S) \in S /\ \A y \in S : y =< Max(S)
  BY MaxOfPositions
<1> DEFINE n == Max(S)
<1>2. n \in S /\ n =< m /\ m =< n
  BY <1>1
<1> HIDE DEF n
<1>3. n \in Int /\ m \in Int
  BY <1>2, SMTT(30)
<1>4. n = m
  BY <1>2, <1>3, SMTT(30)
<1> QED
  BY <1>4 DEF n

-----------------------------------------------------------------------------
(* The order of the rules.                                                 *)

\* Of two sequences of one length neither is a strict prefix of the other.
LEMMA NoStrictPrefix ==
  ASSUME NEW p \in Seq(Nat), NEW q \in Seq(Nat), Len(p) = Len(q)
  PROVE  p # q => ~StartsWith(q, p)
<1>1. SubSeq(p, 1, Len(p)) = p /\ SubSeq(q, 1, Len(p)) = q
  BY SMTT(30)
<1> QED
  BY <1>1 DEF StartsWith

\* For sequences of one length, LexLess looks at the first difference.
FirstLess(p, q, i) ==
    /\ i \in 1 .. Len(p)
    /\ p[i] < q[i]
    /\ \A j \in 1 .. i - 1 : p[j] = q[j]

\* Vec::cmp of two prefixes of one length is decided at their first difference.
LEMMA LexFirst ==
  ASSUME NEW p \in Seq(Nat), NEW q \in Seq(Nat), Len(p) = Len(q)
  PROVE  LexLess(p, q) <=> \E i : FirstLess(p, q, i)
<1>1. DOMAIN p = 1 .. Len(p) /\ DOMAIN q = 1 .. Len(p)
  BY SMTT(30)
<1> QED
  BY <1>1, NoStrictPrefix DEF LexLess, FirstLess

\* No prefix is less than itself.
LEMMA LexIrreflexive ==
  ASSUME NEW p \in Seq(Nat)
  PROVE  ~LexLess(p, p)
<1>1. ~ \E i : FirstLess(p, p, i)
  BY SMTT(30) DEF FirstLess
<1> QED
  BY <1>1, LexFirst

\* Of two first differences the earlier one decides.
LEMMA LexTransitive ==
  ASSUME NEW p \in Seq(Nat), NEW q \in Seq(Nat), NEW r \in Seq(Nat),
         Len(p) = Len(q), Len(q) = Len(r), LexLess(p, q), LexLess(q, r)
  PROVE  LexLess(p, r)
<1>1. PICK i : FirstLess(p, q, i)
  BY LexFirst
<1>2. PICK j : FirstLess(q, r, j)
  BY LexFirst
<1>3. /\ i \in 1 .. Len(p) /\ p[i] < q[i] /\ \A k \in 1 .. i - 1 : p[k] = q[k]
      /\ j \in 1 .. Len(p) /\ q[j] < r[j] /\ \A k \in 1 .. j - 1 : q[k] = r[k]
  BY <1>1, <1>2 DEF FirstLess
<1>4. \A k \in 1 .. Len(p) : p[k] \in Nat /\ q[k] \in Nat /\ r[k] \in Nat
  BY SMTT(30)
<1>5. CASE i =< j
  <2>1. p[i] < r[i]
    <3>1. p[i] < q[i] /\ p[i] \in Nat /\ q[i] \in Nat /\ r[i] \in Nat
      BY <1>3, <1>4
    <3>2. CASE i = j
      BY <1>3, <3>1, <3>2, SMTT(30)
    <3>3. CASE i # j
      <4>1. i \in 1 .. j - 1
        BY <1>3, <1>5, <3>3, SMTT(30)
      <4> QED
        BY <1>3, <3>1, <4>1
    <3> QED
      BY <3>2, <3>3
  <2>2. \A k \in 1 .. i - 1 : p[k] = r[k]
    BY <1>3, <1>5, SMTT(30)
  <2>3. FirstLess(p, r, i)
    BY <1>3, <2>1, <2>2 DEF FirstLess
  <2> QED
    BY <2>3, LexFirst
<1>6. CASE j < i
  <2>1. p[j] < r[j]
    <3>1. j \in 1 .. i - 1
      BY <1>3, <1>6, SMTT(30)
    <3> QED
      BY <1>3, <1>4, <3>1
  <2>2. \A k \in 1 .. j - 1 : p[k] = r[k]
    BY <1>3, <1>6, SMTT(30)
  <2>3. FirstLess(p, r, j)
    BY <1>3, <2>1, <2>2 DEF FirstLess
  <2> QED
    BY <2>3, LexFirst
<1> QED
  BY <1>3, <1>5, <1>6, SMTT(30)

\* Two prefixes of one length that differ have a first difference.
LEMMA LexTotal ==
  ASSUME NEW p \in Seq(Nat), NEW q \in Seq(Nat), Len(p) = Len(q), p # q
  PROVE  LexLess(p, q) \/ LexLess(q, p)
<1> DEFINE D == {i \in 1 .. Len(p) : p[i] # q[i]}
<1>1. D # {}
  <2>1. /\ p = [i \in 1 .. Len(p) |-> p[i]]
        /\ q = [i \in 1 .. Len(q) |-> q[i]]
    BY SMTT(30)
  <2> QED
    BY <2>1
<1>2. D \subseteq Nat
  BY SMTT(30)
<1>3. PICK i \in D : \A m \in D : i =< m
  <2> HIDE DEF D
  <2> QED
    BY <1>1, <1>2, LeastNatural
<1>4. i \in 1 .. Len(p) /\ p[i] # q[i] /\ p[i] \in Nat /\ q[i] \in Nat
  BY SMTT(30)
<1>5. \A j \in 1 .. i - 1 : p[j] = q[j]
  BY <1>3, <1>4, SMTT(30)
<1>6. FirstLess(p, q, i) \/ FirstLess(q, p, i)
  BY <1>4, <1>5, SMTT(30) DEF FirstLess
<1> QED
  BY <1>6, LexFirst

\* The elements of StreamPolicy::prefix_rules.
PrefixRule == [prefix : Prefix, stream_state : Rule]

\* RuleLess is a strict order, in which rules of different prefixes compare.
LEMMA RuleOrder ==
  ASSUME NEW r \in PrefixRule, NEW s \in PrefixRule
  PROVE  /\ ~RuleLess(r, r)
         /\ r.prefix # s.prefix => RuleLess(r, s) \/ RuleLess(s, r)
         /\ RuleLess(r, s) => Len(r.prefix) =< Len(s.prefix)
<1>1. r.prefix \in Seq(Nat) /\ s.prefix \in Seq(Nat)
  BY PolicyAssumption DEF PrefixRule
<1>2. Len(r.prefix) \in Nat /\ Len(s.prefix) \in Nat
  BY <1>1, SMTT(30)
<1>3. ~RuleLess(r, r)
  BY <1>1, <1>2, LexIrreflexive, SMTT(30) DEF RuleLess
<1>4. r.prefix # s.prefix => RuleLess(r, s) \/ RuleLess(s, r)
  BY <1>1, <1>2, LexTotal, SMTT(30) DEF RuleLess
<1>5. RuleLess(r, s) => Len(r.prefix) =< Len(s.prefix)
  BY <1>2, SMTT(30) DEF RuleLess
<1> QED
  BY <1>3, <1>4, <1>5

\* The order of the rules, by length and then by prefix, is transitive.
LEMMA RuleTransitive ==
  ASSUME NEW r \in PrefixRule, NEW s \in PrefixRule, NEW t \in PrefixRule,
         RuleLess(r, s), RuleLess(s, t)
  PROVE  RuleLess(r, t)
<1>1. r.prefix \in Seq(Nat) /\ s.prefix \in Seq(Nat) /\ t.prefix \in Seq(Nat)
  BY PolicyAssumption DEF PrefixRule
<1> DEFINE a == Len(r.prefix)
           b == Len(s.prefix)
           c == Len(t.prefix)
<1>2. a \in Nat /\ b \in Nat /\ c \in Nat
  BY <1>1, SMTT(30)
<1>3. /\ a < b \/ (a = b /\ LexLess(r.prefix, s.prefix))
      /\ b < c \/ (b = c /\ LexLess(s.prefix, t.prefix))
  BY DEF RuleLess
<1>4. a = b /\ b = c /\ LexLess(r.prefix, s.prefix) /\ LexLess(s.prefix, t.prefix)
         => LexLess(r.prefix, t.prefix)
  BY <1>1, LexTransitive
<1>5. RuleLess(r, t) <=> a < c \/ (a = c /\ LexLess(r.prefix, t.prefix))
  BY DEF RuleLess
<1> HIDE DEF a, b, c
<1> QED
  BY <1>2, <1>3, <1>4, <1>5, SMTT(30)

-----------------------------------------------------------------------------
(* Sorting.                                                                *)

\* No two rules are about one prefix.
DistinctPrefixes(rules) ==
    \A i, j \in 1 .. Len(rules) : rules[i].prefix = rules[j].prefix => i = j

\* The order that SortBy asks for.
Ordering(rules, p) ==
    \A i, j \in DOMAIN rules :
        i < j => /\ ~RuleLess(rules[p[j]], rules[p[i]])
                 /\ RuleLess(rules[p[i]], rules[p[j]]) \/ p[i] < p[j]

\* A rule is put where there are as many places before it as there are rules
\* that are less.
LEMMA OrderingExists ==
  ASSUME NEW rules \in Seq(PrefixRule), DistinctPrefixes(rules)
  PROVE  \E p \in Bijection(DOMAIN rules, DOMAIN rules) : Ordering(rules, p)
<1> DEFINE D == 1 .. Len(rules)
           Below(i) == {j \in D : RuleLess(rules[j], rules[i])}
           rank == [i \in D |-> Cardinality(Below(i)) + 1]
<1>1. DOMAIN rules = D /\ Len(rules) \in Nat /\ \A i \in D : rules[i] \in PrefixRule
  BY SMTT(30)
<1>2. IsFiniteSet(D) /\ Cardinality(D) = Len(rules)
  <2>1. 1 \in Int /\ Len(rules) \in Int /\ (1 > Len(rules) <=> Len(rules) = 0)
    BY <1>1, SMTT(30)
  <2>2. /\ IsFiniteSet(D)
        /\ Cardinality(D) = IF 1 > Len(rules) THEN 0 ELSE Len(rules) - 1 + 1
    BY <2>1, FS_Interval
  <2> QED
    BY <1>1, <2>1, <2>2, SMTT(30)
<1>3. ASSUME NEW i \in D
      PROVE  /\ IsFiniteSet(Below(i)) /\ Cardinality(Below(i)) \in Nat
             /\ rank[i] = Cardinality(Below(i)) + 1 /\ rank[i] \in D
  <2>1. Below(i) \in SUBSET D /\ i \notin Below(i)
    BY <1>1, RuleOrder
  <2> HIDE DEF Below
  <2>2. /\ IsFiniteSet(Below(i)) /\ Cardinality(Below(i)) =< Cardinality(D)
        /\ Cardinality(D) = Cardinality(Below(i)) => D = Below(i)
    BY <1>2, <2>1, FS_Subset
  <2>3. Cardinality(Below(i)) \in Nat
    BY <2>2, FS_CardinalityType
  <2>4. Cardinality(Below(i)) # Len(rules)
    BY <1>2, <2>1, <2>2
  <2> QED
    BY <1>1, <1>2, <2>2, <2>3, <2>4, SMTT(30)
<1>4. ASSUME NEW i \in D, NEW j \in D, RuleLess(rules[i], rules[j])
      PROVE  rank[i] < rank[j]
  <2>1. Below(i) \in SUBSET Below(j)
    BY <1>1, <1>4, RuleTransitive
  <2>2. i \in Below(j) /\ i \notin Below(i)
    BY <1>1, <1>4, RuleOrder
  <2>3. /\ IsFiniteSet(Below(j)) /\ Cardinality(Below(j)) \in Nat /\ Cardinality(Below(i)) \in Nat
        /\ rank[i] = Cardinality(Below(i)) + 1 /\ rank[j] = Cardinality(Below(j)) + 1
    BY <1>3
  <2> HIDE DEF Below, rank
  <2>4. /\ Cardinality(Below(i)) =< Cardinality(Below(j))
        /\ Cardinality(Below(j)) = Cardinality(Below(i)) => Below(j) = Below(i)
    BY <2>1, <2>3, FS_Subset
  <2>5. Cardinality(Below(j)) # Cardinality(Below(i))
    BY <2>2, <2>4
  <2> QED
    BY <2>3, <2>4, <2>5, SMTT(30)
<1>5. \A i, j \in D : i # j => RuleLess(rules[i], rules[j]) \/ RuleLess(rules[j], rules[i])
  BY <1>1, RuleOrder DEF DistinctPrefixes
<1>6. rank \in [D -> D]
  BY <1>3
<1> HIDE DEF rank
<1>7. \A i, j \in D : rank[i] \in Int /\ (rank[i] = rank[j] => i = j)
  BY <1>4, <1>5, <1>6, SMTT(30)
<1>8. \A k \in D : \E i \in D : rank[i] = k
  <2>1. rank \in Injection(D, D)
    BY <1>6, <1>7 DEF Injection, IsInjective
  <2>2. rank \in Surjection(D, D)
    <3> HIDE DEF D
    <3> QED
      BY <2>1, <1>2, FS_Injection
  <2> QED
    BY <2>2 DEF Surjection
<1> DEFINE p == [k \in D |-> CHOOSE i \in D : rank[i] = k]
<1>9. \A k \in D : p[k] \in D /\ rank[p[k]] = k
  BY <1>8
<1>10. p \in [D -> D]
  BY <1>9
<1> HIDE DEF p
<1>11. \A i \in D : p[rank[i]] = i
  BY <1>6, <1>7, <1>9
<1>12. p \in Bijection(D, D)
  <2>1. \A k, l \in D : p[k] = p[l] => k = l
    BY <1>9
  <2>2. \A i \in D : \E k \in D : p[k] = i
    BY <1>6, <1>11
  <2> QED
    BY <1>10, <2>1, <2>2 DEF Bijection, Injection, Surjection, IsInjective
<1>13. Ordering(rules, p)
  <2> SUFFICES ASSUME NEW k \in D, NEW l \in D, k < l
               PROVE  ~RuleLess(rules[p[l]], rules[p[k]]) /\ RuleLess(rules[p[k]], rules[p[l]])
    BY <1>1 DEF Ordering
  <2>1. p[k] \in D /\ p[l] \in D /\ rank[p[k]] = k /\ rank[p[l]] = l
    BY <1>9
  <2>2. ~RuleLess(rules[p[l]], rules[p[k]])
    <3>1. ~(l < k)
      BY SMTT(30)
    <3> QED
      BY <2>1, <3>1, <1>4
  <2>3. p[k] # p[l]
    BY <2>1, SMTT(30)
  <2> QED
    BY <2>1, <2>2, <2>3, <1>5
<1> QED
  BY <1>1, <1>12, <1>13

\* Sorting rearranges the rules, and puts them in the order of RuleLess.
LEMMA SortedRules ==
  ASSUME NEW rules \in Seq(PrefixRule), DistinctPrefixes(rules)
  PROVE  LET out == SortBy(rules)
         IN  /\ out \in Seq(PrefixRule) /\ DistinctPrefixes(out)
             /\ \A i, j \in DOMAIN out : i < j => RuleLess(out[i], out[j])
             /\ \A i \in DOMAIN out : \E k \in DOMAIN rules : out[i] = rules[k]
             /\ \A k \in DOMAIN rules : \E i \in DOMAIN out : out[i] = rules[k]
<1> DEFINE D == 1 .. Len(rules)
           p == CHOOSE p \in Bijection(DOMAIN rules, DOMAIN rules) : Ordering(rules, p)
           out == [i \in DOMAIN rules |-> rules[p[i]]]
<1>1. DOMAIN rules = D /\ Len(rules) \in Nat /\ \A i \in D : rules[i] \in PrefixRule
  BY SMTT(30)
<1>2. SortBy(rules) = out
  BY DEF SortBy, Ordering
<1>3. p \in Bijection(D, D) /\ Ordering(rules, p)
  BY <1>1, OrderingExists
<1> HIDE DEF p
<1>4. /\ p \in [D -> D]
      /\ \A i, j \in D : p[i] = p[j] => i = j
      /\ \A k \in D : \E i \in D : p[i] = k
  BY <1>3 DEF Bijection, Injection, Surjection, IsInjective
<1>5. /\ out \in [D -> PrefixRule] /\ DOMAIN out = D
      /\ \A i \in D : out[i] = rules[p[i]] /\ p[i] \in D
  BY <1>1, <1>4
<1> HIDE DEF out
<1>6. out \in Seq(PrefixRule) /\ Len(out) = Len(rules)
  BY <1>1, <1>5, SMTT(30)
<1>7. \A i, j \in D : out[i].prefix = out[j].prefix => i = j
  <2>1. \A i, j \in D : rules[i].prefix = rules[j].prefix => i = j
    BY DEF DistinctPrefixes
  <2> HIDE DEF D
  <2> SUFFICES ASSUME NEW i \in D, NEW j \in D, out[i].prefix = out[j].prefix
               PROVE  i = j
    OBVIOUS
  <2>2. rules[p[i]].prefix = rules[p[j]].prefix /\ p[i] \in D /\ p[j] \in D
    BY <1>5
  <2>3. p[i] = p[j]
    BY <2>1, <2>2
  <2> QED
    BY <2>3, <1>4
<1>8. \A i, j \in D : i < j => RuleLess(out[i], out[j])
  <2> SUFFICES ASSUME NEW i \in D, NEW j \in D, i < j
               PROVE  RuleLess(out[i], out[j])
    OBVIOUS
  <2>1. ~RuleLess(out[j], out[i])
    <3>1. ~RuleLess(rules[p[j]], rules[p[i]])
      BY <1>1, <1>3 DEF Ordering
    <3>2. out[i] = rules[p[i]] /\ out[j] = rules[p[j]]
      BY <1>5
    <3> QED
      BY <3>1, <3>2
  <2>2. i # j
    BY SMTT(30)
  <2>3. out[i].prefix # out[j].prefix
    BY <1>7, <2>2
  <2>4. out[i] \in PrefixRule /\ out[j] \in PrefixRule
    BY <1>5
  <2> QED
    BY <2>1, <2>3, <2>4, RuleOrder
<1>9. ASSUME NEW k \in D PROVE \E i \in D : out[i] = rules[k]
  <2> HIDE DEF D
  <2>1. PICK i \in D : p[i] = k
    BY <1>4
  <2>2. out[i] = rules[k]
    BY <2>1, <1>5
  <2> QED
    BY <2>2
<1>10. DistinctPrefixes(out)
  BY <1>6, <1>7 DEF DistinctPrefixes
<1> QED
  BY <1>1, <1>2, <1>5, <1>6, <1>8, <1>9, <1>10

-----------------------------------------------------------------------------
(* The invariant of parsing.                                               *)

\* Types of the parser's state.
ParseTypeOK ==
    /\ input \in Seq(Directive)
    /\ prefix_rules \in Seq(PrefixRule)
    /\ status \in {"parsing", "parsed", "error"}

\* There is one rule for each prefix that a directive names, and it says what
\* the last of these directives says.
Collected ==
    /\ DistinctPrefixes(prefix_rules)
    /\ \A i \in 1 .. Len(prefix_rules), p \in Prefix :
          prefix_rules[i].prefix = p =>
              p # <<>> /\ About(p) # {} /\ prefix_rules[i].stream_state = LastRule(p)
    /\ \A p \in Prefix \ {<<>>} :
          About(p) # {} => \E i \in 1 .. Len(prefix_rules) : prefix_rules[i].prefix = p
    /\ default_rule = IF About(<<>>) = {} THEN "off" ELSE LastRule(<<>>)

\* The rules are in the order that the lookup relies on.
SortedInv ==
    \A i, j \in 1 .. Len(prefix_rules) : i < j => RuleLess(prefix_rules[i], prefix_rules[j])

\* Nothing is said of what a failed parse leaves behind.
ParseInv ==
    /\ ParseTypeOK
    /\ status # "error" => Collected
    /\ status = "parsed" => SortedInv

\* What a directive adds to the positions that concern a prefix.
LEMMA AboutStep ==
  ASSUME input \in Seq(Directive), NEW d \in Directive, input' = Append(input, d), NEW p
  PROVE  /\ Concerns(d, p) => About(p)' # {} /\ LastRule(p)' = RuleOf(d)
         /\ ~Concerns(d, p) => /\ About(p)' = {} <=> About(p) = {}
                               /\ About(p) # {} => LastRule(p)' = LastRule(p)
<1> DEFINE n == Len(input)
<1>1. /\ n \in Nat /\ DOMAIN input = 1 .. n /\ DOMAIN input' = 1 .. n + 1
      /\ input'[n + 1] = d /\ \A i \in 1 .. n : input'[i] = input[i]
  BY SMTT(30)
<1>2. /\ About(p) = {i \in 1 .. n : Concerns(input[i], p)}
      /\ About(p)' = {i \in 1 .. n + 1 : Concerns(input'[i], p)}
  BY <1>1 DEF About
<1>3. /\ LastRule(p) = RuleOf(input[Max(About(p))])
      /\ LastRule(p)' = RuleOf(input'[Max(About(p)')])
  BY DEF LastRule, RuleOf, ParsedRule
<1> DEFINE A == About(p)
           B == About(p)'
<1> HIDE DEF n
<1>4. CASE Concerns(d, p)
  <2>1. n + 1 \in B /\ B \subseteq 1 .. n + 1
    <3>1. n + 1 \in 1 .. n + 1 /\ Concerns(input'[n + 1], p)
      BY <1>1, <1>4, SMTT(30)
    <3> QED
      BY <1>2, <3>1
  <2>2. \A y \in B : y =< n + 1
    BY <1>1, <2>1, SMTT(30)
  <2>3. Max(B) = n + 1
    <3> HIDE DEF B
    <3>1. n + 1 \in Nat
      BY <1>1, SMTT(30)
    <3> QED
      BY <2>1, <2>2, <3>1, MaxIs
  <2> QED
    BY <1>1, <1>3, <1>4, <2>1, <2>3
<1>5. CASE ~Concerns(d, p)
  <2>1. A = B /\ A \subseteq 1 .. n
    <3>1. \A i : i \in 1 .. n + 1 <=> i \in 1 .. n \/ i = n + 1
      BY <1>1, SMTT(30)
    <3>2. \A i : i \in B <=> i \in 1 .. n + 1 /\ Concerns(input'[i], p)
      BY <1>2, Zenon
    <3>3. \A i : i \in A <=> i \in 1 .. n /\ Concerns(input[i], p)
      BY <1>2, Zenon
    <3> HIDE DEF A, B
    <3>4. \A i : i \in A <=> i \in B
      BY <1>1, <1>5, <3>1, <3>2, <3>3
    <3> QED
      BY <3>3, <3>4
  <2>2. A # {} => Max(A) \in 1 .. n
    <3> HIDE DEF A, B
    <3> QED
      BY <1>1, <2>1, MaxOfPositions
  <2> QED
    BY <1>1, <1>3, <1>5, <2>1, <2>2
<1> QED
  BY <1>4, <1>5

\* The empty policy, with no directive read.
LEMMA ParseInitInv == ParseInit => ParseInv
<1> SUFFICES ASSUME ParseInit PROVE ParseInv
  OBVIOUS
<1>1. input = <<>> /\ prefix_rules = <<>> /\ default_rule = "off" /\ status = "parsing"
  BY DEF ParseInit
<1>2. \A p : About(p) = {}
  BY <1>1, SMTT(30) DEF About
<1>3. 1 .. Len(prefix_rules) = {}
  BY <1>1, SMTT(30)
<1> QED
  BY <1>1, <1>2, <1>3, SMTT(30) DEF ParseInv, ParseTypeOK, Collected, DistinctPrefixes

\* What became of the rules when r was inserted.
InsertedInto(rules, r, out) ==
    /\ out \in Seq(PrefixRule) /\ DistinctPrefixes(out)
    /\ \E i \in 1 .. Len(out) : out[i] = r
    /\ \A i \in 1 .. Len(out) :
          out[i] = r \/ \E k \in 1 .. Len(rules) :
                           out[i] = rules[k] /\ rules[k].prefix # r.prefix
    /\ \A k \in 1 .. Len(rules) :
          rules[k].prefix # r.prefix => \E i \in 1 .. Len(out) : out[i] = rules[k]

\* A rule takes the place of the one with its prefix, or is added.
LEMMA Inserted ==
  ASSUME NEW rules \in Seq(PrefixRule), DistinctPrefixes(rules), NEW r \in PrefixRule
  PROVE  InsertedInto(rules, r, InsertRule(rules, r))
<1> DEFINE D == 1 .. Len(rules)
           out == InsertRule(rules, r)
<1>1. /\ DOMAIN rules = D /\ Len(rules) \in Nat /\ \A i \in D : rules[i] \in PrefixRule
      /\ \A i, j \in D : rules[i].prefix = rules[j].prefix => i = j
  BY SMTT(30) DEF DistinctPrefixes
<1>2. CASE \E i \in D : rules[i].prefix = r.prefix
  <2>1. out = [i \in D |-> IF rules[i].prefix = r.prefix THEN r ELSE rules[i]]
    BY <1>1, <1>2 DEF InsertRule
  <2> HIDE DEF out
  <2>2. out \in [D -> PrefixRule]
    BY <1>1, <2>1
  <2>3. out \in Seq(PrefixRule) /\ Len(out) = Len(rules)
    BY <1>1, <2>2, SMTT(30)
  <2>4. \A i \in D : out[i] = IF rules[i].prefix = r.prefix THEN r ELSE rules[i]
    BY <2>1
  <2>5. \A i \in D : out[i].prefix = rules[i].prefix
    BY <2>4
  <2>6. DistinctPrefixes(out)
    BY <1>1, <2>3, <2>5 DEF DistinctPrefixes
  <2>7. PICK i \in D : rules[i].prefix = r.prefix
    BY <1>2
  <2>8. out[i] = r
    BY <2>4, <2>7
  <2> QED
    BY <2>3, <2>4, <2>6, <2>8 DEF out, InsertedInto
<1>3. CASE ~ \E i \in D : rules[i].prefix = r.prefix
  <2> DEFINE n == Len(rules)
  <2>1. out = Append(rules, r)
    BY <1>1, <1>3 DEF InsertRule
  <2> HIDE DEF out
  <2>2. out \in Seq(PrefixRule) /\ Len(out) = n + 1
    BY <2>1, SMTT(30)
  <2>3. out[n + 1] = r /\ \A i \in D : out[i] = rules[i]
    BY <2>1, SMTT(30)
  <2>4. n + 1 \in 1 .. Len(out) /\ D \subseteq 1 .. Len(out)
    BY <1>1, <2>2, SMTT(30)
  <2>5. \A i \in 1 .. Len(out) : i = n + 1 \/ i \in D
    BY <1>1, <2>2, SMTT(30)
  <2>6. DistinctPrefixes(out)
    BY <1>1, <1>3, <2>3, <2>5 DEF DistinctPrefixes
  <2> QED
    BY <1>3, <2>2, <2>3, <2>4, <2>5, <2>6 DEF out, InsertedInto
<1> QED
  BY <1>2, <1>3

\* The kinds of directives, and what each is about.
LEMMA Kinds ==
  ASSUME NEW d \in Directive
  PROVE  \/ d.kind = "blank" /\ \A p : ~Concerns(d, p)
         \/ d.kind = "rule" /\ d.rule \in Rule /\ \A p : Concerns(d, p) <=> p = <<>>
         \/ /\ d.kind = "prefix" /\ d.prefix \in Prefix /\ d.value \in Value
            /\ \A p : Concerns(d, p) <=> p = d.prefix
<1>1. CASE d = Blank
  BY <1>1 DEF Blank, Concerns
<1>2. CASE d \in BareRule
  BY <1>2 DEF BareRule, Concerns
<1>3. CASE d \in PrefixDirective
  BY <1>3 DEF PrefixDirective, Concerns
<1> QED
  BY <1>1, <1>2, <1>3 DEF Directive

\* One more directive.
LEMMA StepDirective ==
  ASSUME ParseInv, NEW d \in Directive, ParseDirective(d)
  PROVE  ParseInv'
<1>1. /\ status = "parsing" /\ input' = Append(input, d)
      /\ input \in Seq(Directive) /\ prefix_rules \in Seq(PrefixRule) /\ Collected
  BY DEF ParseDirective, ParseInv, ParseTypeOK
<1>2. input' \in Seq(Directive)
  BY <1>1, SMTT(30)
<1>3. \A p : /\ Concerns(d, p) => About(p)' # {} /\ LastRule(p)' = RuleOf(d)
             /\ ~Concerns(d, p) => /\ About(p)' = {} <=> About(p) = {}
                                   /\ About(p) # {} => LastRule(p)' = LastRule(p)
  BY <1>1, AboutStep
<1>4. CASE UNCHANGED prefix_rules /\ status' = "parsing" /\ (\A p : Concerns(d, p) => p = <<>>)
           /\ default_rule' = IF Concerns(d, <<>>) THEN RuleOf(d) ELSE default_rule
  <2>1. ParseTypeOK'
    BY <1>1, <1>2, <1>4 DEF ParseTypeOK
  <2>2. DistinctPrefixes(prefix_rules')
    BY <1>1, <1>4 DEF Collected
  <2>3. \A i \in 1 .. Len(prefix_rules'), p \in Prefix :
           prefix_rules'[i].prefix = p =>
               p # <<>> /\ About(p)' # {} /\ prefix_rules'[i].stream_state = LastRule(p)'
    BY <1>1, <1>3, <1>4 DEF Collected
  <2>4. \A p \in Prefix \ {<<>>} :
           About(p)' # {} => \E i \in 1 .. Len(prefix_rules') : prefix_rules'[i].prefix = p
    BY <1>1, <1>3, <1>4 DEF Collected
  <2>5. default_rule' = IF About(<<>>)' = {} THEN "off" ELSE LastRule(<<>>)'
    BY <1>1, <1>3, <1>4 DEF Collected
  <2>6. Collected'
    BY <2>2, <2>3, <2>4, <2>5 DEF Collected
  <2> QED
    BY <1>4, <2>1, <2>6 DEF ParseInv
<1>5. CASE /\ d.kind = "prefix" /\ d.prefix # <<>> /\ d.value # "invalid"
           /\ prefix_rules' = InsertRule(prefix_rules,
                  [prefix |-> d.prefix, stream_state |-> ParsedRule(d.value)])
           /\ status' = "parsing" /\ default_rule' = default_rule
  <2> DEFINE r == [prefix |-> d.prefix, stream_state |-> ParsedRule(d.value)]
  <2>1. d.prefix \in Prefix /\ d.value \in Value /\ \A p : Concerns(d, p) <=> p = d.prefix
    BY <1>5, Kinds
  <2>2. /\ r \in PrefixRule /\ r.prefix = d.prefix
        /\ r.stream_state = RuleOf(d)
    BY <1>5, <2>1 DEF PrefixRule, ParsedRule, Value, Rule, RuleOf
  <2>3. DistinctPrefixes(prefix_rules)
    BY <1>1 DEF Collected
  <2> DEFINE out == prefix_rules'
  <2>4. out = InsertRule(prefix_rules, r)
    BY <1>5
  <2> HIDE DEF r
  <2>5. /\ out \in Seq(PrefixRule) /\ DistinctPrefixes(out)
        /\ \E i \in 1 .. Len(out) : out[i] = r
        /\ \A i \in 1 .. Len(out) :
              out[i] = r \/ \E k \in 1 .. Len(prefix_rules) :
                               out[i] = prefix_rules[k] /\ prefix_rules[k].prefix # r.prefix
        /\ \A k \in 1 .. Len(prefix_rules) :
              prefix_rules[k].prefix # r.prefix => \E i \in 1 .. Len(out) : out[i] = prefix_rules[k]
    <3>1. InsertedInto(prefix_rules, r, InsertRule(prefix_rules, r))
      BY <1>1, <2>2, <2>3, Inserted
    <3> QED
      BY <2>4, <3>1 DEF InsertedInto
  <2>6. \A i \in 1 .. Len(out), p \in Prefix :
           out[i].prefix = p => p # <<>> /\ About(p)' # {} /\ out[i].stream_state = LastRule(p)'
    <3> SUFFICES ASSUME NEW i \in 1 .. Len(out), NEW p \in Prefix, out[i].prefix = p
                 PROVE  p # <<>> /\ About(p)' # {} /\ out[i].stream_state = LastRule(p)'
      OBVIOUS
    <3> HIDE DEF out
    <3>1. CASE out[i] = r
      BY <3>1, <1>3, <1>5, <2>1, <2>2
    <3>2. CASE out[i] # r
      <4>1. PICK k \in 1 .. Len(prefix_rules) :
                out[i] = prefix_rules[k] /\ prefix_rules[k].prefix # r.prefix
        BY <3>2, <2>5
      <4>2. p # <<>> /\ About(p) # {} /\ prefix_rules[k].stream_state = LastRule(p)
        BY <1>1, <4>1 DEF Collected
      <4>3. ~Concerns(d, p)
        BY <4>1, <2>1, <2>2
      <4> QED
        BY <1>3, <4>1, <4>2, <4>3
    <3> QED
      BY <3>1, <3>2
  <2>7. \A p \in Prefix \ {<<>>} :
           About(p)' # {} => \E i \in 1 .. Len(out) : out[i].prefix = p
    <3> SUFFICES ASSUME NEW p \in Prefix \ {<<>>}, About(p)' # {}
                 PROVE  \E i \in 1 .. Len(out) : out[i].prefix = p
      OBVIOUS
    <3> HIDE DEF out
    <3>1. CASE p = d.prefix
      BY <3>1, <2>2, <2>5
    <3>2. CASE p # d.prefix
      <4>1. About(p) # {}
        BY <3>2, <1>3, <2>1
      <4>2. PICK k \in 1 .. Len(prefix_rules) : prefix_rules[k].prefix = p
        BY <1>1, <4>1 DEF Collected
      <4> QED
        BY <2>2, <2>5, <3>2, <4>2
    <3> QED
      BY <3>1, <3>2
  <2>8. default_rule' = IF About(<<>>)' = {} THEN "off" ELSE LastRule(<<>>)'
    BY <1>1, <1>3, <1>5, <2>1 DEF Collected
  <2>9. Collected'
    BY <2>5, <2>6, <2>7, <2>8 DEF Collected
  <2>10. ParseTypeOK'
    BY <1>2, <1>5, <2>5 DEF ParseTypeOK
  <2> QED
    BY <1>5, <2>9, <2>10 DEF ParseInv
<1>6. CASE status' = "error" /\ UNCHANGED prefix_rules
  BY <1>1, <1>2, <1>6 DEF ParseInv, ParseTypeOK
<1>7. CASE d.kind = "blank"
  <2>1. \A p : ~Concerns(d, p)
    BY <1>7, Kinds
  <2>2. UNCHANGED <<default_rule, prefix_rules, status>>
    BY <1>7 DEF ParseDirective
  <2> QED
    BY <1>1, <1>4, <2>1, <2>2
<1>8. CASE d.kind = "rule"
  <2>1. \A p : Concerns(d, p) <=> p = <<>>
    BY <1>8, Kinds
  <2>2. default_rule' = d.rule /\ UNCHANGED <<prefix_rules, status>>
    BY <1>8 DEF ParseDirective
  <2> QED
    BY <1>1, <1>4, <1>8, <2>1, <2>2 DEF RuleOf
<1>9. CASE d.kind = "prefix"
  <2>1. \A p : Concerns(d, p) <=> p = d.prefix
    BY <1>9, Kinds
  <2>2. CASE d.value = "invalid"
    BY <1>6, <1>9, <2>2 DEF ParseDirective
  <2>3. CASE d.value # "invalid" /\ d.prefix = <<>>
    <3>1. default_rule' = ParsedRule(d.value) /\ UNCHANGED <<prefix_rules, status>>
      BY <1>9, <2>3 DEF ParseDirective
    <3> QED
      BY <1>1, <1>4, <1>9, <2>1, <2>3, <3>1 DEF RuleOf
  <2>4. CASE d.value # "invalid" /\ d.prefix # <<>>
    <3>1. /\ prefix_rules' = InsertRule(prefix_rules,
                 [prefix |-> d.prefix, stream_state |-> ParsedRule(d.value)])
          /\ UNCHANGED <<default_rule, status>>
      BY <1>9, <2>4 DEF ParseDirective
    <3> QED
      BY <1>1, <1>5, <1>9, <2>4, <3>1
  <2> QED
    BY <2>2, <2>3, <2>4
<1> QED
  BY <1>7, <1>8, <1>9, Kinds

\* The rules are sorted, and otherwise stay as they are.
LEMMA StepFinish ==
  ASSUME ParseInv, FinishParsing
  PROVE  ParseInv'
<1>1. /\ status = "parsing" /\ status' = "parsed" /\ prefix_rules' = SortBy(prefix_rules)
      /\ input' = input /\ default_rule' = default_rule
  BY DEF FinishParsing
<1>2. prefix_rules \in Seq(PrefixRule) /\ Collected /\ input \in Seq(Directive)
  BY <1>1 DEF ParseInv, ParseTypeOK
<1>3. DistinctPrefixes(prefix_rules) /\ DOMAIN prefix_rules = 1 .. Len(prefix_rules)
  BY <1>2, SMTT(30) DEF Collected
<1> DEFINE out == SortBy(prefix_rules)
<1>4. /\ out \in Seq(PrefixRule) /\ DistinctPrefixes(out)
      /\ \A i, j \in DOMAIN out : i < j => RuleLess(out[i], out[j])
      /\ \A i \in DOMAIN out : \E k \in DOMAIN prefix_rules : out[i] = prefix_rules[k]
      /\ \A k \in DOMAIN prefix_rules : \E i \in DOMAIN out : out[i] = prefix_rules[k]
  BY <1>2, <1>3, SortedRules
<1>5. DOMAIN out = 1 .. Len(out)
  <2> HIDE DEF out
  <2> QED
    BY <1>4, SMTT(30)
<1>6. prefix_rules' = out
  BY <1>1
<1> HIDE DEF out
<1>7. ParseTypeOK'
  BY <1>1, <1>2, <1>4, <1>6 DEF ParseTypeOK
<1>8. SortedInv'
  <2>1. \A i, j \in 1 .. Len(prefix_rules') :
            i < j => RuleLess(prefix_rules'[i], prefix_rules'[j])
    BY <1>4, <1>5, <1>6
  <2> QED
    BY <2>1 DEF SortedInv, RuleLess, LexLess, StartsWith
<1>9. \A p : About(p)' = About(p) /\ LastRule(p)' = LastRule(p)
  BY <1>1 DEF About, LastRule, RuleOf, ParsedRule
<1>10. \A i \in 1 .. Len(out), p \in Prefix :
           out[i].prefix = p => p # <<>> /\ About(p) # {} /\ out[i].stream_state = LastRule(p)
  <2> SUFFICES ASSUME NEW i \in DOMAIN out, NEW p \in Prefix, out[i].prefix = p
               PROVE  p # <<>> /\ About(p) # {} /\ out[i].stream_state = LastRule(p)
    BY <1>5
  <2>1. PICK k \in 1 .. Len(prefix_rules) : out[i] = prefix_rules[k]
    BY <1>3, <1>4
  <2>2. prefix_rules[k].prefix = p
    BY <2>1
  <2>3. p # <<>> /\ About(p) # {} /\ prefix_rules[k].stream_state = LastRule(p)
    BY <1>2, <2>2 DEF Collected
  <2> QED
    BY <2>1, <2>3
<1>11. \A p \in Prefix \ {<<>>} :
           About(p) # {} => \E i \in 1 .. Len(out) : out[i].prefix = p
  <2> SUFFICES ASSUME NEW p \in Prefix \ {<<>>}, About(p) # {}
               PROVE  \E i \in DOMAIN out : out[i].prefix = p
    BY <1>5
  <2>1. PICK k \in DOMAIN prefix_rules : prefix_rules[k].prefix = p
    BY <1>2, <1>3 DEF Collected
  <2>2. PICK i \in DOMAIN out : out[i] = prefix_rules[k]
    BY <1>4
  <2> QED
    BY <2>1, <2>2
<1>12. default_rule = IF About(<<>>) = {} THEN "off" ELSE LastRule(<<>>)
  BY <1>2 DEF Collected
<1>13. Collected'
  <2>1. DistinctPrefixes(prefix_rules)'
    BY <1>4, <1>6 DEF DistinctPrefixes
  <2>2. (default_rule = IF About(<<>>) = {} THEN "off" ELSE LastRule(<<>>))'
    BY <1>1, <1>9, <1>12
  <2>3. (\A i \in 1 .. Len(prefix_rules), p \in Prefix :
            prefix_rules[i].prefix = p =>
                p # <<>> /\ About(p) # {} /\ prefix_rules[i].stream_state = LastRule(p))'
    BY <1>6, <1>9, <1>10
  <2>4. (\A p \in Prefix \ {<<>>} :
            About(p) # {} => \E i \in 1 .. Len(prefix_rules) : prefix_rules[i].prefix = p)'
    BY <1>6, <1>9, <1>11
  <2> QED
    BY <2>1, <2>2, <2>3, <2>4 DEF Collected
<1> QED
  BY <1>1, <1>7, <1>8, <1>13 DEF ParseInv

\* ParseInv holds at every point of from_str.
THEOREM ParseInvAlways == ParseSpec => []ParseInv
<1>1. ParseInv /\ [ParseNext]_parseVars => ParseInv'
  <2> SUFFICES ASSUME ParseInv, [ParseNext]_parseVars PROVE ParseInv'
    OBVIOUS
  <2>1. ASSUME NEW d \in Directive, ParseDirective(d) PROVE ParseInv'
    BY <2>1, StepDirective
  <2>2. CASE FinishParsing
    BY <2>2, StepFinish
  <2>3. CASE UNCHANGED parseVars
    <3>1. /\ input' = input /\ default_rule' = default_rule
          /\ prefix_rules' = prefix_rules /\ status' = status
      BY <2>3 DEF parseVars
    <3>2. \A p : About(p)' = About(p) /\ LastRule(p)' = LastRule(p)
      BY <3>1 DEF About, LastRule, RuleOf, ParsedRule
    <3>3. ParseTypeOK'
      BY <3>1 DEF ParseInv, ParseTypeOK
    <3>4. Collected => Collected'
      BY <3>1, <3>2 DEF Collected
    <3>5. SortedInv => SortedInv'
      BY <3>1 DEF SortedInv
    <3> QED
      BY <3>1, <3>3, <3>4, <3>5 DEF ParseInv
  <2> QED
    BY <2>1, <2>2, <2>3 DEF ParseNext, ParsingFinished
<1> QED
  BY ParseInitInv, <1>1, PTL DEF ParseSpec

\* A parsed policy is sorted, and has exactly one rule for each prefix that some
\* directive names, the one of the last such directive.
THEOREM NormalForm == ParseSpec => []PolicyIsNormalForm
<1>1. ParseInv => PolicyIsNormalForm
  <2> SUFFICES ASSUME ParseInv, status = "parsed" PROVE PolicyIsNormalForm
    BY DEF PolicyIsNormalForm
  <2>1. /\ prefix_rules \in Seq(PrefixRule) /\ Collected /\ SortedInv
        /\ DOMAIN prefix_rules = 1 .. Len(prefix_rules)
    BY SMTT(30) DEF ParseInv, ParseTypeOK
  <2>2. \A i, j \in DOMAIN prefix_rules : i < j => RuleLess(prefix_rules[i], prefix_rules[j])
    BY <2>1 DEF SortedInv
  <2> DEFINE Named == {q \in Prefix \ {<<>>} : About(q) # {}}
             R(p) == [prefix |-> p, stream_state |-> LastRule(p)]
  <2>3. ASSUME NEW i \in DOMAIN prefix_rules
        PROVE  \E p \in Named : prefix_rules[i] = R(p)
    <3> DEFINE p == prefix_rules[i].prefix
    <3>1. prefix_rules[i] \in PrefixRule
      BY <2>1, SMTT(30)
    <3>2. p \in Prefix /\ prefix_rules[i] = [prefix |-> p, stream_state |-> prefix_rules[i].stream_state]
      BY <3>1 DEF PrefixRule
    <3>3. p \in Named /\ prefix_rules[i].stream_state = LastRule(p)
      BY <2>1, <3>2 DEF Collected
    <3> QED
      BY <3>2, <3>3
  <2>4. ASSUME NEW p \in Named
        PROVE  \E i \in DOMAIN prefix_rules : prefix_rules[i] = R(p)
    <3>1. PICK i \in DOMAIN prefix_rules : prefix_rules[i].prefix = p
      BY <2>1 DEF Collected
    <3>2. prefix_rules[i].stream_state = LastRule(p)
      BY <2>1, <3>1 DEF Collected
    <3>3. prefix_rules[i] \in PrefixRule
      BY <2>1, SMTT(30)
    <3>4. prefix_rules[i] = R(p)
      BY <3>1, <3>2, <3>3 DEF PrefixRule
    <3> QED
      BY <3>4
  <2>5. {prefix_rules[i] : i \in DOMAIN prefix_rules} = {R(p) : p \in Named}
    BY <2>3, <2>4
  <2> QED
    BY <2>2, <2>5 DEF PolicyIsNormalForm
<1> QED
  BY ParseInvAlways, <1>1, PTL

\* A name has one prefix of each length.
LEMMA OnePrefix ==
  ASSUME NEW p \in Seq(Nat), NEW q \in Seq(Nat), NEW n \in Seq(Nat), Len(p) = Len(q),
         StartsWith(n, p), StartsWith(n, q)
  PROVE  p = q
<1>1. SubSeq(p, 1, Len(p)) = p /\ SubSeq(q, 1, Len(q)) = q
  BY SMTT(30)
<1> QED
  BY <1>1 DEF StartsWith

\* stream_rule follows the last directive of the longest prefix of the name.
THEOREM LongestPrefix == ParseSpec => []LongestPrefixLastDirectiveWins
<1>1. ASSUME ParseInv, status = "parsed", NEW n \in StreamName
      PROVE  StreamRule(n) = ExpectedRule(n)
  <2> DEFINE D == 1 .. Len(prefix_rules)
             named == {p \in Prefix \cup {<<>>} : About(p) # {} /\ StartsWith(n, p)}
             longest == CHOOSE p \in named : \A q \in named : Len(q) <= Len(p)
             matches == {i \in D : StartsWith(n, prefix_rules[i].prefix)}
  <2>1. /\ prefix_rules \in Seq(PrefixRule) /\ Collected /\ SortedInv
        /\ DOMAIN prefix_rules = D /\ Len(prefix_rules) \in Nat
    BY <1>1, SMTT(30) DEF ParseInv, ParseTypeOK
  <2>2. n \in Seq(Nat) /\ \A p \in Prefix \cup {<<>>} : p \in Seq(Nat) /\ Len(p) \in Nat
    <3>1. n \in Seq(Nat) /\ \A p \in Prefix : p \in Seq(Nat)
      BY <1>1, PolicyAssumption, Zenon
    <3>2. \A p \in Seq(Nat) : Len(p) \in Nat
      BY SMTT(30)
    <3>3. <<>> \in Seq(Nat)
      BY SMTT(30)
    <3> QED
      BY <3>1, <3>2, <3>3, Zenon
  <2>3. StreamRule(n) = IF matches = {} THEN default_rule
                        ELSE prefix_rules[Max(matches)].stream_state
    BY <2>1 DEF StreamRule
  <2>4. ExpectedRule(n) = IF named = {} THEN "off" ELSE LastRule(longest)
    BY DEF ExpectedRule
  <2>5. ASSUME NEW p \in named, \A q \in named : Len(q) <= Len(p)
        PROVE  longest = p
    <3>1. longest \in named /\ \A q \in named : Len(q) <= Len(longest)
      BY <2>5
    <3> HIDE DEF longest
    <3>2. /\ longest \in Seq(Nat) /\ p \in Seq(Nat)
          /\ StartsWith(n, longest) /\ StartsWith(n, p)
      BY <2>2, <3>1
    <3>3. Len(longest) <= Len(p) /\ Len(p) <= Len(longest)
      BY <2>5, <3>1
    <3>4. Len(longest) = Len(p)
      BY <3>2, <3>3, SMTT(30)
    <3> QED
      BY <2>2, <3>2, <3>4, OnePrefix
  <2>6. ASSUME NEW q \in named, q # <<>>
        PROVE  \E i \in matches : prefix_rules[i].prefix = q
    <3>1. q \in Prefix \ {<<>>} /\ About(q) # {} /\ StartsWith(n, q)
      BY <2>6
    <3>2. PICK i \in D : prefix_rules[i].prefix = q
      BY <2>1, <3>1 DEF Collected
    <3> QED
      BY <3>1, <3>2
  <2>7. CASE matches = {}
    <3>1. \A q \in named : q = <<>>
      BY <2>6, <2>7
    <3>2. <<>> \in named <=> About(<<>>) # {}
      <4>1. StartsWith(n, <<>>)
        <5>1. SubSeq(n, 1, 0) = <<>> /\ SubSeq(<<>>, 1, 0) = <<>> /\ Len(n) \in Nat
          BY <2>2, SMTT(30)
        <5> QED
          BY <5>1, SMTT(30) DEF StartsWith
      <4> QED
        BY <4>1
    <3>3. default_rule = IF About(<<>>) = {} THEN "off" ELSE LastRule(<<>>)
      BY <2>1 DEF Collected
    <3>4. CASE About(<<>>) = {}
      <4>1. named = {}
        BY <3>1, <3>2, <3>4
      <4> QED
        BY <2>3, <2>4, <2>7, <3>3, <3>4, <4>1
    <3>5. CASE About(<<>>) # {}
      <4>1. <<>> \in named /\ \A q \in named : Len(q) <= Len(<<>>)
        BY <2>2, <3>1, <3>2, <3>5, SMTT(30)
      <4> HIDE DEF named
      <4>2. longest = <<>>
        BY <2>5, <4>1
      <4> QED
        BY <2>3, <2>4, <2>7, <3>3, <3>5, <4>1, <4>2
    <3> QED
      BY <3>4, <3>5
  <2>8. CASE matches # {}
    <3> DEFINE m == Max(matches)
               p == prefix_rules[m].prefix
    <3>1. m \in matches /\ \A i \in matches : i =< m
      <4>1. matches \subseteq 1 .. Len(prefix_rules)
        OBVIOUS
      <4> HIDE DEF matches
      <4> QED
        BY <2>1, <2>8, <4>1, MaxOfPositions
    <3> HIDE DEF m
    <3>2. m \in D /\ prefix_rules[m] \in PrefixRule /\ StartsWith(n, p)
      BY <2>1, <3>1, SMTT(30)
    <3>3. p \in Prefix
      BY <3>2 DEF PrefixRule
    <3>4. p # <<>> /\ About(p) # {} /\ prefix_rules[m].stream_state = LastRule(p)
      BY <2>1, <3>2, <3>3 DEF Collected
    <3>5. p \in named
      BY <3>2, <3>3, <3>4
    <3>6. \A q \in named : Len(q) <= Len(p)
      <4> SUFFICES ASSUME NEW q \in named PROVE Len(q) <= Len(p)
        OBVIOUS
      <4>1. q \in Prefix \cup {<<>>} /\ Len(q) \in Nat /\ Len(p) \in Nat
        BY <2>2, <3>3
      <4>2. CASE q = <<>>
        BY <4>1, <4>2, SMTT(30)
      <4>3. CASE q # <<>>
        <5>1. PICK i \in matches : prefix_rules[i].prefix = q
          BY <2>6, <4>3
        <5>2. i \in D /\ i =< m /\ prefix_rules[i] \in PrefixRule
          BY <2>1, <3>1, <5>1, SMTT(30)
        <5>3. CASE i = m
          BY <4>1, <5>1, <5>3, SMTT(30)
        <5>4. CASE i # m
          <6>1. i < m
            BY <3>2, <5>2, <5>4, SMTT(30)
          <6>2. RuleLess(prefix_rules[i], prefix_rules[m])
            BY <2>1, <3>2, <5>2, <6>1 DEF SortedInv
          <6> QED
            BY <3>2, <5>1, <5>2, <6>2, RuleOrder
        <5> QED
          BY <5>3, <5>4
      <4> QED
        BY <4>2, <4>3
    <3>7. longest = p
      <4> HIDE DEF named, p, longest
      <4> QED
        BY <2>5, <3>5, <3>6
    <3>8. StreamRule(n) = prefix_rules[m].stream_state
      BY <2>3, <2>8 DEF m
    <3>9. ExpectedRule(n) = LastRule(p)
      <4> HIDE DEF named, p, longest
      <4> QED
        BY <2>4, <3>5, <3>7
    <3> QED
      BY <3>4, <3>8, <3>9
  <2> QED
    BY <2>7, <2>8
<1>2. ParseInv => LongestPrefixLastDirectiveWins
  BY <1>1 DEF LongestPrefixLastDirectiveWins
<1> QED
  BY ParseInvAlways, <1>2, PTL

-----------------------------------------------------------------------------
(***************************************************************************)
(* The safety properties of StreamFiles and StreamDiscovery for any number *)
(* of queues, names, descriptors and explorers.                            *)
(*                                                                         *)
(* Removals work on paths, so the danger is that one hits a younger queue  *)
(* of the same name.  The invariant shows why none does: a queue stays at  *)
(* its path, with both entries, until its own removal has opened the       *)
(* directory, because a rename does not replace a directory with entries.  *)
(* So what a removal opens and empties is always its own directory.  For   *)
(* the explorers, everything found through one directory descriptor is of  *)
(* one queue; only what follows the link can be of another, and that is    *)
(* what the identifier is compared for.                                    *)
(***************************************************************************)

QueueState == {"unused", "published", "gone"} \cup Creating \cup Removing
ExplorerState == {"idle", "listed", "opened", "schema", "found", "resolving",
                  "followed", "joining", "available", "connected", "failed"}

FilesTypeOK ==
    /\ qpc \in [Queue -> QueueState]
    /\ qname \in [Queue -> Name \cup {None}]
    /\ entries \in [Queue -> SUBSET {"schema", "link"}]
    /\ opened \in [Queue -> Queue \cup {None}]
    /\ path \in [Name -> Queue \cup {None}]
    /\ fds \in [Fd -> Queue \cup {None, Other}]
    /\ fdOf \in [Queue -> Nat]

ExplorerTypeOK ==
    /\ epc \in [Explorer -> ExplorerState]
    /\ ename \in [Explorer -> Name \cup {None}]
    /\ dir \in [Explorer -> Queue \cup {None}]
    /\ schema \in [Explorer -> Queue \cup {None}]
    /\ expected \in [Explorer -> Queue \cup {None}]
    /\ number \in [Explorer -> Nat]
    /\ file \in [Explorer -> Queue \cup {None, Other}]
    /\ decoded \in [Explorer -> Type \cup {None}]

\* A queue has its name and its descriptor from the steps that set them on.
Assigned ==
    \A q \in Queue :
        /\ qpc[q] # "unused" => qname[q] \in Name
        /\ qpc[q] \notin {"unused", "staged", "gone"} => fdOf[q] \in Fd /\ fds[fdOf[q]] = q

\* Its directory is complete and at its path until its own removal is at work.
InPlace ==
    \A q \in Queue :
        /\ qpc[q] \in {"staged", "allocated", "initialised", "sealed"} =>
              entries[q] = {"schema"}
        /\ qpc[q] \in {"linked", "published", "opening"} => entries[q] = {"schema", "link"}
        /\ qpc[q] \in {"published", "opening"} => path[qname[q]] = q
        /\ qpc[q] = "unlinking" => opened[q] = q

\* What is at a path was published there, and is on its way out at most.
PathInv ==
    \A n \in Name, q \in Queue :
        path[n] = q =>
            /\ qname[q] = n
            /\ fdOf[q] \in Fd
            /\ qpc[q] \in {"published", "opening", "unlinking", "gone"}
            /\ qpc[q] = "gone" => crashed

\* The seals come after the header, whatever becomes of the queue later.
MemoryInv ==
    /\ memory \in [Queue -> SUBSET {"header", "seals"}]
    /\ \A q \in Queue :
          /\ qpc[q] = "initialised" => Initialised(q)
          /\ Sealed(q) => Initialised(q)

\* What an explorer has learnt through its directory descriptor.
Learnt(x) ==
    /\ epc[x] = "listed" => ename[x] \in Name
    /\ epc[x] \notin {"idle", "listed", "failed"} =>
          /\ dir[x] \in Queue
          /\ qname[dir[x]] = ename[x]
          /\ qpc[dir[x]] \notin {"unused"} \cup Creating
          /\ fdOf[dir[x]] \in Fd
    /\ epc[x] \in {"schema", "found", "resolving", "followed", "joining", "available",
                  "connected"} => schema[x] = dir[x]
    /\ epc[x] \in {"found", "resolving", "followed", "joining", "available",
                  "connected"} => expected[x] = dir[x]
    /\ epc[x] = "resolving" => number[x] \in Fd
    /\ epc[x] = "followed" => file[x] # None
    /\ epc[x] \in {"joining", "available", "connected"} =>
          file[x] \in Queue /\ Sealed(file[x])
    /\ epc[x] \in {"available", "connected"} => file[x] = expected[x]
    /\ epc[x] = "connected" => decoded[x] = TypeOf[schema[x]]

ExplorerInv == \A x \in Explorer : Learnt(x)

FilesInv == FilesTypeOK /\ Assigned /\ InPlace /\ PathInv
DiscoveryIInv == FilesInv /\ MemoryInv /\ ExplorerTypeOK /\ ExplorerInv

(* Nothing is published and no explorer has started.                         *)
LEMMA DiscoveryInitIInv == DiscoveryInit => DiscoveryIInv
<1> SUFFICES ASSUME DiscoveryInit PROVE DiscoveryIInv
  OBVIOUS
<1> USE FilesAssumption DEF DiscoveryInit, FilesInit
<1>1. FilesTypeOK
  BY DEF FilesTypeOK, QueueState
<1>2. Assigned /\ InPlace /\ PathInv
  BY DEF Assigned, InPlace, PathInv
<1>3. ExplorerTypeOK /\ ExplorerInv
  BY DEF ExplorerTypeOK, ExplorerState, ExplorerInv, Learnt
<1>4. MemoryInv
  BY DEF MemoryInv, Sealed
<1> QED
  BY <1>1, <1>2, <1>3, <1>4 DEF DiscoveryIInv, FilesInv

(* Every step of the publishing process keeps the part about the files.      *)
LEMMA FilesNextInv == FilesInv /\ FilesNext => FilesInv'
<1> SUFFICES ASSUME FilesInv, FilesNext PROVE FilesInv'
  OBVIOUS
<1> USE FilesAssumption DEF FilesInv, FilesTypeOK, QueueState, Creating, Removing, Fd
<1>1. ASSUME NEW q \in Queue, NEW n \in Name, Stage(q, n) PROVE FilesInv'
  <2> USE <1>1 DEF Stage
  <2>1. FilesTypeOK'
    BY DEF Assigned
  <2>2. Assigned'
    BY DEF Assigned
  <2>3. InPlace'
    BY SMTT(30) DEF Assigned, InPlace, PathInv
  <2>4. PathInv'
    BY SMTT(30) DEF Assigned, InPlace, PathInv
  <2> QED
    BY <2>1, <2>2, <2>3, <2>4
<1>2. ASSUME NEW q \in Queue, Allocate(q) PROVE FilesInv'
  <2> USE <1>2 DEF Allocate
  <2>1. FilesTypeOK'
    BY SMTT(30) DEF Assigned
  <2>2. Assigned'
    BY SMTT(30) DEF Assigned
  <2>3. InPlace'
    BY SMTT(30) DEF Assigned, InPlace, PathInv
  <2>4. PathInv'
    BY SMTT(30) DEF Assigned, InPlace, PathInv
  <2> QED
    BY <2>1, <2>2, <2>3, <2>4
<1>3. ASSUME NEW q \in Queue, InitialiseQueue(q) PROVE FilesInv'
  BY <1>3, SMTT(30) DEF Assigned, InPlace, PathInv, InitialiseQueue
<1>4. ASSUME NEW q \in Queue, Seal(q) PROVE FilesInv'
  BY <1>4, SMTT(30) DEF Assigned, InPlace, PathInv, Seal
<1>5. ASSUME NEW q \in Queue, Link(q) PROVE FilesInv'
  <2> USE <1>5 DEF Link
  <2>1. FilesTypeOK'
    BY DEF Assigned
  <2>2. Assigned'
    BY DEF Assigned
  <2>3. InPlace'
    BY SMTT(30) DEF Assigned, InPlace, PathInv
  <2>4. PathInv'
    BY SMTT(30) DEF Assigned, InPlace, PathInv
  <2> QED
    BY <2>1, <2>2, <2>3, <2>4
<1>6. ASSUME NEW q \in Queue, Publish(q) PROVE FilesInv'
  <2> USE <1>6 DEF Publish
  <2>1. FilesTypeOK'
    BY DEF Assigned
  <2>2. Assigned'
    BY DEF Assigned
  <2>3. InPlace'
    <3>1. \A r \in Queue : qpc[r] \in {"published", "opening"} => "link" \in entries[r]
      BY SMTT(30) DEF InPlace
    <3> QED
      BY <3>1, SMTT(30) DEF Assigned, InPlace, PathInv
  <2>4. PathInv'
    <3> SUFFICES ASSUME NEW m \in Name, NEW r \in Queue, path'[m] = r
                 PROVE  /\ qname'[r] = m
                        /\ fdOf'[r] \in Fd
                        /\ qpc'[r] \in {"published", "opening", "unlinking", "gone"}
                        /\ qpc'[r] = "gone" => crashed'
      BY DEF PathInv
    <3>1. qname[q] \in Name
      BY DEF Assigned
    <3>2. CASE m = qname[q]
      <4>1. r = q
        BY <3>1, <3>2
      <4> QED
        BY <3>2, <4>1 DEF Assigned
    <3>3. CASE m # qname[q]
      <4>1. path[m] = r
        BY <3>1, <3>3
      <4> QED
        BY <4>1 DEF PathInv
    <3> QED
      BY <3>2, <3>3
  <2> QED
    BY <2>1, <2>2, <2>3, <2>4
<1>7. ASSUME NEW q \in Queue, CreateFails(q) PROVE FilesInv'
  <2> USE <1>7 DEF CreateFails
  <2>1. FilesTypeOK'
    BY DEF Assigned
  <2>2. Assigned'
    BY DEF Assigned
  <2>3. InPlace'
    BY SMTT(30) DEF Assigned, InPlace, PathInv
  <2>4. PathInv'
    <3> SUFFICES ASSUME NEW m \in Name, NEW r \in Queue, path'[m] = r
                 PROVE  /\ qname'[r] = m
                        /\ fdOf'[r] \in Fd
                        /\ qpc'[r] \in {"published", "opening", "unlinking", "gone"}
                        /\ qpc'[r] = "gone" => crashed'
      BY DEF PathInv
    <3> QED
      BY DEF Assigned, InPlace, PathInv
  <2> QED
    BY <2>1, <2>2, <2>3, <2>4
<1>8. ASSUME NEW q \in Queue, BeginDrop(q) PROVE FilesInv'
  BY <1>8, SMTT(30) DEF Assigned, InPlace, PathInv, BeginDrop
<1>9. ASSUME NEW q \in Queue, OpenForRemoval(q) PROVE FilesInv'
  <2> USE <1>9 DEF OpenForRemoval
  <2>1. FilesTypeOK'
    BY DEF Assigned
  <2>2. Assigned'
    BY DEF Assigned
  <2>3. InPlace'
    BY SMTT(30) DEF Assigned, InPlace, PathInv
  <2>4. PathInv'
    BY SMTT(30) DEF Assigned, InPlace, PathInv
  <2> QED
    BY <2>1, <2>2, <2>3, <2>4
<1>10. ASSUME NEW q \in Queue, Unlink(q) PROVE FilesInv'
  <2> USE <1>10 DEF Unlink
  <2>1. FilesTypeOK'
    BY SMTT(30) DEF InPlace
  <2>2. Assigned'
    BY DEF Assigned
  <2>3. InPlace'
    BY SMTT(30) DEF Assigned, InPlace, PathInv
  <2>4. PathInv'
    BY DEF Assigned, InPlace, PathInv
  <2> QED
    BY <2>1, <2>2, <2>3, <2>4
<1>11. ASSUME NEW q \in Queue, RemoveDirectory(q) PROVE FilesInv'
  <2> USE <1>11 DEF RemoveDirectory
  <2>1. FilesTypeOK'
    BY DEF Assigned
  <2>2. Assigned'
    BY DEF Assigned
  <2>3. InPlace'
    <3>1. \A r \in Queue : qpc[r] \in {"published", "opening"} => "link" \in entries[r]
      BY DEF InPlace
    <3> QED
      BY <3>1, SMTT(30) DEF Assigned, InPlace, PathInv
  <2>4. PathInv'
    BY SMTT(30) DEF Assigned, InPlace, PathInv
  <2> QED
    BY <2>1, <2>2, <2>3, <2>4
<1>12. ASSUME NEW q \in Queue, CloseQueueFile(q) PROVE FilesInv'
  <2> USE <1>12 DEF CloseQueueFile
  <2>1. FilesTypeOK'
    BY DEF Assigned
  <2>2. Assigned'
    BY DEF Assigned
  <2>3. InPlace'
    BY SMTT(30) DEF Assigned, InPlace, PathInv
  <2>4. PathInv'
    BY SMTT(30) DEF Assigned, InPlace, PathInv
  <2> QED
    BY <2>1, <2>2, <2>3, <2>4
<1>13. ASSUME OpenOther PROVE FilesInv'
  BY <1>13, SMTT(30) DEF Assigned, InPlace, PathInv, OpenOther
<1>14. ASSUME CloseOther PROVE FilesInv'
  BY <1>14, SMTT(30) DEF Assigned, InPlace, PathInv, CloseOther
<1>15. ASSUME Crash PROVE FilesInv'
  <2> USE <1>15 DEF Crash
  <2>1. FilesTypeOK'
    BY DEF Assigned
  <2>2. Assigned'
    BY DEF Assigned
  <2>3. InPlace'
    BY DEF Assigned, InPlace, PathInv
  <2>4. PathInv'
    BY DEF Assigned, InPlace, PathInv
  <2> QED
    BY <2>1, <2>2, <2>3, <2>4
<1> QED
  BY <1>1, <1>2, <1>3, <1>4, <1>5, <1>6, <1>7, <1>8, <1>9, <1>10, <1>11,
     <1>12, <1>13, <1>14, <1>15 DEF FilesNext

(* A file that was sealed was initialised before, and stays sealed when its  *)
(* creation fails, its queue is dropped or its process is killed.            *)
LEMMA MemoryNext ==
    ASSUME FilesInv, MemoryInv, FilesNext
    PROVE  MemoryInv' /\ \A r \in Queue : Sealed(r) => Sealed(r)'
<1> USE DEF FilesInv, FilesTypeOK, Creating
<1>1. ASSUME NEW q \in Queue, InitialiseQueue(q)
      PROVE  MemoryInv' /\ \A r \in Queue : Sealed(r) => Sealed(r)'
  BY <1>1, SMTT(30) DEF InitialiseQueue, MemoryInv, Initialised, Sealed
<1>2. ASSUME NEW q \in Queue, Seal(q)
      PROVE  MemoryInv' /\ \A r \in Queue : Sealed(r) => Sealed(r)'
  BY <1>2, SMTT(30) DEF Seal, MemoryInv, Initialised, Sealed
<1>3. ASSUME memory' = memory,
             \A r \in Queue : qpc'[r] = "initialised" => qpc[r] = "initialised"
      PROVE  MemoryInv' /\ \A r \in Queue : Sealed(r) => Sealed(r)'
  BY <1>3 DEF MemoryInv, Initialised, Sealed
<1>4. ASSUME NEW q \in Queue,
             \/ \E n \in Name : Stage(q, n)
             \/ Allocate(q) \/ Link(q) \/ Publish(q) \/ CreateFails(q)
      PROVE  /\ memory' = memory
             /\ \A r \in Queue : qpc'[r] = "initialised" => qpc[r] = "initialised"
  BY <1>4 DEF Stage, Allocate, Link, Publish, CreateFails
<1>5. ASSUME NEW q \in Queue,
             BeginDrop(q) \/ OpenForRemoval(q) \/ Unlink(q) \/ RemoveDirectory(q)
               \/ CloseQueueFile(q)
      PROVE  /\ memory' = memory
             /\ \A r \in Queue : qpc'[r] = "initialised" => qpc[r] = "initialised"
  BY <1>5 DEF BeginDrop, OpenForRemoval, Unlink, RemoveDirectory, CloseQueueFile
<1>6. ASSUME OpenOther \/ CloseOther \/ Crash
      PROVE  /\ memory' = memory
             /\ \A r \in Queue : qpc'[r] = "initialised" => qpc[r] = "initialised"
  BY <1>6 DEF OpenOther, CloseOther, Crash
<1> QED
  BY <1>1, <1>2, <1>3, <1>4, <1>5, <1>6 DEF FilesNext

(* What an explorer relies on is never taken back: a queue that was published *)
(* keeps its name and its descriptor number.                                  *)
LEMMA FilesNextKeeps ==
    ASSUME FilesInv, FilesNext, NEW r \in Queue
    PROVE  qpc[r] \notin {"unused"} \cup Creating =>
               /\ qpc'[r] \notin {"unused"} \cup Creating
               /\ qname'[r] = qname[r]
               /\ fdOf'[r] = fdOf[r]
<1> USE DEF FilesInv, FilesTypeOK, Creating, Removing
<1>1. ASSUME NEW q \in Queue, NEW n \in Name, Stage(q, n)
      PROVE  qpc' = [qpc EXCEPT ![q] = "staged"] /\ qpc[q] = "unused"
               /\ fdOf' = fdOf /\ qname' = [qname EXCEPT ![q] = n]
  BY <1>1 DEF Stage
<1>2. ASSUME NEW q \in Queue, Allocate(q)
      PROVE  /\ qpc' = [qpc EXCEPT ![q] = "allocated"] /\ qpc[q] = "staged"
             /\ qname' = qname /\ \A p \in Queue \ {q} : fdOf'[p] = fdOf[p]
  BY <1>2 DEF Allocate
<1>3. ASSUME NEW q \in Queue,
             InitialiseQueue(q) \/ Seal(q) \/ Link(q) \/ Publish(q) \/ CreateFails(q)
      PROVE  /\ qname' = qname /\ fdOf' = fdOf /\ qpc[q] \in Creating
             /\ \A p \in Queue \ {q} : qpc'[p] = qpc[p]
  BY <1>3 DEF InitialiseQueue, Seal, Link, Publish, CreateFails
<1>4. ASSUME NEW q \in Queue,
             BeginDrop(q) \/ OpenForRemoval(q) \/ Unlink(q) \/ RemoveDirectory(q)
               \/ CloseQueueFile(q)
      PROVE  /\ qname' = qname /\ fdOf' = fdOf
             /\ \A p \in Queue : qpc'[p] = qpc[p] \/ qpc'[p] \in Removing \cup {"gone"}
  BY <1>4 DEF BeginDrop, OpenForRemoval, Unlink, RemoveDirectory, CloseQueueFile
<1>5. ASSUME OpenOther \/ CloseOther \/ Crash
      PROVE  /\ qname' = qname /\ fdOf' = fdOf
             /\ \A p \in Queue : qpc'[p] = qpc[p] \/ (qpc[p] # "unused" /\ qpc'[p] = "gone")
  BY <1>5, SMTT(30) DEF OpenOther, CloseOther, Crash
<1> QED
  BY <1>1, <1>2, <1>3, <1>4, <1>5 DEF FilesNext

\* A step of explorer x leaves the files and the other explorers alone.
Alone(x) ==
    /\ UNCHANGED fileVars
    /\ \A y \in Explorer \ {x} :
          /\ epc'[y] = epc[y] /\ ename'[y] = ename[y] /\ dir'[y] = dir[y]
          /\ schema'[y] = schema[y] /\ expected'[y] = expected[y]
          /\ number'[y] = number[y] /\ file'[y] = file[y] /\ decoded'[y] = decoded[y]

(* So it is enough to look at what x itself has learnt.                      *)
LEMMA OneExplorer ==
    ASSUME DiscoveryIInv, NEW x \in Explorer, Alone(x), ExplorerTypeOK', Learnt(x)'
    PROVE  DiscoveryIInv'
<1>1. FilesInv'
  <2> USE DEF Alone, fileVars
  <2>1. FilesTypeOK'
    BY DEF DiscoveryIInv, FilesInv, FilesTypeOK
  <2>2. Assigned' /\ InPlace'
    BY DEF DiscoveryIInv, FilesInv, Assigned, InPlace
  <2>3. PathInv'
    BY DEF DiscoveryIInv, FilesInv, PathInv
  <2> QED
    BY <2>1, <2>2, <2>3 DEF FilesInv
<1>2. ASSUME NEW y \in Explorer, y # x PROVE Learnt(y)'
  <2>1. Learnt(y)
    BY DEF DiscoveryIInv, ExplorerInv
  <2> QED
    BY <1>2, <2>1 DEF Alone, fileVars, Learnt, Sealed
<1>3. ExplorerInv'
  BY <1>2 DEF ExplorerInv
<1>4. MemoryInv'
  BY DEF DiscoveryIInv, MemoryInv, Initialised, Sealed, Alone, fileVars
<1> QED
  BY <1>1, <1>3, <1>4 DEF DiscoveryIInv

(* Every step keeps the inductive invariant.                                 *)
LEMMA DiscoveryNextIInv == DiscoveryIInv /\ [DiscoveryNext]_discoveryVars => DiscoveryIInv'
<1> SUFFICES ASSUME DiscoveryIInv, [DiscoveryNext]_discoveryVars PROVE DiscoveryIInv'
  OBVIOUS
<1> USE FilesAssumption, TypeAssumption
<1>1. CASE FilesNext /\ UNCHANGED explorerVars
  <2>1. FilesInv'
    BY <1>1, FilesNextInv DEF DiscoveryIInv
  <2>2. ExplorerTypeOK'
    BY <1>1 DEF DiscoveryIInv, ExplorerTypeOK, explorerVars
  <2>3. ASSUME NEW x \in Explorer PROVE Learnt(x)'
    <3>1. Learnt(x) /\ FilesInv /\ MemoryInv
      BY DEF DiscoveryIInv, ExplorerInv
    <3>2. \A r \in Queue : Sealed(r) => Sealed(r)'
      BY <1>1, <3>1, MemoryNext
    <3> QED
      BY <1>1, <3>1, <3>2, FilesNextKeeps DEF Learnt, explorerVars
  <2>4. MemoryInv'
    BY <1>1, MemoryNext DEF DiscoveryIInv
  <2> QED
    BY <2>1, <2>2, <2>3, <2>4 DEF DiscoveryIInv, ExplorerInv
<1>2. FilesTypeOK /\ PathInv /\ ExplorerTypeOK /\ \A x \in Explorer : Learnt(x)
  BY DEF DiscoveryIInv, FilesInv, ExplorerInv
<1>3. ASSUME NEW x \in Explorer PROVE Learnt(x)
  BY <1>2
<1>4. ASSUME NEW x \in Explorer, epc'[x] = "failed" PROVE Learnt(x)'
  BY <1>4 DEF Learnt
<1>5. ASSUME NEW x \in Explorer, ListStream(x) PROVE DiscoveryIInv'
  <2>1. PICK n \in Name : ename' = [ename EXCEPT ![x] = n]
    BY <1>5 DEF ListStream
  <2>2. Alone(x)
    BY <1>2, <1>5 DEF ListStream, Goto, Alone, ExplorerTypeOK
  <2>3. ExplorerTypeOK'
    BY <1>2, <1>5, <2>1 DEF ListStream, Goto, ExplorerTypeOK, ExplorerState
  <2>4. epc'[x] = "listed" /\ ename'[x] \in Name
    BY <1>2, <1>5, <2>1 DEF ListStream, Goto, ExplorerTypeOK
  <2>5. Learnt(x)'
    BY <2>4 DEF Learnt
  <2> QED
    BY <2>2, <2>3, <2>5, OneExplorer
<1>6. ASSUME NEW x \in Explorer, OpenDirectory(x) PROVE DiscoveryIInv'
  <2>1. /\ epc[x] = "listed" /\ path[ename[x]] \in Queue \cup {None}
        /\ path[ename[x]] # None =>
              /\ qname[path[ename[x]]] = ename[x] /\ fdOf[path[ename[x]]] \in Fd
              /\ qpc[path[ename[x]]] \notin {"unused"} \cup Creating
    <3>1. epc[x] = "listed" /\ ename[x] \in Name
      BY <1>3, <1>6 DEF OpenDirectory, Learnt
    <3>2. path[ename[x]] \in Queue \cup {None}
      BY <1>2, <3>1 DEF FilesTypeOK
    <3>3. ASSUME path[ename[x]] \in Queue
          PROVE  /\ qname[path[ename[x]]] = ename[x] /\ fdOf[path[ename[x]]] \in Fd
                 /\ qpc[path[ename[x]]] \in {"published", "opening", "unlinking", "gone"}
      BY <1>2, <3>1, <3>3 DEF PathInv
    <3> QED
      BY <3>1, <3>2, <3>3 DEF Creating
  <2>2. Alone(x)
    BY <1>2, <1>6 DEF OpenDirectory, Goto, Alone, ExplorerTypeOK
  <2>3. ExplorerTypeOK'
    BY <1>2, <1>6, <2>1 DEF OpenDirectory, Goto, ExplorerTypeOK, ExplorerState
  <2>4. ASSUME epc'[x] # "failed" PROVE Learnt(x)'
    <3>1. /\ epc'[x] = "opened" /\ dir'[x] = path[ename[x]] /\ path[ename[x]] # None
          /\ ename'[x] = ename[x] /\ schema'[x] = schema[x] /\ expected'[x] = expected[x]
          /\ number'[x] = number[x] /\ file'[x] = file[x] /\ decoded'[x] = decoded[x]
      BY <1>2, <1>6, <2>1, <2>4 DEF OpenDirectory, Goto, ExplorerTypeOK
    <3>2. Learnt(x) /\ UNCHANGED <<qpc, qname, fdOf, memory>>
      BY <1>3, <2>2 DEF Alone, fileVars
    <3> QED
      BY <2>1, <3>1, <3>2 DEF Learnt, Sealed
  <2> QED
    BY <1>4, <2>2, <2>3, <2>4, OneExplorer
<1>7. ASSUME NEW x \in Explorer, ReadSchema(x) PROVE DiscoveryIInv'
  <2>1. epc[x] = "opened" /\ dir[x] \in Queue
    BY <1>2, <1>3, <1>7 DEF ReadSchema, Learnt
  <2>2. Alone(x)
    BY <1>2, <1>7 DEF ReadSchema, Goto, Alone, ExplorerTypeOK
  <2>3. ExplorerTypeOK'
    BY <1>2, <1>7, <2>1 DEF ReadSchema, Goto, ExplorerTypeOK, ExplorerState
  <2>4. ASSUME epc'[x] # "failed" PROVE Learnt(x)'
    <3>1. /\ epc'[x] = "schema" /\ schema'[x] = dir[x]
          /\ ename'[x] = ename[x] /\ dir'[x] = dir[x] /\ expected'[x] = expected[x]
          /\ number'[x] = number[x] /\ file'[x] = file[x] /\ decoded'[x] = decoded[x]
      BY <1>2, <1>7, <2>1, <2>4 DEF ReadSchema, Goto, ExplorerTypeOK
    <3>2. Learnt(x) /\ UNCHANGED <<qpc, qname, fdOf, memory>>
      BY <1>3, <2>2 DEF Alone, fileVars
    <3> QED
      BY <2>1, <3>1, <3>2 DEF Learnt, Sealed
  <2> QED
    BY <1>4, <2>2, <2>3, <2>4, OneExplorer
<1>8. ASSUME NEW x \in Explorer, FindQueueFile(x) PROVE DiscoveryIInv'
  <2>1. epc[x] = "schema" /\ dir[x] \in Queue
    BY <1>2, <1>3, <1>8 DEF FindQueueFile, Learnt
  <2>2. Alone(x)
    BY <1>2, <1>8 DEF FindQueueFile, Goto, Alone, ExplorerTypeOK
  <2>3. ExplorerTypeOK'
    BY <1>2, <1>8, <2>1 DEF FindQueueFile, Goto, ExplorerTypeOK, ExplorerState
  <2>4. ASSUME epc'[x] # "failed" PROVE Learnt(x)'
    <3>1. /\ epc'[x] = "found" /\ expected'[x] = dir[x]
          /\ ename'[x] = ename[x] /\ dir'[x] = dir[x] /\ schema'[x] = schema[x]
          /\ number'[x] = number[x] /\ file'[x] = file[x] /\ decoded'[x] = decoded[x]
      BY <1>2, <1>8, <2>1, <2>4 DEF FindQueueFile, Goto, ExplorerTypeOK
    <3>2. Learnt(x) /\ UNCHANGED <<qpc, qname, fdOf, memory>>
      BY <1>3, <2>2 DEF Alone, fileVars
    <3> QED
      BY <2>1, <3>1, <3>2 DEF Learnt, Sealed
  <2> QED
    BY <1>4, <2>2, <2>3, <2>4, OneExplorer
<1>9. ASSUME NEW x \in Explorer, ReadLink(x) PROVE DiscoveryIInv'
  <2>1. epc[x] = "found" /\ fdOf[dir[x]] \in Fd /\ fdOf[dir[x]] \in Nat
    BY <1>2, <1>3, <1>9 DEF ReadLink, Learnt, FilesTypeOK
  <2>2. Alone(x)
    BY <1>2, <1>9 DEF ReadLink, Goto, Alone, ExplorerTypeOK
  <2>3. ExplorerTypeOK'
    BY <1>2, <1>9, <2>1 DEF ReadLink, Goto, ExplorerTypeOK, ExplorerState
  <2>4. ASSUME epc'[x] # "failed" PROVE Learnt(x)'
    <3>1. /\ epc'[x] = "resolving" /\ number'[x] = fdOf[dir[x]]
          /\ ename'[x] = ename[x] /\ dir'[x] = dir[x] /\ schema'[x] = schema[x]
          /\ expected'[x] = expected[x] /\ file'[x] = file[x] /\ decoded'[x] = decoded[x]
      BY <1>2, <1>9, <2>1, <2>4 DEF ReadLink, Goto, ExplorerTypeOK
    <3>2. Learnt(x) /\ UNCHANGED <<qpc, qname, fdOf, memory>>
      BY <1>3, <2>2 DEF Alone, fileVars
    <3> QED
      BY <2>1, <3>1, <3>2 DEF Learnt, Sealed
  <2> QED
    BY <1>4, <2>2, <2>3, <2>4, OneExplorer
<1>10. ASSUME NEW x \in Explorer, FollowLink(x) PROVE DiscoveryIInv'
  <2>1. epc[x] = "resolving" /\ fds[number[x]] \in Queue \cup {None, Other}
    BY <1>2, <1>3, <1>10 DEF FollowLink, Learnt, FilesTypeOK
  <2>2. Alone(x)
    BY <1>2, <1>10 DEF FollowLink, Goto, Alone, ExplorerTypeOK
  <2>3. ExplorerTypeOK'
    BY <1>2, <1>10, <2>1 DEF FollowLink, Goto, ExplorerTypeOK, ExplorerState
  <2>4. ASSUME epc'[x] # "failed" PROVE Learnt(x)'
    <3>1. /\ epc'[x] = "followed" /\ file'[x] = fds[number[x]] /\ fds[number[x]] # None
          /\ ename'[x] = ename[x] /\ dir'[x] = dir[x] /\ schema'[x] = schema[x]
          /\ expected'[x] = expected[x] /\ number'[x] = number[x] /\ decoded'[x] = decoded[x]
      BY <1>2, <1>10, <2>1, <2>4 DEF FollowLink, Goto, ExplorerTypeOK
    <3>2. Learnt(x) /\ UNCHANGED <<qpc, qname, fdOf, memory>>
      BY <1>3, <2>2 DEF Alone, fileVars
    <3> QED
      BY <2>1, <3>1, <3>2 DEF Learnt, Sealed
  <2> QED
    BY <1>4, <2>2, <2>3, <2>4, OneExplorer
<1>11. ASSUME NEW x \in Explorer, CheckSeals(x) PROVE DiscoveryIInv'
  <2>1. epc[x] = "followed" /\ file[x] \in Queue \cup {Other}
    BY <1>2, <1>3, <1>11 DEF CheckSeals, Learnt, ExplorerTypeOK
  <2>2. Alone(x)
    BY <1>2, <1>11 DEF CheckSeals, Goto, Alone, ExplorerTypeOK
  <2>3. ExplorerTypeOK'
    BY <1>2, <1>11, <2>1 DEF CheckSeals, Goto, ExplorerTypeOK, ExplorerState
  <2>4. ASSUME epc'[x] # "failed" PROVE Learnt(x)'
    <3>1. /\ epc'[x] = "joining" /\ file[x] \in Queue /\ Sealed(file[x])
          /\ ename'[x] = ename[x] /\ dir'[x] = dir[x] /\ schema'[x] = schema[x]
          /\ expected'[x] = expected[x] /\ number'[x] = number[x] /\ file'[x] = file[x] /\ decoded'[x] = decoded[x]
      BY <1>2, <1>11, <2>1, <2>4 DEF CheckSeals, Goto, ExplorerTypeOK
    <3>2. Learnt(x) /\ UNCHANGED <<qpc, qname, fdOf, memory>>
      BY <1>3, <2>2 DEF Alone, fileVars
    <3> QED
      BY <2>1, <3>1, <3>2 DEF Learnt, Sealed
  <2> QED
    BY <1>4, <2>2, <2>3, <2>4, OneExplorer
<1>12. ASSUME NEW x \in Explorer, JoinQueue(x) PROVE DiscoveryIInv'
  <2>1. epc[x] = "joining"
    BY <1>2, <1>3, <1>12 DEF JoinQueue
  <2>2. Alone(x)
    BY <1>2, <1>12 DEF JoinQueue, Goto, Alone, ExplorerTypeOK
  <2>3. ExplorerTypeOK'
    BY <1>2, <1>12, <2>1 DEF JoinQueue, Goto, ExplorerTypeOK, ExplorerState
  <2>4. ASSUME epc'[x] # "failed" PROVE Learnt(x)'
    <3>1. /\ epc'[x] = "available" /\ file[x] = expected[x]
          /\ ename'[x] = ename[x] /\ dir'[x] = dir[x] /\ schema'[x] = schema[x]
          /\ expected'[x] = expected[x] /\ number'[x] = number[x] /\ file'[x] = file[x] /\ decoded'[x] = decoded[x]
      BY <1>2, <1>12, <2>1, <2>4 DEF JoinQueue, Goto, ExplorerTypeOK
    <3>2. Learnt(x) /\ UNCHANGED <<qpc, qname, fdOf, memory>>
      BY <1>3, <2>2 DEF Alone, fileVars
    <3> QED
      BY <2>1, <3>1, <3>2 DEF Learnt, Sealed
  <2> QED
    BY <1>4, <2>2, <2>3, <2>4, OneExplorer
<1>13. ASSUME NEW x \in Explorer, NextStream(x) PROVE DiscoveryIInv'
  <2>1. Alone(x)
    BY <1>2, <1>13 DEF NextStream, Alone, ExplorerTypeOK
  <2>2. ExplorerTypeOK'
    BY <1>2, <1>13 DEF NextStream, ExplorerTypeOK, ExplorerState
  <2>3. epc'[x] = "idle"
    BY <1>2, <1>13 DEF NextStream, ExplorerTypeOK
  <2>4. Learnt(x)'
    BY <2>3 DEF Learnt
  <2> QED
    BY <2>1, <2>2, <2>4, OneExplorer
<1>14. ASSUME NEW x \in Explorer, TryConnectDynamic(x) PROVE DiscoveryIInv'
  <2>1. epc[x] = "available" /\ TypeOf[schema[x]] \in Type
    BY <1>2, <1>3, <1>14 DEF TryConnectDynamic, Learnt
  <2>2. Alone(x)
    BY <1>2, <1>14 DEF TryConnectDynamic, Goto, Connect, Alone, ExplorerTypeOK
  <2>3. ExplorerTypeOK'
    BY <1>2, <1>14, <2>1 DEF TryConnectDynamic, Goto, Connect, ExplorerTypeOK, ExplorerState
  <2>4. ASSUME epc'[x] # "failed" PROVE Learnt(x)'
    <3>1. /\ epc'[x] = "connected" /\ decoded'[x] = TypeOf[schema[x]]
          /\ ename'[x] = ename[x] /\ dir'[x] = dir[x] /\ schema'[x] = schema[x]
          /\ expected'[x] = expected[x] /\ number'[x] = number[x] /\ file'[x] = file[x]
      BY <1>2, <1>14, <2>1, <2>4 DEF TryConnectDynamic, Goto, Connect, ExplorerTypeOK
    <3>2. Learnt(x) /\ UNCHANGED <<qpc, qname, fdOf, memory>>
      BY <1>3, <2>2 DEF Alone, fileVars
    <3> QED
      BY <2>1, <3>1, <3>2 DEF Learnt, Sealed
  <2> QED
    BY <1>4, <2>2, <2>3, <2>4, OneExplorer
<1>15. ASSUME NEW x \in Explorer, NEW t \in Type, TryConnectTyped(x, t) PROVE DiscoveryIInv'
  <2>1. epc[x] = "available" /\ TypeOf[schema[x]] \in Type
    BY <1>2, <1>3, <1>15 DEF TryConnectTyped, Learnt
  <2>2. Alone(x)
    BY <1>2, <1>15 DEF TryConnectTyped, Goto, Connect, Alone, ExplorerTypeOK
  <2>3. ExplorerTypeOK'
    BY <1>2, <1>15, <2>1 DEF TryConnectTyped, Goto, Connect, ExplorerTypeOK, ExplorerState
  <2>4. ASSUME epc'[x] # "failed" PROVE Learnt(x)'
    <3>1. /\ epc'[x] = "connected" /\ decoded'[x] = TypeOf[schema[x]]
          /\ ename'[x] = ename[x] /\ dir'[x] = dir[x] /\ schema'[x] = schema[x]
          /\ expected'[x] = expected[x] /\ number'[x] = number[x] /\ file'[x] = file[x]
      BY <1>2, <1>15, <2>1, <2>4 DEF TryConnectTyped, Goto, Connect, ExplorerTypeOK
    <3>2. Learnt(x) /\ UNCHANGED <<qpc, qname, fdOf, memory>>
      BY <1>3, <2>2 DEF Alone, fileVars
    <3> QED
      BY <2>1, <3>1, <3>2 DEF Learnt, Sealed
  <2> QED
    BY <1>4, <2>2, <2>3, <2>4, OneExplorer
<1>16. CASE UNCHANGED discoveryVars
  <2>1. FilesInv'
    BY <1>16 DEF discoveryVars, fileVars, DiscoveryIInv, FilesInv, FilesTypeOK, Assigned, InPlace, PathInv
  <2>2. ExplorerTypeOK'
    BY <1>2, <1>16 DEF discoveryVars, explorerVars, ExplorerTypeOK
  <2>3. ExplorerInv'
    BY <1>2, <1>16 DEF discoveryVars, fileVars, explorerVars, ExplorerInv, Learnt, Sealed
  <2>4. MemoryInv'
    BY <1>16 DEF discoveryVars, fileVars, DiscoveryIInv, MemoryInv, Initialised, Sealed
  <2> QED
    BY <2>1, <2>2, <2>3, <2>4 DEF DiscoveryIInv
<1> QED
  BY <1>1, <1>5, <1>6, <1>7, <1>8, <1>9, <1>10,
     <1>11, <1>12, <1>13, <1>14, <1>15, <1>16 DEF DiscoveryNext, TryNew

\* DiscoveryIInv holds in every reachable state.
THEOREM DiscoveryIInvAlways == DiscoverySpec => []DiscoveryIInv
  BY DiscoveryInitIInv, DiscoveryNextIInv, PTL DEF DiscoverySpec

(* A published queue keeps its directory, its entries and its descriptor     *)
(* until its own stream drops it, whatever removals of older queues are      *)
(* still under way at the same path.                                         *)
THEOREM Discoverable == DiscoverySpec => []PublishedStaysDiscoverable
<1>1. DiscoveryIInv => PublishedStaysDiscoverable
  BY DEF DiscoveryIInv, FilesInv, Assigned, InPlace, PublishedStaysDiscoverable
<1> QED
  BY <1>1, DiscoveryIInvAlways, PTL

(* Overlapping removals of one path leave no directory behind.               *)
THEOREM NoDirectoryLeft == DiscoverySpec => []NothingLeftBehind
<1>1. DiscoveryIInv => NothingLeftBehind
  BY SMTT(30) DEF DiscoveryIInv, FilesInv, FilesTypeOK, PathInv, NothingLeftBehind
<1> QED
  BY <1>1, DiscoveryIInvAlways, PTL

(* The schema, the queue and the name of an AvailableStream are of one       *)
(* stream.                                                                   *)
THEOREM SchemaAndQueue == DiscoverySpec => []SchemaBelongsToQueue
<1>1. DiscoveryIInv => SchemaBelongsToQueue
  BY SMTT(30) DEF DiscoveryIInv, ExplorerInv, Learnt, SchemaBelongsToQueue
<1> QED
  BY <1>1, DiscoveryIInvAlways, PTL

(* The queue that an explorer joins was initialised and then sealed, also    *)
(* when its creation failed or a crash cut it short afterwards.              *)
THEOREM SealedQueues == DiscoverySpec => []JoinsOnlySealedQueues
<1>1. DiscoveryIInv => JoinsOnlySealedQueues
  BY DEF DiscoveryIInv, MemoryInv, ExplorerInv, Learnt, JoinsOnlySealedQueues
<1> QED
  BY <1>1, DiscoveryIInvAlways, PTL

=============================================================================
