---------------------------- MODULE DispatchProofs ----------------------------
(***************************************************************************)
(* Theorems about the dispatch of commands, for every registry, profile,   *)
(* set of aliases and rc files, tree of files and host: what which and     *)
(* type say of a command is what runs, no builtin runs outside the         *)
(* profile, audit and trace tell one story, an alias is replaced by what   *)
(* it stands for, and a find that succeeds has run its command everywhere. *)
(***************************************************************************)
EXTENDS Dispatch, SequenceTheorems, FiniteSetTheorems, WellFoundedInduction, TLAPS

IsSeq(s) == \E S : s \in Seq(S)

\* What one more element does to a sequence.
LEMMA OneMore ==
  ASSUME NEW s, NEW e, IsSeq(s)
  PROVE  /\ IsSeq(Append(s, e)) /\ Append(s, e) # <<>>
         /\ Len(Append(s, e)) = Len(s) + 1
         /\ \A i \in DOMAIN Append(s, e) : i \in DOMAIN s \/ i = Len(s) + 1
         /\ \A i \in DOMAIN s : Append(s, e)[i] = s[i]
         /\ Append(s, e)[Len(s) + 1] = e
<1>1. PICK S : s \in Seq(S)
  BY DEF IsSeq
<1>2. s \in Seq(S \cup {e}) /\ e \in S \cup {e}
  BY <1>1
<1>3. Append(s, e) \in Seq(S \cup {e}) /\ Len(s) \in Nat
  BY <1>2
<1>4. IsSeq(Append(s, e))
  BY <1>3 DEF IsSeq
<1> QED BY <1>2, <1>3, <1>4

\* What one element less does to a sequence that is not empty.
LEMMA OneLess ==
  ASSUME NEW s, IsSeq(s), s # <<>>
  PROVE  /\ IsSeq(Front(s))
         /\ Len(s) \in DOMAIN s /\ Last(s) = s[Len(s)]
         /\ Len(Front(s)) = Len(s) - 1
         /\ DOMAIN Front(s) \subseteq DOMAIN s
         /\ \A i \in DOMAIN Front(s) : Front(s)[i] = s[i]
<1>1. PICK S : s \in Seq(S)
  BY DEF IsSeq
<1>2. Len(s) \in Nat /\ Len(s) # 0 /\ DOMAIN s = 1 .. Len(s)
  BY <1>1
<1>3. Front(s) = SubSeq(s, 1, Len(s) - 1) /\ Last(s) = s[Len(s)]
  BY DEF Front, Last
<1>4. \A i \in 1 .. (Len(s) - 1) : s[i] \in S
  <2>1. \A i \in 1 .. (Len(s) - 1) : i \in 1 .. Len(s)
    BY <1>2
  <2> QED BY <1>1, <1>2, <2>1
<1>5. Len(s) - 1 \in Int /\ 1 \in Int
  BY <1>2
<1>6. /\ Front(s) \in Seq(S)
      /\ Len(Front(s)) = IF 1 <= Len(s) - 1 THEN (Len(s) - 1) - 1 + 1 ELSE 0
      /\ \A i \in 1 .. ((Len(s) - 1) - 1 + 1) : Front(s)[i] = s[1 + i - 1]
  BY <1>3, <1>4, <1>5, SubSeqProperties
<1>7. Len(Front(s)) = Len(s) - 1 /\ DOMAIN Front(s) = 1 .. (Len(s) - 1)
  <2> DEFINE n == Len(s)
  <2>1. (IF 1 <= n - 1 THEN (n - 1) - 1 + 1 ELSE 0) = n - 1
    BY <1>2
  <2>2. DOMAIN Front(s) = 1 .. Len(Front(s))
    BY <1>6
  <2> QED BY <1>6, <2>1, <2>2
<1>8. \A i \in 1 .. (Len(s) - 1) : Front(s)[i] = s[i]
  <2>1. \A i \in 1 .. (Len(s) - 1) : i \in 1 .. ((Len(s) - 1) - 1 + 1) /\ 1 + i - 1 = i
    BY <1>2
  <2> QED BY <1>6, <2>1
<1>9. Len(s) \in DOMAIN s /\ DOMAIN Front(s) \subseteq DOMAIN s
  BY <1>2, <1>7
<1> QED BY <1>3, <1>6, <1>7, <1>8, <1>9 DEF IsSeq

----------------------------------------------------------------------------
(***************************************************************************)
(* Aliases and lookups.                                                    *)
(***************************************************************************)

\* No alias has the name of a path.
NamesValid == \A n \in DOMAIN aliases : n # "" /\ n \notin DOMAIN PathRefs

\* Expansion starts with what was typed and goes on only over aliases.
Expansion ==
  pc.kind \in {"alias", "run"} => pc.args = pc.typed \/ Head(pc.typed) \in DOMAIN aliases

LookupInv == NamesValid /\ Expansion

\* Normalized aliases have valid names.
LEMMA ValidNames ==
  ASSUME NEW raw
  PROVE  \A n \in DOMAIN NormalizeCommandAliases(raw) : n # "" /\ n \notin DOMAIN PathRefs
  BY DEF NormalizeCommandAliases

\* It holds before the rc files are read.
LEMMA InitLookup == Init => LookupInv
<1> SUFFICES ASSUME Init PROVE LookupInv
  OBVIOUS
<1>1. aliases = NormalizeCommandAliases(Configured) /\ pc.kind = "boot"
  BY DEF Init
<1>2. \A n \in DOMAIN NormalizeCommandAliases(Configured) : n # "" /\ n \notin DOMAIN PathRefs
  BY ValidNames
<1> QED BY <1>1, <1>2 DEF LookupInv, NamesValid, Expansion

\* Every step keeps it.
LEMMA NextLookup == LookupInv /\ [Next]_vars => LookupInv'
<1> SUFFICES ASSUME LookupInv, [Next]_vars PROVE LookupInv'
  OBVIOUS
<1> USE DEF LookupInv
<1>1. CASE LoadRC
  <2>1. NamesValid'
    <3>1. \A lines : \A n \in DOMAIN Overlay(lines) : n # "" /\ n \notin DOMAIN PathRefs
      BY ValidNames DEF Overlay, MergeCommandAliases
    <3> QED BY <1>1, <3>1 DEF LoadRC, NamesValid
  <2>2. pc'.kind \in {"done", "boot"}
    BY <1>1 DEF LoadRC
  <2> QED BY <2>1, <2>2 DEF Expansion
<1>2. CASE Enter
  <2>1. pc'.kind \in {"done", "back"}
        \/ pc' = [kind |-> "alias", typed |-> pc.args, args |-> pc.args, seen |-> {}]
    BY <1>2 DEF Enter, Return
  <2>2. aliases' = aliases
    BY <1>2 DEF Enter
  <2>3. Expansion'
    BY <2>1 DEF Expansion
  <2> QED BY <2>2, <2>3 DEF NamesValid
<1>3. CASE ExpandCommandAlias
  <2>1. \/ pc'.kind \in {"done", "back"}
        \/ Head(pc.args) \in DOMAIN aliases /\ pc'.typed = pc.typed
        \/ pc' = [kind |-> "run", typed |-> pc.typed, args |-> pc.args]
    BY <1>3 DEF ExpandCommandAlias, Return
  <2>2. pc.kind = "alias" /\ aliases' = aliases
    BY <1>3 DEF ExpandCommandAlias
  <2>3. pc.args = pc.typed \/ Head(pc.typed) \in DOMAIN aliases
    BY <2>2 DEF Expansion
  <2>4. Expansion'
    BY <2>1, <2>2, <2>3 DEF Expansion
  <2> QED BY <2>2, <2>4 DEF NamesValid
<1>4. ASSUME aliases' = aliases, pc' = pc \/ pc'.kind \in {"call", "body", "back", "done"}
      PROVE  LookupInv'
  BY <1>4 DEF NamesValid, Expansion
<1>5. CASE Begin
  BY <1>4, <1>5 DEF Begin, Call
<1>6. CASE Refuse
  BY <1>4, <1>6 DEF Refuse, Return
<1>7. CASE StartBuiltin
  BY <1>4, <1>7 DEF StartBuiltin
<1>8. CASE Finish \/ FindStop
  <2>1. PICK out : EndBuiltin(out)
    BY <1>8 DEF Finish, FindStop
  <2> QED BY <1>4, <2>1 DEF EndBuiltin, Return
<1>9. CASE DispatchNext
  BY <1>4, <1>9 DEF DispatchNext, Call
<1>10. CASE FindGo
  BY <1>4, <1>10 DEF FindGo
<1>11. CASE RunExternalCommand
  BY <1>4, <1>11 DEF RunExternalCommand, Return
<1>12. CASE Cancel \/ UNCHANGED vars
  BY <1>4, <1>12 DEF Cancel, vars
<1> QED BY <1>1, <1>2, <1>3, <1>5, <1>6, <1>7, <1>8, <1>9, <1>10, <1>11, <1>12 DEF Next, Step

\* What which and type say of a command is what runs when it is typed.
THEOREM LookupsTell == Spec => []LookupMatchesRun
<1>1. LookupInv => LookupMatchesRun
  <2> SUFFICES ASSUME LookupInv, pc.kind = "run" PROVE LookupMatchesRun
    BY DEF LookupMatchesRun
  <2> DEFINE word == Head(pc.typed)
             found == ResolveOneCommandLookup(word)
             d == Decide(Named)
  <2>1. word \in DOMAIN PathRefs
          => NormalizeCommandReference(word).namespace \in {"builtin", "external", "none"}
    BY PathRefAssumption DEF NormalizeCommandReference
  <2>2. word \notin DOMAIN PathRefs
          => /\ NormalizeCommandReference(word).name = word
             /\ NormalizeCommandReference(word).namespace = ""
             /\ word # "" => NormalizeCommandReference(word).ok
    BY DEF NormalizeCommandReference
  <2>3. found = "alias" <=> word \in DOMAIN aliases
    <3>1. CASE word \in DOMAIN PathRefs
      <4>1. NormalizeCommandReference(word).namespace # "" /\ word \notin DOMAIN aliases
        BY <2>1, <3>1 DEF LookupInv, NamesValid
      <4>2. found # "alias"
        BY <4>1 DEF ResolveOneCommandLookup
      <4> QED BY <4>1, <4>2
    <3>2. CASE word \notin DOMAIN PathRefs
      <4>1. word \in DOMAIN aliases => word # ""
        BY DEF LookupInv, NamesValid
      <4> QED BY <2>2, <3>2, <4>1 DEF ResolveOneCommandLookup
    <3> QED BY <3>1, <3>2
  <2>4. CASE word \in DOMAIN aliases
    BY <2>3, <2>4 DEF LookupMatchesRun
  <2>5. CASE word \notin DOMAIN aliases
    <3>1. Named = NormalizeCommandReference(word)
      BY <2>5 DEF LookupInv, Expansion, Named
    <3>2. found = "builtin" => d.kind = "builtin" \/ (d.kind = "refused" /\ d.code = Unsupported)
      BY <3>1 DEF ResolveOneCommandLookup, Decide
    <3>3. found = "external" => d.kind = "external" \/ ended
      BY <3>1, <2>3, <2>5 DEF ResolveOneCommandLookup, Decide
    <3>4. found \in {"missing", "error"} => d.kind \in {"external", "refused"}
      BY <3>1 DEF ResolveOneCommandLookup, Decide
    <3>5. d.kind = "external" => found \in {"alias", "external", "missing"}
      BY <3>1 DEF ResolveOneCommandLookup, Decide
    <3> QED BY <2>3, <3>2, <3>3, <3>4, <3>5 DEF LookupMatchesRun
  <2> QED BY <2>4, <2>5
<1> QED BY <1>1, InitLookup, NextLookup, PTL DEF Spec

----------------------------------------------------------------------------
(***************************************************************************)
(* The profile.                                                            *)
(***************************************************************************)

Allowed(name) == name \in DOMAIN Registry /\ IsCommandAllowedByProfile(name)

\* The builtins that run, and those that have run, are allowed; an external
\* command has the name of a builtin only if it was asked for by its path.
ProfileInv ==
  /\ IsSeq(stack) /\ IsSeq(executed) /\ IsSeq(outcomes)
  /\ pc.kind \in {"body", "back"} => stack # <<>>
  /\ \A i \in DOMAIN stack : "name" \in DOMAIN stack[i] /\ Allowed(stack[i].name)
  /\ \A i \in DOMAIN executed : executed[i].namespace = "builtin" => Allowed(executed[i].command)
  /\ \A i \in DOMAIN outcomes :
       outcomes[i].command \in DOMAIN Registry => outcomes[i].target \in DOMAIN PathRefs

\* Nothing is on the stack at the start.
LEMMA InitProfile == Init => ProfileInv
<1>1. IsSeq(<<>>)
  BY DEF IsSeq
<1> QED BY <1>1 DEF Init, ProfileInv

\* The end of a builtin.
LEMMA EndsAllowed ==
  ASSUME NEW out, ProfileInv, pc.kind \in {"body", "back"}, EndBuiltin(out)
  PROVE  ProfileInv'
<1>1. stack # <<>> /\ IsSeq(stack) /\ IsSeq(executed)
  BY DEF ProfileInv
<1>2. /\ stack' = Front(stack) /\ outcomes' = outcomes
      /\ executed' = Append(executed, [command |-> Last(stack).name, argv |-> Last(stack).args,
                                       namespace |-> "builtin", code |-> out.code])
      /\ pc'.kind = IF Front(stack) = <<>> THEN "done" ELSE "back"
  BY DEF EndBuiltin, Return
<1>3. Allowed(Last(stack).name)
  BY <1>1, OneLess DEF ProfileInv
<1>4. /\ IsSeq(stack')
      /\ \A i \in DOMAIN stack' : "name" \in DOMAIN stack'[i] /\ Allowed(stack'[i].name)
  BY <1>1, <1>2, OneLess DEF ProfileInv
<1>5. /\ IsSeq(executed')
      /\ \A i \in DOMAIN executed' :
           executed'[i].namespace = "builtin" => Allowed(executed'[i].command)
  BY <1>1, <1>2, <1>3, OneMore DEF ProfileInv
<1> QED BY <1>2, <1>4, <1>5 DEF ProfileInv, Allowed, IsCommandAllowedByProfile

\* Every step keeps what is on the stack, or adds what the profile allows.
LEMMA NextProfile == ProfileInv /\ [Next]_vars => ProfileInv'
<1> SUFFICES ASSUME ProfileInv, [Next]_vars PROVE ProfileInv'
  OBVIOUS
<1>1. ASSUME UNCHANGED <<stack, executed, outcomes>>,
             pc'.kind \in {"body", "back"} => stack # <<>>
      PROVE  ProfileInv'
  BY <1>1 DEF ProfileInv, Allowed, IsCommandAllowedByProfile
<1>2. CASE LoadRC
  <2>1. pc'.kind \in {"body", "back"} => pc'.kind = pc.kind
    BY <1>2 DEF LoadRC
  <2> QED BY <1>1, <1>2, <2>1 DEF LoadRC, ProfileInv
<1>3. CASE Begin
  BY <1>1, <1>3 DEF Begin, Call
<1>4. CASE Enter
  BY <1>1, <1>4 DEF Enter, Return
<1>5. CASE ExpandCommandAlias
  BY <1>1, <1>5 DEF ExpandCommandAlias, Return
<1>6. CASE Refuse
  BY <1>1, <1>6 DEF Refuse, Return
<1>7. CASE DispatchNext
  BY <1>1, <1>7 DEF DispatchNext, Call, ProfileInv
<1>8. CASE Cancel \/ UNCHANGED vars
  BY <1>1, <1>8 DEF Cancel, vars, ProfileInv
<1>9. CASE Finish \/ FindStop
  BY <1>9, EndsAllowed DEF Finish, FindStop
<1>10. CASE StartBuiltin
  <2>1. Allowed(Named.name)
    BY <1>10 DEF StartBuiltin, Decide, Allowed
  <2>2. PICK body : stack' = Append(stack, [name |-> Named.name, args |-> pc.args, out |-> 0, body |-> body])
    BY <1>10 DEF StartBuiltin
  <2>3. /\ IsSeq(stack') /\ stack' # <<>>
        /\ \A i \in DOMAIN stack' : "name" \in DOMAIN stack'[i] /\ Allowed(stack'[i].name)
    BY <2>1, <2>2, OneMore DEF ProfileInv
  <2> QED BY <1>10, <2>3 DEF StartBuiltin, ProfileInv, Allowed, IsCommandAllowedByProfile
<1>11. CASE FindGo
  <2>1. stack # <<>> /\ IsSeq(Front(stack))
    BY <1>11, OneLess DEF FindGo, ProfileInv
  <2>2. PICK frame : frame = FindGoesOn(Last(stack), pc.out)
    OBVIOUS
  <2>3. "name" \in DOMAIN frame /\ Allowed(frame.name)
    <3>1. "name" \in DOMAIN Last(stack) /\ Allowed(Last(stack).name)
      BY <2>1, OneLess DEF ProfileInv
    <3> QED BY <2>2, <3>1 DEF FindGoesOn
  <2>4. /\ IsSeq(stack') /\ stack' # <<>>
        /\ \A i \in DOMAIN stack' : "name" \in DOMAIN stack'[i] /\ Allowed(stack'[i].name)
    <3>1. stack' = Append(Front(stack), frame)
      BY <1>11, <2>2 DEF FindGo
    <3>2. \A i \in DOMAIN Front(stack) :
            "name" \in DOMAIN Front(stack)[i] /\ Allowed(Front(stack)[i].name)
      BY <2>1, OneLess DEF ProfileInv
    <3> QED BY <2>1, <2>3, <3>1, <3>2, OneMore
  <2> QED BY <1>11, <2>4 DEF FindGo, ProfileInv, Allowed, IsCommandAllowedByProfile
<1>12. CASE RunExternalCommand
  <2>1. Named.name \in DOMAIN Registry => Head(pc.args) \in DOMAIN PathRefs
    BY <1>12 DEF RunExternalCommand, Decide, Named, NormalizeCommandReference
  <2>2. PICK step : /\ step.command = Named.name /\ step.target = Head(pc.args)
                    /\ outcomes' = Append(outcomes, step)
    BY <1>12 DEF RunExternalCommand
  <2>3. /\ IsSeq(outcomes')
        /\ \A i \in DOMAIN outcomes' :
             outcomes'[i].command \in DOMAIN Registry => outcomes'[i].target \in DOMAIN PathRefs
    BY <2>1, <2>2, OneMore DEF ProfileInv
  <2>4. executed' = executed
        \/ \E ran : ran.namespace = "external" /\ executed' = Append(executed, ran)
    BY <1>12 DEF RunExternalCommand
  <2>5. /\ IsSeq(executed')
        /\ \A i \in DOMAIN executed' :
             executed'[i].namespace = "builtin" => Allowed(executed'[i].command)
    <3>1. CASE executed' = executed
      BY <3>1 DEF ProfileInv, Allowed, IsCommandAllowedByProfile
    <3>2. CASE \E ran : ran.namespace = "external" /\ executed' = Append(executed, ran)
      <4>1. PICK ran : ran.namespace = "external" /\ executed' = Append(executed, ran)
        BY <3>2
      <4> QED BY <4>1, OneMore DEF ProfileInv
    <3> QED BY <2>4, <3>1, <3>2
  <2>6. stack' = stack /\ (pc'.kind \in {"body", "back"} => stack # <<>>)
    BY <1>12 DEF RunExternalCommand, Return
  <2> QED BY <2>3, <2>5, <2>6 DEF ProfileInv, Allowed, IsCommandAllowedByProfile
<1> QED BY <1>2, <1>3, <1>4, <1>5, <1>6, <1>7, <1>8, <1>9, <1>10, <1>11, <1>12 DEF Next, Step

\* No builtin runs outside the profile, under any name and however deep.
THEOREM ProfilesHold == Spec => []ProfileHolds
<1>1. ProfileInv => ProfileHolds
  BY DEF ProfileInv, ProfileHolds, Allowed
<1> QED BY <1>1, InitProfile, NextProfile, PTL DEF Spec

----------------------------------------------------------------------------
(***************************************************************************)
(* Functions defined by recursion over the numbers up to a bound.          *)
(***************************************************************************)

\* A set of numbers that is not empty has a least member.
LEMMA LeastNat ==
  ASSUME NEW S, S \subseteq Nat, S # {}
  PROVE  \E x \in S : \A y \in S : x <= y
<1>1. PICK x \in S : \A y \in S : <<y, x>> \notin OpToRel(<, Nat)
  BY NatLessThanWellFounded, WFMin, Zenon
<1>2. ASSUME NEW y \in S PROVE x <= y
  <2>1. ~(y < x)
    BY <1>1 DEF OpToRel
  <2> QED BY <2>1
<1> QED BY <1>2

\* A set that has 0 and, with a number, the next has every number.
LEMMA AllNumbers ==
  ASSUME NEW S, 0 \in S, \A n \in Nat : n \in S => n + 1 \in S
  PROVE  \A n \in Nat : n \in S
<1> SUFFICES ASSUME Nat \ S # {} PROVE FALSE
  OBVIOUS
<1>1. PICK x \in Nat \ S : \A y \in Nat \ S : x <= y
  BY LeastNat
<1>2. x - 1 \in Nat /\ ~(x <= x - 1)
  BY <1>1
<1>3. x - 1 \in S /\ (x - 1) + 1 = x
  BY <1>1, <1>2
<1> QED BY <1>2, <1>3

\* f is what the steps make of the beginning, and whatever follows the first steps
\* agrees with it.
IsRecursion(D, a, N, step, f) ==
  /\ f \in [0 .. N -> D]
  /\ f[0] = a
  /\ \A n \in 1 .. N : f[n] = step[<<n, f[n - 1]>>]
  /\ \A M \in 0 .. N : \A g :
       g[0] = a /\ (\A n \in 1 .. M : g[n - 1] \in D => g[n] = step[<<n, g[n - 1]>>])
         => \A n \in 0 .. M : g[n] = f[n]

\* There is one.
LEMMA Recursion ==
  ASSUME NEW D, NEW a \in D, NEW N \in Nat, NEW step \in [(1 .. N) \X D -> D]
  PROVE  \E f : IsRecursion(D, a, N, step, f)
<1> DEFINE Upto(m) == \E f \in [0 .. m -> D] :
                        f[0] = a /\ \A n \in 1 .. m : f[n] = step[<<n, f[n - 1]>>]
<1>1. Upto(0)
  <2> DEFINE f == [n \in 0 .. 0 |-> a]
  <2>1. f \in [0 .. 0 -> D] /\ f[0] = a
    OBVIOUS
  <2>2. \A n \in 1 .. 0 : f[n] = step[<<n, f[n - 1]>>]
    OBVIOUS
  <2> QED BY <2>1, <2>2
<1>2. ASSUME NEW m \in Nat, m + 1 <= N, Upto(m) PROVE Upto(m + 1)
  <2>1. PICK f \in [0 .. m -> D] : f[0] = a /\ \A n \in 1 .. m : f[n] = step[<<n, f[n - 1]>>]
    BY <1>2
  <2> DEFINE last == step[<<m + 1, f[m]>>]
             h == [n \in 0 .. (m + 1) |-> IF n = m + 1 THEN last ELSE f[n]]
  <2>2. last \in D
    <3>1. f[m] \in D /\ m + 1 \in 1 .. N
      BY <1>2, <2>1
    <3>2. <<m + 1, f[m]>> \in (1 .. N) \X D
      BY <3>1
    <3> QED BY <3>2
  <2> HIDE DEF last
  <2>3. h \in [0 .. (m + 1) -> D] /\ h[0] = a
    <3>1. \A n \in 0 .. (m + 1) : n = m + 1 \/ n \in 0 .. m
      OBVIOUS
    <3>2. 0 # m + 1 /\ 0 \in 0 .. (m + 1)
      OBVIOUS
    <3> QED BY <2>1, <2>2, <3>1, <3>2
  <2>4. ASSUME NEW n \in 1 .. (m + 1) PROVE h[n] = step[<<n, h[n - 1]>>]
    <3>1. n - 1 \in 0 .. m /\ n - 1 # m + 1 /\ n - 1 \in 0 .. (m + 1) /\ n \in 0 .. (m + 1)
      OBVIOUS
    <3>2. h[n - 1] = f[n - 1]
      BY <3>1
    <3>3. CASE n = m + 1
      <4>1. n - 1 = m
        BY <3>3
      <4> QED BY <3>1, <3>2, <3>3, <4>1 DEF last
    <3>4. CASE n # m + 1
      <4>1. n \in 1 .. m
        BY <3>4
      <4> QED BY <2>1, <3>1, <3>2, <3>4, <4>1
    <3> QED BY <3>3, <3>4
  <2> QED BY <2>3, <2>4
<1>3. Upto(N)
  <2> DEFINE S == {m \in Nat : m <= N => Upto(m)}
  <2>1. 0 \in S
    BY <1>1
  <2>2. \A m \in Nat : m \in S => m + 1 \in S
    BY <1>2
  <2> HIDE DEF S
  <2>3. N \in S
    BY <2>1, <2>2, AllNumbers
  <2> QED BY <2>3 DEF S
<1> HIDE DEF Upto
<1>4. PICK f \in [0 .. N -> D] : f[0] = a /\ \A n \in 1 .. N : f[n] = step[<<n, f[n - 1]>>]
  BY <1>3 DEF Upto
<1>5. ASSUME NEW M \in 0 .. N, NEW g, g[0] = a,
             \A n \in 1 .. M : g[n - 1] \in D => g[n] = step[<<n, g[n - 1]>>]
      PROVE  \A n \in 0 .. M : g[n] = f[n]
  <2> DEFINE S == {m \in Nat : m <= M => g[m] = f[m]}
  <2>1. 0 \in S
    BY <1>4, <1>5
  <2>2. ASSUME NEW m \in Nat, m \in S PROVE m + 1 \in S
    <3> SUFFICES ASSUME m + 1 <= M PROVE g[m + 1] = f[m + 1]
      OBVIOUS
    <3>1. m + 1 \in 1 .. M /\ m + 1 \in 1 .. N /\ (m + 1) - 1 = m /\ m \in 0 .. N /\ m <= M
      OBVIOUS
    <3>2. g[m] = f[m] /\ f[m] \in D
      BY <2>2, <3>1
    <3>3. g[m + 1] = step[<<m + 1, g[m]>>]
      BY <1>5, <3>1, <3>2
    <3>4. f[m + 1] = step[<<m + 1, f[m]>>]
      BY <1>4, <3>1
    <3> QED BY <3>2, <3>3, <3>4
  <2> HIDE DEF S
  <2>3. \A m \in Nat : m \in S
    BY <2>1, <2>2, AllNumbers
  <2> QED BY <2>3 DEF S
<1>6. \A M \in 0 .. N : \A g :
        g[0] = a /\ (\A n \in 1 .. M : g[n - 1] \in D => g[n] = step[<<n, g[n - 1]>>])
          => \A n \in 0 .. M : g[n] = f[n]
  BY <1>5
<1>7. IsRecursion(D, a, N, step, f)
  BY <1>4, <1>6 DEF IsRecursion
<1> QED BY <1>7

\* A sequence that is not empty has a first element.
LEMMA NotEmpty ==
  ASSUME NEW S, NEW s \in Seq(S), s # <<>>
  PROVE  Len(s) \in Nat \ {0} /\ Head(s) \in S /\ Tail(s) \in Seq(S)
  OBVIOUS

\* Its elements.
LEMMA ElementsIn ==
  ASSUME NEW S, NEW s \in Seq(S)
  PROVE  \A i \in DOMAIN s : s[i] \in S
  OBVIOUS

\* The words that are wanted are words.
LEMMA OnlyWords ==
  ASSUME NEW words \in Seq(STRING), NEW wanted
  PROVE  Only(words, wanted) \in Seq(STRING)
<1> DEFINE N == Len(words)
           D == Seq(STRING)
           Keep(n, before) == IF words[n] \in wanted THEN Append(before, words[n]) ELSE before
           step == [p \in (1 .. N) \X D |-> Keep(p[1], p[2])]
           IsKept(f) == f = [n \in 0 .. N |-> IF n = 0 THEN <<>> ELSE Keep(n, f[n - 1])]
           kept == CHOOSE f : IsKept(f)
<1>1. Only(words, wanted) = kept[N]
  BY DEF Only
<1>2. N \in Nat /\ <<>> \in D
  OBVIOUS
<1>3. ASSUME NEW n \in 1 .. N, NEW before \in D PROVE Keep(n, before) \in D
  <2>1. words[n] \in STRING /\ before \in Seq(STRING)
    OBVIOUS
  <2>2. Append(before, words[n]) \in Seq(STRING)
    BY <2>1
  <2> QED BY <2>1, <2>2
<1> HIDE DEF N, D, Keep
<1>4. step \in [(1 .. N) \X D -> D]
  BY <1>3
<1>5. \A n \in 1 .. N, before \in D : step[<<n, before>>] = Keep(n, before)
  OBVIOUS
<1> HIDE DEF step
<1>6. PICK f : IsRecursion(D, <<>>, N, step, f)
  BY <1>2, <1>4, Recursion
<1>7. IsKept(f)
  <2>1. \A n \in 0 .. N : n = 0 \/ (n \in 1 .. N /\ n - 1 \in 0 .. N)
    BY <1>2
  <2> QED BY <1>5, <1>6, <2>1 DEF IsRecursion
<1>8. IsKept(kept)
  BY <1>7
<1> HIDE DEF kept
<1>9. kept[0] = <<>> /\ \A n \in 1 .. N : kept[n] = Keep(n, kept[n - 1])
  <2>1. 0 \in 0 .. N /\ \A n \in 1 .. N : n \in 0 .. N /\ n # 0
    BY <1>2
  <2> QED BY <1>8, <2>1
<1>10. kept[N] = f[N] /\ N \in 0 .. N
  <2>1. N \in 0 .. N
    BY <1>2
  <2> QED BY <1>5, <1>6, <1>9, <2>1 DEF IsRecursion
<1>11. kept[N] \in D
  BY <1>6, <1>10 DEF IsRecursion
<1> QED BY <1>1, <1>11 DEF D

\* The arguments of a command that find dispatches are words, and there are some.
LEMMA ExpandedWords ==
  ASSUME NEW exec \in Seq(STRING), exec # <<>>, NEW files \in Seq(STRING), files # <<>>
  PROVE  ExpandFindExecArgs(exec, files) \in Seq(STRING) \ {<<>>}
<1> DEFINE N == Len(exec)
           D == Seq(STRING)
           Place(n, before) == before \o (IF exec[n] = "{}" THEN files ELSE <<exec[n]>>)
           step == [p \in (1 .. N) \X D |-> Place(p[1], p[2])]
           IsExpanded(f) == f = [n \in 0 .. N |-> IF n = 0 THEN <<>> ELSE Place(n, f[n - 1])]
           expanded == CHOOSE f : IsExpanded(f)
           rest == IF \E i \in DOMAIN exec : exec[i] = "{}" THEN <<>> ELSE files
<1>1. ExpandFindExecArgs(exec, files) = expanded[N] \o rest
  BY DEF ExpandFindExecArgs
<1>2. N \in Nat \ {0} /\ <<>> \in D /\ rest \in D
  <2>1. Len(exec) \in Nat /\ Len(exec) # 0
    BY NotEmpty
  <2>2. rest = <<>> \/ rest = files
    OBVIOUS
  <2> HIDE DEF rest
  <2>3. <<>> \in Seq(STRING)
    OBVIOUS
  <2>4. rest \in Seq(STRING)
    BY <2>2, <2>3
  <2> QED BY <2>1, <2>3, <2>4
<1>3. ASSUME NEW n \in 1 .. N, NEW before \in D PROVE Place(n, before) \in D /\ Place(n, before) # <<>>
  <2>1. PICK more : more = IF exec[n] = "{}" THEN files ELSE <<exec[n]>>
    OBVIOUS
  <2>2. exec[n] \in STRING /\ before \in Seq(STRING)
    OBVIOUS
  <2>3. more \in Seq(STRING) /\ Len(more) # 0
    <3>1. CASE more = files
      BY <3>1, NotEmpty
    <3>2. CASE more = <<exec[n]>>
      BY <2>2, <3>2
    <3> QED BY <2>1, <3>1, <3>2
  <2>4. Place(n, before) = before \o more
    BY <2>1
  <2> HIDE DEF Place
  <2>5. before \o more \in Seq(STRING) /\ Len(before \o more) # 0
    <3>1. Len(before \o more) = Len(before) + Len(more) /\ Len(before) \in Nat /\ Len(more) \in Nat
      BY <2>2, <2>3
    <3> QED BY <2>2, <2>3, <3>1
  <2> QED BY <2>4, <2>5
<1> HIDE DEF N, D, Place, rest
<1>5. step \in [(1 .. N) \X D -> D]
  BY <1>3
<1>6. \A n \in 1 .. N, before \in D : step[<<n, before>>] = Place(n, before)
  OBVIOUS
<1> HIDE DEF step
<1>7. PICK f : IsRecursion(D, <<>>, N, step, f)
  BY <1>2, <1>5, Recursion
<1>8. IsExpanded(f)
  <2>1. \A n \in 0 .. N : n = 0 \/ (n \in 1 .. N /\ n - 1 \in 0 .. N)
    BY <1>2
  <2> QED BY <1>6, <1>7, <2>1 DEF IsRecursion
<1>9. IsExpanded(expanded)
  BY <1>8
<1> HIDE DEF expanded
<1>10. expanded[0] = <<>> /\ \A n \in 1 .. N : expanded[n] = Place(n, expanded[n - 1])
  <2>1. 0 \in 0 .. N /\ \A n \in 1 .. N : n \in 0 .. N /\ n # 0
    BY <1>2
  <2> QED BY <1>9, <2>1
<1>11. \A n \in 0 .. N : expanded[n] = f[n]
  <2>1. N \in 0 .. N
    BY <1>2
  <2> QED BY <1>6, <1>7, <1>10, <2>1 DEF IsRecursion
<1>12. N \in 1 .. N /\ N \in 0 .. N /\ N - 1 \in 0 .. N
  BY <1>2
<1>13. expanded[N] \in D /\ expanded[N - 1] \in D
  BY <1>7, <1>11, <1>12 DEF IsRecursion
<1>14. expanded[N] # <<>>
  BY <1>3, <1>10, <1>12, <1>13
<1>15. ASSUME NEW s \in Seq(STRING), s # <<>>, NEW t \in Seq(STRING) PROVE s \o t \in Seq(STRING) \ {<<>>}
  <2>1. Len(s \o t) = Len(s) + Len(t) /\ Len(s) \in Nat \ {0} /\ Len(t) \in Nat
    BY <1>15
  <2>2. s \o t \in Seq(STRING)
    OBVIOUS
  <2> QED BY <2>1, <2>2
<1> QED BY <1>1, <1>2, <1>13, <1>14, <1>15 DEF D

\* What find has read of its arguments.
Text == STRING \cup {"", "/", "*"}
Options == [mode : {"any", "pattern", "exec"}, patterns : SUBSET Text, or : BOOLEAN,
            exec : Seq(STRING), plus : BOOLEAN, target : Text, failed : BOOLEAN]

\* One argument more.
LEMMA OneArgument ==
  ASSUME NEW o \in Options, NEW arg \in STRING
  PROVE  ParseFindArg(o, arg) \in Options
<1>1. arg \in Text /\ o.patterns \cup {arg} \in SUBSET Text /\ Append(o.exec, arg) \in Seq(STRING)
  <2>1. o.exec \in Seq(STRING) /\ o.patterns \in SUBSET Text
    BY DEF Options
  <2>2. arg \in Text
    BY DEF Text
  <2>3. Append(o.exec, arg) \in Seq(STRING)
    BY <2>1
  <2> QED BY <2>1, <2>2, <2>3
<1>2. CASE o.mode = "pattern"
  BY <1>1, <1>2 DEF ParseFindArg, Options
<1>3. CASE o.mode = "exec" /\ arg \notin {";", "+"}
  BY <1>1, <1>3 DEF ParseFindArg, Options
<1>4. CASE o.mode = "exec" /\ arg \in {";", "+"}
  BY <1>4 DEF ParseFindArg, Options
<1>5. CASE o.mode = "any"
  BY <1>1, <1>5 DEF ParseFindArg, Options
<1> QED BY <1>2, <1>3, <1>4, <1>5 DEF Options

\* All of them.
LEMMA ArgumentsRead ==
  ASSUME NEW args \in Seq(STRING)
  PROVE  ReadFindArgs(args) \in Options
<1> DEFINE N == Len(args)
           Take(n, before) == ParseFindArg(before, args[n])
           step == [p \in (1 .. N) \X Options |-> Take(p[1], p[2])]
           IsRead(f) == f = [n \in 0 .. N |-> IF n = 0 THEN NoArgs ELSE Take(n, f[n - 1])]
           read == CHOOSE f : IsRead(f)
<1>1. ReadFindArgs(args) = read[N]
  BY DEF ReadFindArgs
<1>2. N \in Nat /\ NoArgs \in Options
  BY DEF NoArgs, Options, Text
<1>3. ASSUME NEW n \in 1 .. N, NEW before \in Options PROVE Take(n, before) \in Options
  <2>1. args[n] \in STRING
    OBVIOUS
  <2> QED BY <2>1, OneArgument
<1> HIDE DEF N, Take
<1>4. step \in [(1 .. N) \X Options -> Options]
  BY <1>3
<1>5. \A n \in 1 .. N, before \in Options : step[<<n, before>>] = Take(n, before)
  OBVIOUS
<1> HIDE DEF step
<1>6. PICK f : IsRecursion(Options, NoArgs, N, step, f)
  BY <1>2, <1>4, Recursion
<1>7. IsRead(f)
  <2>1. \A n \in 0 .. N : n = 0 \/ (n \in 1 .. N /\ n - 1 \in 0 .. N)
    BY <1>2
  <2> QED BY <1>5, <1>6, <2>1 DEF IsRecursion
<1>8. IsRead(read)
  BY <1>7
<1> HIDE DEF read
<1>9. read[0] = NoArgs /\ \A n \in 1 .. N : read[n] = Take(n, read[n - 1])
  <2>1. 0 \in 0 .. N /\ \A n \in 1 .. N : n \in 0 .. N /\ n # 0
    BY <1>2
  <2> QED BY <1>8, <2>1
<1>10. read[N] = f[N] /\ N \in 0 .. N
  <2>1. N \in 0 .. N
    BY <1>2
  <2> QED BY <1>5, <1>6, <1>9, <2>1 DEF IsRecursion
<1> QED BY <1>1, <1>6, <1>10 DEF IsRecursion

\* What find will do is a sequence of commands, none of them empty.
LEMMA BodyOfWords ==
  ASSUME NEW args \in Seq(STRING), NEW body \in RunFind(args)
  PROVE  /\ body.todo \in Seq(Seq(STRING) \ {<<>>})
         /\ DOMAIN body = {"todo", "plus", "results"}
<1>1. PICK o \in ParseFindArgs(args) : body = RunFindOn(o)
  BY DEF RunFind
<1>2. o.exec = ReadFindArgs(args).exec
  <2>1. PICK r : r = ReadFindArgs(args)
    OBVIOUS
  <2>2. r \in Options
    BY <2>1, ArgumentsRead
  <2>3. \E q \in {r} : o = [q EXCEPT !.failed = @ \/ q.mode # "any" \/ q.or,
                                   !.target = IF @ = "" THEN "/" ELSE @,
                                   !.patterns = IF @ = {} THEN {"*"} ELSE @]
    BY <1>1, <2>1, Zenon DEF ParseFindArgs
  <2> QED BY <2>1, <2>2, <2>3 DEF Options
<1>3. o.exec \in Seq(STRING)
  BY <1>2, ArgumentsRead DEF Options
<1>4. CASE o.failed \/ o.target \notin DOMAIN Tree
  <2>1. \E results : body = Body(<<>>, FALSE, results)
    BY <1>1, <1>4 DEF RunFindOn
  <2> QED BY <2>1 DEF Body
<1>5. CASE ~o.failed /\ o.target \in DOMAIN Tree
  <2>1. PICK files : files = Matched(o)
    OBVIOUS
  <2>2. files \in Seq(STRING)
    BY <1>5, <2>1, WordsAssumption, OnlyWords DEF Matched
  <2>3. CASE o.exec = <<>> \/ files = <<>>
    <3>1. \E results : body = Body(<<>>, FALSE, results)
      BY <1>1, <1>5, <2>1, <2>3 DEF RunFindOn
    <3> QED BY <3>1 DEF Body
  <2>4. CASE o.exec # <<>> /\ files # <<>>
    <3>1. CASE o.plus
      <4>1. body = Body(<<ExpandFindExecArgs(o.exec, files)>>, TRUE, {})
        BY <1>1, <1>5, <2>1, <2>4, <3>1 DEF RunFindOn
      <4> QED BY <1>3, <2>2, <2>4, <4>1, ExpandedWords DEF Body
    <3>2. CASE ~o.plus
      <4>1. body = Body([i \in DOMAIN files |-> ExpandFindExecArgs(o.exec, <<files[i]>>)], FALSE, {})
        BY <1>1, <1>5, <2>1, <2>4, <3>2 DEF RunFindOn
      <4>2. \A i \in DOMAIN files : ExpandFindExecArgs(o.exec, <<files[i]>>) \in Seq(STRING) \ {<<>>}
        <5>1. \A i \in DOMAIN files : <<files[i]>> \in Seq(STRING) /\ <<files[i]>> # <<>>
          BY <2>2
        <5> QED BY <1>3, <2>4, <5>1, ExpandedWords
      <4>3. [i \in DOMAIN files |-> ExpandFindExecArgs(o.exec, <<files[i]>>)] \in Seq(Seq(STRING) \ {<<>>})
        <5>1. DOMAIN files = 1 .. Len(files) /\ Len(files) \in Nat
          BY <2>2
        <5> QED BY <4>2, <5>1
      <4> QED BY <4>1, <4>3 DEF Body
    <3> QED BY <3>1, <3>2
  <2> QED BY <2>3, <2>4
<1> QED BY <1>4, <1>5

----------------------------------------------------------------------------
(***************************************************************************)
(* The audit.                                                              *)
(***************************************************************************)

\* Nothing is open before the first event.
LEMMA NoneOpened == Opened(<<>>) = <<>>
<1> DEFINE IsOpen(f) == f = [n \in 0 .. 0 |-> IF n = 0 THEN <<>> ELSE After(f[n - 1], <<>>[n])]
           open == CHOOSE f : IsOpen(f)
<1>1. IsOpen([n \in 0 .. 0 |-> <<>>])
  OBVIOUS
<1>2. IsOpen(open)
  BY <1>1
<1> HIDE DEF open
<1>3. open[0] = <<>>
  BY <1>2
<1> QED BY <1>3 DEF Opened, open

\* One more event opens or closes what it says.
LEMMA OpenedAfter ==
  ASSUME NEW events, NEW e, IsSeq(events)
  PROVE  Opened(Append(events, e)) = After(Opened(events), e)
<1> DEFINE all == Append(events, e)
           N == Len(events)
           Pairs == ({all[i].command : i \in 1 .. (N + 1)} \cup {"unmatched"})
                    \X {all[i].args : i \in 1 .. (N + 1)}
           D == Seq(Pairs)
           Take(n, before) == After(before, all[n])
           step == [p \in (1 .. (N + 1)) \X D |-> Take(p[1], p[2])]
           IsLong(f) == f = [n \in 0 .. (N + 1) |-> IF n = 0 THEN <<>> ELSE Take(n, f[n - 1])]
           long == CHOOSE f : IsLong(f)
           IsShort(f) == f = [n \in 0 .. N |-> IF n = 0 THEN <<>> ELSE After(f[n - 1], events[n])]
           short == CHOOSE f : IsShort(f)
<1>1. /\ N \in Nat /\ Len(all) = N + 1 /\ all[N + 1] = e
      /\ \A n \in 1 .. N : all[n] = events[n]
  <2>1. PICK S : events \in Seq(S)
    BY DEF IsSeq
  <2>2. N \in Nat /\ DOMAIN events = 1 .. N
    BY <2>1
  <2> QED BY <2>2, OneMore
<1>2. Opened(all) = long[N + 1] /\ Opened(events) = short[N]
  BY <1>1 DEF Opened
<1> HIDE DEF all, N
<1>3. ASSUME NEW n \in 1 .. (N + 1), NEW before \in D PROVE Take(n, before) \in D
  <2>1. <<all[n].command, all[n].args>> \in Pairs /\ <<"unmatched", all[n].args>> \in Pairs
    OBVIOUS
  <2> HIDE DEF Pairs
  <2>2. \A p \in Pairs : Append(before, p) \in D
    OBVIOUS
  <2>3. before # <<>> => Front(before) \in D
    BY NotEmpty DEF Front
  <2> QED BY <2>1, <2>2, <2>3 DEF After
<1>4. <<>> \in D /\ N + 1 \in Nat
  BY <1>1
<1> HIDE DEF D, Take
<1>5. step \in [(1 .. (N + 1)) \X D -> D]
  BY <1>3
<1>6. \A n \in 1 .. (N + 1), before \in D : step[<<n, before>>] = Take(n, before)
  OBVIOUS
<1> HIDE DEF step
<1>7. PICK f : IsRecursion(D, <<>>, N + 1, step, f)
  BY <1>4, <1>5, Recursion
<1>8. \A n \in 0 .. (N + 1) : f[n] \in D /\ (n # 0 => f[n] = Take(n, f[n - 1]))
  <2>1. \A n \in 0 .. (N + 1) : n = 0 \/ (n \in 1 .. (N + 1) /\ n - 1 \in 0 .. (N + 1))
    BY <1>1
  <2> QED BY <1>6, <1>7, <2>1 DEF IsRecursion
<1>9. IsLong(long)
  <2>1. IsLong(f)
    BY <1>7, <1>8 DEF IsRecursion
  <2> QED BY <2>1
<1>10. IsShort(short)
  <2> DEFINE g == [n \in 0 .. N |-> f[n]]
  <2>1. ASSUME NEW n \in 0 .. N, n # 0 PROVE f[n] = After(g[n - 1], events[n])
    <3>1. n \in 1 .. N /\ n \in 0 .. (N + 1) /\ n - 1 \in 0 .. N
      BY <1>1, <2>1
    <3> QED BY <1>1, <1>8, <2>1, <3>1 DEF Take
  <2>2. g[0] = <<>>
    BY <1>1, <1>7 DEF IsRecursion
  <2>3. IsShort(g)
    BY <1>7, <2>1, <2>2 DEF IsRecursion
  <2> QED BY <2>3
<1> HIDE DEF long, short
<1>11. long[N + 1] = Take(N + 1, long[N]) /\ long[0] = <<>> /\ \A n \in 1 .. (N + 1) : long[n] = Take(n, long[n - 1])
  <2>1. /\ N + 1 \in 1 .. (N + 1) /\ (N + 1) - 1 = N /\ 0 \in 0 .. (N + 1)
        /\ \A n \in 1 .. (N + 1) : n \in 0 .. (N + 1) /\ n # 0
    BY <1>1
  <2>2. long[0] = <<>> /\ \A n \in 1 .. (N + 1) : long[n] = Take(n, long[n - 1])
    BY <1>9, <2>1
  <2> QED BY <2>1, <2>2
<1>12. short[0] = <<>> /\ \A n \in 1 .. N : short[n] = Take(n, short[n - 1])
  <2>1. 0 \in 0 .. N /\ \A n \in 1 .. N : n \in 0 .. N /\ n # 0
    BY <1>1
  <2> QED BY <1>1, <1>10, <2>1 DEF Take
<1>13. long[N] = f[N] /\ short[N] = f[N]
  <2>1. /\ N \in 0 .. (N + 1) /\ N + 1 \in 0 .. (N + 1) /\ N \in 0 .. N
        /\ \A n \in 1 .. N : n \in 1 .. (N + 1)
    BY <1>1
  <2>2. \A n \in 1 .. (N + 1) : long[n - 1] \in D => long[n] = step[<<n, long[n - 1]>>]
    BY <1>6, <1>11
  <2>3. \A n \in 0 .. (N + 1) : long[n] = f[n]
    <3>1. N + 1 \in 0 .. (N + 1)
      BY <2>1
    <3> QED BY <1>7, <1>11, <2>2, <3>1 DEF IsRecursion
  <2>4. \A n \in 1 .. N : short[n - 1] \in D => short[n] = step[<<n, short[n - 1]>>]
    BY <1>6, <1>12, <2>1
  <2>5. \A n \in 0 .. N : short[n] = f[n]
    BY <1>7, <1>12, <2>1, <2>4 DEF IsRecursion
  <2> QED BY <2>1, <2>3, <2>5
<1> QED BY <1>1, <1>2, <1>11, <1>13 DEF Take, all

\* Sequences of one length with the same elements are the same.
LEMMA SameSeq ==
  ASSUME NEW s, NEW t, IsSeq(s), IsSeq(t), Len(s) = Len(t), \A i \in DOMAIN s : s[i] = t[i]
  PROVE  s = t
<1>1. PICK S : s \in Seq(S)
  BY DEF IsSeq
<1>2. PICK T : t \in Seq(T)
  BY DEF IsSeq
<1>3. s \in Seq(S \cup T) /\ t \in Seq(S \cup T)
  BY <1>1, <1>2
<1>4. DOMAIN s = 1 .. Len(s) /\ DOMAIN t = 1 .. Len(t) /\ s = [i \in DOMAIN s |-> s[i]] /\ t = [i \in DOMAIN t |-> t[i]]
  BY <1>3
<1> QED BY <1>4

\* The domain of a sequence.
LEMMA Places ==
  ASSUME NEW s, IsSeq(s)
  PROVE  Len(s) \in Nat /\ DOMAIN s = 1 .. Len(s) /\ (s = <<>> <=> Len(s) = 0)
  BY DEF IsSeq

\* What was put last is last.
LEMMA PutLast ==
  ASSUME NEW s, NEW e, IsSeq(s)
  PROVE  Last(Append(s, e)) = e /\ Front(Append(s, e)) = s
<1> DEFINE t == Append(s, e)
<1>1. /\ IsSeq(t) /\ t # <<>> /\ Len(t) = Len(s) + 1
      /\ \A i \in DOMAIN s : t[i] = s[i]
      /\ t[Len(s) + 1] = e
  BY OneMore
<1> HIDE DEF t
<1>2. /\ IsSeq(Front(t)) /\ Last(t) = t[Len(t)] /\ Len(Front(t)) = Len(t) - 1
      /\ \A i \in DOMAIN Front(t) : Front(t)[i] = t[i]
  BY <1>1, OneLess
<1>3. Len(s) \in Nat /\ Len(Front(t)) = Len(s)
  BY <1>1, <1>2, Places
<1>4. DOMAIN Front(t) = DOMAIN s
  BY <1>2, <1>3, Places
<1>5. Front(t) = s
  BY <1>1, <1>2, <1>3, <1>4, SameSeq
<1> QED BY <1>1, <1>2, <1>5 DEF t

\* Two elements more, one after the other.
LEMMA TwoMore ==
  ASSUME NEW s, NEW a, NEW b, IsSeq(s)
  PROVE  s \o <<a, b>> = Append(Append(s, a), b)
<1>1. PICK S : s \in Seq(S)
  BY DEF IsSeq
<1>2. s \in Seq(S \cup {a, b}) /\ a \in S \cup {a, b} /\ b \in S \cup {a, b}
  BY <1>1
<1> QED BY <1>2

\* What runs, as the audit tells it.
Shown(frame) == <<frame.name, Tail(frame.args)>>
Running(frames) == [i \in DOMAIN frames |-> Shown(frames[i])]

\* One builtin more.
LEMMA OneMoreRuns ==
  ASSUME NEW frames, NEW frame, IsSeq(frames)
  PROVE  IsSeq(Running(frames)) /\ Running(Append(frames, frame)) = Append(Running(frames), Shown(frame))
<1> DEFINE more == Append(frames, frame)
<1>1. /\ IsSeq(more) /\ Len(more) = Len(frames) + 1
      /\ \A i \in DOMAIN frames : more[i] = frames[i]
      /\ more[Len(frames) + 1] = frame
  BY OneMore
<1> HIDE DEF more
<1>2. ASSUME NEW s, IsSeq(s)
      PROVE  /\ IsSeq(Running(s)) /\ Len(Running(s)) = Len(s) /\ DOMAIN Running(s) = 1 .. Len(s)
             /\ \A i \in 1 .. Len(s) : Running(s)[i] = Shown(s[i])
  <2>1. Len(s) \in Nat /\ DOMAIN s = 1 .. Len(s)
    BY <1>2, Places
  <2> DEFINE V == {Shown(s[i]) : i \in DOMAIN s}
  <2>2. Running(s) \in [1 .. Len(s) -> V]
    BY <2>1 DEF Running
  <2> HIDE DEF V
  <2>3. Running(s) \in Seq(V)
    BY <2>1, <2>2
  <2>4. Len(Running(s)) = Len(s)
    BY <2>1, <2>2, <2>3
  <2> QED BY <2>1, <2>2, <2>3, <2>4 DEF IsSeq, Running
<1>3. Len(frames) \in Nat
  BY Places
<1> DEFINE r == Running(frames)
           t == Append(r, Shown(frame))
<1>4. IsSeq(r) /\ Len(r) = Len(frames) /\ DOMAIN r = 1 .. Len(frames) /\ \A i \in 1 .. Len(frames) : r[i] = Shown(frames[i])
  BY <1>2
<1> HIDE DEF r
<1>5. IsSeq(t) /\ Len(t) = Len(frames) + 1 /\ (\A i \in DOMAIN r : t[i] = r[i]) /\ t[Len(frames) + 1] = Shown(frame)
  BY <1>4, OneMore
<1> HIDE DEF t
<1>6. /\ IsSeq(Running(more)) /\ Len(Running(more)) = Len(frames) + 1
      /\ DOMAIN Running(more) = 1 .. (Len(frames) + 1)
      /\ \A i \in 1 .. (Len(frames) + 1) : Running(more)[i] = Shown(more[i])
  BY <1>1, <1>2
<1>7. ASSUME NEW i \in 1 .. (Len(frames) + 1) PROVE Running(more)[i] = t[i]
  <2>1. i \in 1 .. Len(frames) \/ i = Len(frames) + 1
    BY <1>3
  <2>2. DOMAIN frames = 1 .. Len(frames)
    BY Places
  <2> QED BY <1>1, <1>4, <1>5, <1>6, <2>1, <2>2
<1>8. Running(more) = t
  BY <1>5, <1>6, <1>7, SameSeq
<1> QED BY <1>4, <1>8 DEF more, t, r

\* One builtin less, or another one in its place.
LEMMA OneLessRuns ==
  ASSUME NEW frames, IsSeq(frames), frames # <<>>
  PROVE  frames = Append(Front(frames), Last(frames)) /\ IsSeq(Front(frames))
<1>1. /\ IsSeq(Front(frames)) /\ Len(frames) \in DOMAIN frames /\ Last(frames) = frames[Len(frames)]
      /\ Len(Front(frames)) = Len(frames) - 1
      /\ \A i \in DOMAIN Front(frames) : Front(frames)[i] = frames[i]
  BY OneLess
<1> DEFINE less == Front(frames)
           t == Append(less, Last(frames))
<1>2. /\ IsSeq(t) /\ Len(t) = Len(less) + 1
      /\ \A i \in DOMAIN less : t[i] = less[i]
      /\ t[Len(less) + 1] = Last(frames)
  BY <1>1, OneMore
<1>3. Len(frames) \in Nat /\ DOMAIN frames = 1 .. Len(frames) /\ DOMAIN less = 1 .. (Len(frames) - 1)
  BY <1>1, Places
<1> HIDE DEF t, less
<1>4. Len(t) = Len(frames)
  BY <1>1, <1>2, <1>3 DEF less
<1>5. ASSUME NEW i \in DOMAIN frames PROVE frames[i] = t[i]
  <2>1. i \in 1 .. (Len(frames) - 1) \/ i = Len(frames)
    BY <1>3
  <2>2. CASE i = Len(frames)
    BY <1>1, <1>2, <1>3, <2>2 DEF less
  <2>3. CASE i \in 1 .. (Len(frames) - 1)
    BY <1>1, <1>2, <1>3, <2>3 DEF less
  <2> QED BY <2>1, <2>2, <2>3
<1>6. frames = t
  BY <1>2, <1>4, <1>5, SameSeq
<1> QED BY <1>1, <1>6 DEF t, less

\* Command lines of words.
Line == Seq(STRING) \ {<<>>}

\* A builtin that runs was given words, and so will be what it dispatches.
Framed(frame) ==
  /\ DOMAIN frame = {"name", "args", "out", "body"} /\ DOMAIN frame.body = {"todo", "plus", "results"}
  /\ frame.args \in Line /\ frame.body.todo \in Seq(Line)

\* Whatever is expanded, decided on or running is a line of words; a builtin below
\* another, or below a command, has something left to dispatch.
WordsInv ==
  /\ \A n \in DOMAIN aliases : aliases[n] \in Line
  /\ pc.kind = "boot" => pc.next \in Nat \ {0}
  /\ pc.kind \in {"call", "alias", "run"} => pc.args \in Line
  /\ pc.kind = "alias" => pc.typed \in Line
  /\ \A i \in DOMAIN stack : Framed(stack[i])
  /\ \A i \in DOMAIN stack : (pc.kind = "body" => i # Len(stack)) => stack[i].body.todo # <<>>

\* With it the audit nests.
AuditInv == ProfileInv /\ WordsInv /\ IsSeq(audit) /\ AuditNests

\* A greatest element.
LEMMA MaxIn ==
  ASSUME NEW n \in Nat, NEW S, S \subseteq 1 .. n, S # {}
  PROVE  Max(S) \in S
<1> DEFINE Bounds == {m \in Nat : \A i \in S : i <= m}
<1>1. n \in Bounds
  OBVIOUS
<1>2. PICK m \in Bounds : \A k \in Bounds : m <= k
  BY <1>1, LeastNat
<1>3. m \in S
  <2> SUFFICES ASSUME m \notin S PROVE FALSE
    OBVIOUS
  <2>1. \A i \in S : i \in Nat \ {0} /\ i <= m /\ i # m
    BY <1>2
  <2>2. PICK i \in S : TRUE
    OBVIOUS
  <2>3. m - 1 \in Nat
    BY <1>2, <2>1, <2>2
  <2>4. m - 1 \in Bounds
    BY <1>2, <2>1, <2>3
  <2>5. m <= m - 1
    BY <1>2, <2>4
  <2> QED BY <1>2, <2>5
<1>4. \A i \in S : m >= i
  BY <1>2
<1> QED BY <1>3, <1>4 DEF Max

\* Normalized aliases are lines.
LEMMA NormalizedWords ==
  ASSUME NEW raw, \A n \in DOMAIN raw : raw[n] \in Seq(STRING)
  PROVE  \A n \in DOMAIN NormalizeCommandAliases(raw) : NormalizeCommandAliases(raw)[n] \in Line
<1>1. \A n \in DOMAIN raw : Only(raw[n], Range(raw[n]) \ {""}) \in Seq(STRING)
  BY OnlyWords
<1> QED BY <1>1 DEF NormalizeCommandAliases, Line

\* So are those of an rc file on top of them.
LEMMA OverlayWords ==
  ASSUME \A n \in DOMAIN aliases : aliases[n] \in Line,
         NEW lines, \A j \in DOMAIN lines : lines[j].words \in Seq(STRING), IsSeq(lines)
  PROVE  \A n \in DOMAIN Overlay(lines) : Overlay(lines)[n] \in Line
<1> DEFINE overlay == ParseRCContent(lines)
           over == NormalizeCommandAliases(overlay)
           under == NormalizeCommandAliases(aliases)
<1>1. \A n \in DOMAIN overlay : overlay[n] \in Seq(STRING)
  <2> DEFINE defining == {i \in DOMAIN lines : lines[i].kind = "alias"}
  <2>1. SUFFICES ASSUME NEW n \in DOMAIN overlay PROVE overlay[n] \in Seq(STRING)
    OBVIOUS
  <2>2. PICK S : S = {i \in defining : lines[i].name = n}
    OBVIOUS
  <2>3. S # {} /\ overlay[n] = lines[Max(S)].words
    BY <2>1, <2>2 DEF ParseRCContent
  <2>4. Len(lines) \in Nat /\ S \subseteq 1 .. Len(lines) /\ S \subseteq DOMAIN lines
    BY <2>2, Places
  <2>5. Max(S) \in DOMAIN lines
    BY <2>3, <2>4, MaxIn
  <2> QED BY <2>3, <2>5
<1> HIDE DEF overlay
<1>2. \A n \in DOMAIN over : over[n] \in Line
  BY <1>1, NormalizedWords
<1>3. \A n \in DOMAIN under : under[n] \in Line
  BY NormalizedWords DEF Line
<1> QED BY <1>2, <1>3 DEF Overlay, MergeCommandAliases, overlay

\* The beginning.
LEMMA InitAudit == Init => AuditInv
<1> SUFFICES ASSUME Init PROVE AuditInv
  OBVIOUS
<1>1. /\ aliases = NormalizeCommandAliases(Configured) /\ pc = [kind |-> "boot", next |-> 1]
      /\ stack = <<>> /\ audit = <<>>
  BY DEF Init
<1>2. ProfileInv /\ IsSeq(audit)
  BY <1>1, InitProfile DEF IsSeq
<1>3. \A n \in DOMAIN aliases : aliases[n] \in Line
  BY <1>1, WordsAssumption, NormalizedWords
<1>4. WordsInv
  <2>1. DOMAIN stack = {}
    BY <1>1
  <2> QED BY <1>1, <1>3, <2>1 DEF WordsInv
<1>5. AuditNests
  BY <1>1, NoneOpened DEF AuditNests
<1> QED BY <1>2, <1>4, <1>5 DEF AuditInv

\* Steps that leave the stack alone.
LEMMA WordsStay ==
  ASSUME WordsInv, UNCHANGED <<aliases, stack>>,
         \/ pc' = pc
         \/ pc'.kind \in {"body", "back", "done"}
         \/ pc'.kind \in {"call", "run"} /\ pc'.args \in Line
         \/ pc'.kind = "alias" /\ pc'.args \in Line /\ pc'.typed \in Line,
         pc.kind = "body" => pc' = pc \/ stack[Len(stack)].body.todo # <<>>
  PROVE  WordsInv'
<1>1. \A i \in DOMAIN stack : Framed(stack[i])
  BY DEF WordsInv
<1>2. /\ \A i \in DOMAIN stack' : Framed(stack'[i])
      /\ \A i \in DOMAIN stack' : (pc'.kind = "body" => i # Len(stack')) => stack'[i].body.todo # <<>>
  <2>1. \A i \in DOMAIN stack' : (pc'.kind = "body" => i # Len(stack')) => stack'[i].body.todo # <<>>
    BY DEF WordsInv
  <2> QED BY <1>1, <2>1
<1>3. \A n \in DOMAIN aliases' : aliases'[n] \in Line
  BY DEF WordsInv
<1> QED BY <1>2, <1>3 DEF WordsInv

\* The end of a builtin keeps them.
LEMMA WordsEnd ==
  ASSUME NEW out, ProfileInv, WordsInv, pc.kind \in {"body", "back"}, EndBuiltin(out)
  PROVE  WordsInv'
<1>1. stack' = Front(stack) /\ aliases' = aliases /\ pc'.kind \in {"done", "back"}
  BY DEF EndBuiltin, Return
<1>2. IsSeq(stack) /\ stack # <<>>
  BY DEF ProfileInv
<1>3. \A i \in DOMAIN stack : Framed(stack[i])
  BY DEF WordsInv
<1>4. \A i \in DOMAIN stack' : Framed(stack'[i])
  BY <1>1, <1>2, <1>3, OneLess
<1>5. \A i \in DOMAIN stack' : stack'[i].body.todo # <<>>
  <2>1. \A i \in DOMAIN Front(stack) : i \in DOMAIN stack /\ i # Len(stack) /\ Front(stack)[i] = stack[i]
    <3>1. Len(stack) \in Nat /\ DOMAIN Front(stack) = 1 .. (Len(stack) - 1)
      BY <1>2, OneLess, Places
    <3> QED BY <1>2, <3>1, OneLess
  <2> QED BY <1>1, <2>1 DEF WordsInv
<1>6. \A n \in DOMAIN aliases' : aliases'[n] \in Line
  BY <1>1 DEF WordsInv
<1> QED BY <1>1, <1>4, <1>5, <1>6 DEF WordsInv

\* Every step keeps words.
LEMMA NextWords == ProfileInv /\ WordsInv /\ [Next]_vars => WordsInv'
<1> SUFFICES ASSUME ProfileInv, WordsInv, [Next]_vars PROVE WordsInv'
  OBVIOUS
<1>1. CASE LoadRC
  <2> DEFINE content == RCContent[RCFiles[pc.next]]
             lines == IF content.found = "yes" THEN content.lines ELSE <<>>
  <2>1. pc.kind = "boot" /\ pc.next \in Nat \ {0} /\ pc.next <= Len(RCFiles) /\ stack' = stack
    BY <1>1 DEF LoadRC, WordsInv
  <2>2. pc.next \in 1 .. Len(RCFiles)
    BY <2>1, WordsAssumption
  <2>3. IsSeq(lines) /\ \A j \in DOMAIN lines : lines[j].words \in Seq(STRING)
    <3>1. CASE content.found = "yes"
      <4>1. lines \in Seq([kind : STRING, name : STRING, words : Seq(STRING)])
        BY <2>2, <3>1, WordsAssumption
      <4> HIDE DEF lines
      <4>2. \A j \in DOMAIN lines : lines[j] \in [kind : STRING, name : STRING, words : Seq(STRING)]
        BY <4>1, ElementsIn
      <4> QED BY <4>1, <4>2 DEF IsSeq
    <3>2. CASE content.found # "yes"
      <4>1. lines = <<>>
        BY <3>2
      <4> HIDE DEF lines
      <4>2. IsSeq(lines)
        BY <4>1 DEF IsSeq
      <4> QED BY <4>1, <4>2
    <3> QED BY <3>1, <3>2
  <2>4. \/ aliases' = aliases /\ pc'.kind = "done"
        \/ aliases' = Overlay(lines) /\ pc' = [kind |-> "boot", next |-> pc.next + 1]
    BY <1>1 DEF LoadRC
  <2> HIDE DEF lines
  <2>5. \A n \in DOMAIN aliases' : aliases'[n] \in Line
    BY <2>3, <2>4, OverlayWords DEF WordsInv
  <2>6. /\ \A i \in DOMAIN stack' : Framed(stack'[i])
        /\ \A i \in DOMAIN stack' : stack'[i].body.todo # <<>>
    BY <2>1 DEF WordsInv
  <2>7. pc'.kind = "boot" => pc'.next \in Nat \ {0}
    BY <2>1, <2>4
  <2>8. pc'.kind \in {"done", "boot"}
    BY <2>4
  <2> QED BY <2>5, <2>6, <2>7, <2>8 DEF WordsInv
<1>2. CASE Begin
  <2>1. pc'.kind = "call" /\ pc'.args \in Line
    BY <1>2, WordsAssumption DEF Begin, Call, Line
  <2> QED BY <1>2, <2>1, WordsStay DEF Begin
<1>3. CASE Enter
  <2>1. \/ pc'.kind \in {"done", "back"}
        \/ pc' = [kind |-> "alias", typed |-> pc.args, args |-> pc.args, seen |-> {}]
    BY <1>3 DEF Enter, Return
  <2>2. pc.args \in Line
    BY <1>3 DEF Enter, WordsInv
  <2> QED BY <1>3, <2>1, <2>2, WordsStay DEF Enter
<1>4. CASE ExpandCommandAlias
  <2>1. pc.args \in Line /\ pc.typed \in Line
    BY <1>4 DEF ExpandCommandAlias, WordsInv
  <2>2. \/ pc'.kind \in {"done", "back"}
        \/ /\ pc'.kind = "alias" /\ pc'.typed = pc.typed /\ pc'.args = Substitute(pc.args)
           /\ Head(pc.args) \in DOMAIN aliases
        \/ pc'.kind = "run" /\ pc'.args = pc.args
    BY <1>4 DEF ExpandCommandAlias, Return
  <2>3. Head(pc.args) \in DOMAIN aliases => Substitute(pc.args) \in Line
    <3>1. \A a, b \in Seq(STRING) : a # <<>> => a \o b \in Seq(STRING) /\ a \o b # <<>>
      OBVIOUS
    <3>2. Tail(pc.args) \in Seq(STRING)
      BY <2>1, NotEmpty DEF Line
    <3>3. Head(pc.args) \in DOMAIN aliases => aliases[Head(pc.args)] \in Line
      BY DEF WordsInv
    <3> QED BY <3>1, <3>2, <3>3 DEF Substitute, Line
  <2> QED BY <1>4, <2>1, <2>2, <2>3, WordsStay DEF ExpandCommandAlias
<1>5. CASE Refuse
  BY <1>5, WordsStay DEF Refuse, Return
<1>6. CASE RunExternalCommand
  <2>1. pc'.kind \in {"done", "back"}
    BY <1>6 DEF RunExternalCommand, Return
  <2> QED BY <1>6, <2>1, WordsStay DEF RunExternalCommand
<1>7. CASE DispatchNext
  <2>1. pc.kind = "body" /\ Last(stack).body.todo # <<>> /\ UNCHANGED <<aliases, stack>>
    BY <1>7 DEF DispatchNext
  <2>2. Framed(Last(stack))
    BY <2>1, OneLess DEF ProfileInv, WordsInv
  <2>3. Head(Last(stack).body.todo) \in Line
    BY <2>1, <2>2, NotEmpty DEF Framed
  <2>5. stack[Len(stack)].body.todo # <<>>
    BY <2>1, OneLess DEF ProfileInv
  <2>4. pc'.kind = "back" \/ pc' = Call(Head(Last(stack).body.todo))
    BY <1>7 DEF DispatchNext
  <2> QED BY <2>1, <2>3, <2>4, <2>5, WordsStay DEF Call
<1>8. CASE Cancel \/ UNCHANGED vars
  <2>1. pc' = pc /\ UNCHANGED <<aliases, stack>>
    BY <1>8 DEF Cancel, vars
  <2> QED BY <2>1, WordsStay
<1>9. CASE Finish \/ FindStop
  <2>1. PICK out : EndBuiltin(out)
    BY <1>9 DEF Finish, FindStop
  <2>2. pc.kind \in {"body", "back"}
    BY <1>9 DEF Finish, FindStop
  <2> QED BY <2>1, <2>2, WordsEnd
<1>10. CASE StartBuiltin
  <2>1. pc.args \in Line
    BY <1>10 DEF StartBuiltin, WordsInv
  <2>2. PICK body \in IF Named.name = "find" THEN RunFind(Tail(pc.args)) ELSE {Body(<<>>, FALSE, PlainResults)} :
          stack' = Append(stack, [name |-> Named.name, args |-> pc.args, out |-> 0, body |-> body])
    BY <1>10 DEF StartBuiltin
  <2>3. body.todo \in Seq(Line) /\ DOMAIN body = {"todo", "plus", "results"}
    <3>1. CASE Named.name = "find"
      <4>1. Tail(pc.args) \in Seq(STRING) /\ body \in RunFind(Tail(pc.args))
        BY <2>1, <2>2, <3>1, NotEmpty DEF Line
      <4> QED BY <4>1, BodyOfWords DEF Line
    <3>2. CASE Named.name # "find"
      <4>1. body = Body(<<>>, FALSE, PlainResults)
        BY <2>2, <3>2
      <4> QED BY <4>1 DEF Body
    <3> QED BY <3>1, <3>2
  <2> DEFINE frame == [name |-> Named.name, args |-> pc.args, out |-> 0, body |-> body]
  <2>4. Framed(frame)
    BY <2>1, <2>3 DEF Framed
  <2> HIDE DEF frame
  <2>5. stack' = Append(stack, frame)
    BY <2>2 DEF frame
  <2>6. IsSeq(stack) /\ \A i \in DOMAIN stack : Framed(stack[i])
    BY DEF ProfileInv, WordsInv
  <2>7. \A i \in DOMAIN stack' : Framed(stack'[i])
    BY <2>4, <2>5, <2>6, OneMore
  <2>8. aliases' = aliases /\ pc'.kind = "body"
    BY <1>10 DEF StartBuiltin
  <2>9. \A n \in DOMAIN aliases' : aliases'[n] \in Line
    BY <2>8 DEF WordsInv
  <2>10. \A i \in DOMAIN stack : stack[i].body.todo # <<>>
    BY <1>10 DEF StartBuiltin, WordsInv
  <2>11. \A i \in DOMAIN stack' : i # Len(stack') => stack'[i].body.todo # <<>>
    BY <2>5, <2>6, <2>10, OneMore
  <2> QED BY <2>7, <2>8, <2>9, <2>11 DEF WordsInv
<1>11. CASE FindGo
  <2>1. /\ IsSeq(stack) /\ stack # <<>> /\ \A i \in DOMAIN stack : Framed(stack[i])
        /\ stack' = Append(Front(stack), FindGoesOn(Last(stack), pc.out))
        /\ aliases' = aliases /\ pc'.kind = "body"
    BY <1>11 DEF FindGo, ProfileInv, WordsInv
  <2>2. PICK frame : frame = FindGoesOn(Last(stack), pc.out)
    OBVIOUS
  <2>3. Framed(frame)
    <3>1. Framed(Last(stack))
      BY <2>1, OneLess
    <3>2. /\ DOMAIN frame = DOMAIN Last(stack) /\ DOMAIN frame.body = DOMAIN Last(stack).body
          /\ frame.args = Last(stack).args /\ frame.body.todo = Tail(Last(stack).body.todo)
      BY <2>2, <3>1 DEF FindGoesOn, Framed
    <3>3. Last(stack).body.todo # <<>>
      BY <1>11, <2>1, OneLess DEF FindGo, WordsInv
    <3>4. Tail(Last(stack).body.todo) \in Seq(Line)
      BY <3>1, <3>3, NotEmpty DEF Framed
    <3> QED BY <3>1, <3>2, <3>4 DEF Framed
  <2>4. \A i \in DOMAIN Front(stack) : Framed(Front(stack)[i])
    BY <2>1, OneLess
  <2>5. \A i \in DOMAIN stack' : Framed(stack'[i])
    BY <2>1, <2>2, <2>3, <2>4, OneLess, OneMore
  <2>6. \A n \in DOMAIN aliases' : aliases'[n] \in Line
    BY <2>1 DEF WordsInv
  <2>7. \A i \in DOMAIN Front(stack) : Front(stack)[i].body.todo # <<>>
    <3>1. Len(stack) \in Nat /\ DOMAIN Front(stack) = 1 .. (Len(stack) - 1)
      BY <2>1, OneLess, Places
    <3>2. \A i \in DOMAIN Front(stack) : i \in DOMAIN stack /\ i # Len(stack) /\ Front(stack)[i] = stack[i]
      BY <2>1, <3>1, OneLess
    <3> QED BY <3>2 DEF WordsInv
  <2>8. \A i \in DOMAIN stack' : i # Len(stack') => stack'[i].body.todo # <<>>
    BY <2>1, <2>7, OneLess, OneMore
  <2> QED BY <2>1, <2>5, <2>6, <2>8 DEF WordsInv
<1> QED BY <1>1, <1>2, <1>3, <1>4, <1>5, <1>6, <1>7, <1>8, <1>9, <1>10, <1>11 DEF Next, Step

\* An event of an end is no start.
LEMMA Phases ==
  ASSUME NEW name, NEW args, NEW code
  PROVE  /\ Event("start", name, args, 0).phase = "start"
         /\ Ending(name, args, code).phase # "start"
         /\ Event("start", name, args, 0).command = name /\ Event("start", name, args, 0).args = args
         /\ Ending(name, args, code).command = name /\ Ending(name, args, code).args = args
         /\ Ending(name, args, code).code = code
  BY DEF Event, Ending

\* The end of a builtin closes what was opened last.
LEMMA NestsEnd ==
  ASSUME NEW out, AuditInv, pc.kind \in {"body", "back"}, EndBuiltin(out)
  PROVE  IsSeq(audit') /\ AuditNests'
<1> DEFINE frame == Last(stack)
           e == Ending(frame.name, Tail(frame.args), out.code)
<1>1. stack' = Front(stack) /\ audit' = Append(audit, e)
  BY DEF EndBuiltin
<1>2. IsSeq(stack) /\ stack # <<>> /\ IsSeq(audit) /\ Opened(audit) = Running(stack)
  BY DEF AuditInv, ProfileInv, AuditNests, Running, Shown
<1>3. stack = Append(Front(stack), frame) /\ IsSeq(Front(stack))
  BY <1>2, OneLessRuns
<1>4. Running(stack) = Append(Running(Front(stack)), Shown(frame)) /\ IsSeq(Running(Front(stack)))
  BY <1>3, OneMoreRuns
<1>5. e.phase # "start" /\ <<e.command, e.args>> = Shown(frame)
  BY Phases DEF Shown
<1> HIDE DEF e, frame
<1>6. Opened(audit') = After(Running(stack), e)
  BY <1>1, <1>2, OpenedAfter
<1>7. /\ Running(stack) # <<>> /\ Last(Running(stack)) = Shown(frame)
      /\ Front(Running(stack)) = Running(Front(stack))
  BY <1>4, OneMore, PutLast
<1>8. Opened(audit') = Running(Front(stack))
  BY <1>5, <1>6, <1>7 DEF After
<1>9. Opened(audit') = Running(stack')
  BY <1>1, <1>8
<1>10. IsSeq(audit')
  BY <1>1, <1>2, OneMore
<1> QED BY <1>9, <1>10 DEF AuditNests, Running, Shown

\* Every step keeps the audit nested.
LEMMA NextNests == AuditInv /\ [Next]_vars => IsSeq(audit') /\ AuditNests'
<1> SUFFICES ASSUME AuditInv, [Next]_vars PROVE IsSeq(audit') /\ AuditNests'
  OBVIOUS
<1>0. IsSeq(stack) /\ IsSeq(audit) /\ Opened(audit) = Running(stack)
  BY DEF AuditInv, ProfileInv, AuditNests, Running, Shown
<1>1. ASSUME IsSeq(audit'), Opened(audit') = Running(stack') PROVE IsSeq(audit') /\ AuditNests'
  BY <1>1 DEF AuditNests, Running, Shown
<1>2. ASSUME UNCHANGED <<stack, audit>> PROVE IsSeq(audit') /\ AuditNests'
  BY <1>0, <1>1, <1>2
<1>3. CASE LoadRC \/ Begin \/ Enter \/ ExpandCommandAlias \/ Refuse \/ DispatchNext \/ Cancel \/ UNCHANGED vars
  BY <1>2, <1>3 DEF LoadRC, Begin, Enter, ExpandCommandAlias, Refuse, DispatchNext, Cancel, vars
<1>4. CASE Finish \/ FindStop
  BY <1>4, NestsEnd DEF Finish, FindStop
<1>5. CASE StartBuiltin
  <2>1. PICK body : /\ stack' = Append(stack, [name |-> Named.name, args |-> pc.args, out |-> 0, body |-> body])
                    /\ audit' = Append(audit, Event("start", Named.name, Tail(pc.args), 0))
    BY <1>5 DEF StartBuiltin
  <2> DEFINE frame == [name |-> Named.name, args |-> pc.args, out |-> 0, body |-> body]
             e == Event("start", Named.name, Tail(pc.args), 0)
  <2>2. e.phase = "start" /\ <<e.command, e.args>> = Shown(frame)
    BY Phases DEF Shown
  <2>3. stack' = Append(stack, frame) /\ audit' = Append(audit, e)
    BY <2>1
  <2> HIDE DEF frame, e
  <2>4. Opened(audit') = Append(Running(stack), Shown(frame))
    BY <1>0, <2>2, <2>3, OpenedAfter DEF After
  <2>5. Running(stack') = Append(Running(stack), Shown(frame))
    BY <1>0, <2>3, OneMoreRuns
  <2>6. IsSeq(audit')
    BY <1>0, <2>3, OneMore
  <2> QED BY <1>1, <2>4, <2>5, <2>6
<1>6. CASE FindGo
  <2>1. /\ stack # <<>> /\ audit' = audit
        /\ stack' = Append(Front(stack), FindGoesOn(Last(stack), pc.out))
    BY <1>6 DEF FindGo, AuditInv, ProfileInv
  <2>2. Framed(Last(stack))
    BY <1>0, <2>1, OneLess DEF AuditInv, WordsInv
  <2>3. PICK frame : frame = FindGoesOn(Last(stack), pc.out)
    OBVIOUS
  <2>4. Shown(frame) = Shown(Last(stack))
    BY <2>2, <2>3 DEF FindGoesOn, Framed, Shown
  <2>5. stack = Append(Front(stack), Last(stack)) /\ IsSeq(Front(stack))
    BY <1>0, <2>1, OneLessRuns
  <2>6. Running(stack) = Append(Running(Front(stack)), Shown(Last(stack)))
    BY <2>5, OneMoreRuns
  <2>7. Running(stack') = Append(Running(Front(stack)), Shown(frame))
    BY <2>1, <2>3, <2>5, OneMoreRuns
  <2> QED BY <1>0, <1>1, <2>1, <2>4, <2>6, <2>7
<1>7. CASE RunExternalCommand
  <2>1. PICK reply : audit' = audit \o ExternalEvents(Named.name, Tail(pc.args), reply)
    BY <1>7 DEF RunExternalCommand
  <2>2. stack' = stack
    BY <1>7 DEF RunExternalCommand
  <2> DEFINE a == Event("start", Named.name, Tail(pc.args), 0)
             b == Ending(Named.name, Tail(pc.args), CompatCode(reply))
  <2>3. audit' = audit \o <<a, b>>
    BY <2>1 DEF ExternalEvents
  <2>4. a.phase = "start" /\ b.phase # "start" /\ <<a.command, a.args>> = <<b.command, b.args>>
    BY Phases
  <2> HIDE DEF a, b
  <2>5. audit' = Append(Append(audit, a), b) /\ IsSeq(Append(audit, a))
    BY <1>0, <2>3, TwoMore, OneMore
  <2>6. Opened(Append(audit, a)) = Append(Running(stack), <<a.command, a.args>>)
    BY <1>0, <2>4, OpenedAfter DEF After
  <2>7. Opened(audit') = After(Append(Running(stack), <<b.command, b.args>>), b)
    BY <2>4, <2>5, <2>6, OpenedAfter
  <2>8. IsSeq(Running(stack))
    BY <1>0, OneMoreRuns
  <2>9. Opened(audit') = Running(stack)
    <3> DEFINE t == Append(Running(stack), <<b.command, b.args>>)
    <3>1. t # <<>> /\ Last(t) = <<b.command, b.args>> /\ Front(t) = Running(stack)
      BY <2>8, OneMore, PutLast
    <3> HIDE DEF t
    <3>2. After(t, b) = Front(t)
      BY <2>4, <3>1 DEF After
    <3> QED BY <2>7, <3>1, <3>2 DEF t
  <2>10. IsSeq(audit')
    BY <2>5, OneMore
  <2> QED BY <1>1, <2>2, <2>9, <2>10
<1> QED BY <1>3, <1>4, <1>5, <1>6, <1>7 DEF Next, Step

\* The audit nests.
LEMMA NextAudit == AuditInv /\ [Next]_vars => AuditInv'
  BY NextProfile, NextWords, NextNests DEF AuditInv

----------------------------------------------------------------------------
(***************************************************************************)
(* The audit and the trace.                                                *)
(***************************************************************************)

\* Counting up to a place, before and after one more.
LEMMA Counted ==
  ASSUME NEW n \in Nat, NEW S, S \subseteq 1 .. n
  PROVE  /\ Cardinality(S) \in Nat
         /\ \A i : UpTo(S, i) \in Nat
         /\ Cardinality(S \cup {n + 1}) = Cardinality(S) + 1
         /\ UpTo(S \cup {n + 1}, n + 1) = Cardinality(S) + 1
         /\ \A i \in 1 .. n : UpTo(S \cup {n + 1}, i) = UpTo(S, i)
<1>1. IsFiniteSet(1 .. n)
  BY FS_Interval
<1>2. IsFiniteSet(S) /\ Cardinality(S) \in Nat
  BY <1>1, FS_Subset, FS_CardinalityType
<1>3. ASSUME NEW i PROVE UpTo(S, i) \in Nat
  <2>1. {j \in S : j <= i} \in SUBSET S
    OBVIOUS
  <2>2. IsFiniteSet({j \in S : j <= i})
    BY <1>2, <2>1, FS_Subset
  <2> QED BY <2>2, FS_CardinalityType DEF UpTo
<1>4. n + 1 \notin S /\ n + 1 <= n + 1 /\ \A j \in S : j <= n + 1
  OBVIOUS
<1>5. Cardinality(S \cup {n + 1}) = Cardinality(S) + 1
  BY <1>2, <1>4, FS_AddElement
<1>6. {j \in S \cup {n + 1} : j <= n + 1} = S \cup {n + 1}
  BY <1>4
<1>7. ASSUME NEW i \in 1 .. n PROVE UpTo(S \cup {n + 1}, i) = UpTo(S, i)
  <2>1. ~(n + 1 <= i)
    OBVIOUS
  <2>2. {j \in S \cup {n + 1} : j <= i} = {j \in S : j <= i}
    BY <2>1
  <2> QED BY <2>2 DEF UpTo
<1> QED BY <1>2, <1>3, <1>5, <1>6, <1>7 DEF UpTo

\* What one more event or step adds to a domain.
LEMMA OnePlace ==
  ASSUME NEW s, NEW e, IsSeq(s)
  PROVE  /\ IsSeq(Append(s, e)) /\ Len(s) \in Nat /\ Len(Append(s, e)) = Len(s) + 1
         /\ DOMAIN s = 1 .. Len(s) /\ DOMAIN Append(s, e) = DOMAIN s \cup {Len(s) + 1}
         /\ Len(s) + 1 \notin DOMAIN s
         /\ \A i \in DOMAIN s : Append(s, e)[i] = s[i]
         /\ Append(s, e)[Len(s) + 1] = e
<1>1. /\ IsSeq(Append(s, e)) /\ Len(Append(s, e)) = Len(s) + 1
      /\ \A i \in DOMAIN s : Append(s, e)[i] = s[i]
      /\ Append(s, e)[Len(s) + 1] = e
  BY OneMore
<1>2. Len(s) \in Nat /\ DOMAIN s = 1 .. Len(s) /\ DOMAIN Append(s, e) = 1 .. (Len(s) + 1)
  BY <1>1, Places
<1> QED BY <1>1, <1>2

\* The end of a builtin is told by its step.
LEMMA EndTold ==
  ASSUME NEW out, ProfileInv, IsSeq(audit), TraceMatchesAudit,
         pc.kind \in {"body", "back"}, EndBuiltin(out)
  PROVE  TraceMatchesAudit'
<1> DEFINE frame == Last(stack)
           e == Ending(frame.name, Tail(frame.args), out.code)
           s == [command |-> frame.name, argv |-> frame.args, namespace |-> "builtin", code |-> out.code]
           n == Len(audit)
           x == Len(executed)
           k == Len(outcomes)
           B == StepsOf("builtin")
<1>1. audit' = Append(audit, e) /\ executed' = Append(executed, s) /\ outcomes' = outcomes
  BY DEF EndBuiltin
<1>2. IsSeq(audit) /\ IsSeq(executed) /\ IsSeq(outcomes)
  BY DEF ProfileInv
<1>3. e.phase # "start" /\ s.namespace = "builtin" /\ Tells(e, s)
  BY Phases DEF Tells
<1> HIDE DEF e, s
<1>4. /\ n \in Nat /\ n + 1 \in Nat /\ DOMAIN audit = 1 .. n /\ DOMAIN audit' = DOMAIN audit \cup {n + 1}
      /\ n + 1 \notin DOMAIN audit /\ audit'[n + 1] = e
      /\ \A i \in DOMAIN audit : audit'[i] = audit[i]
  BY <1>1, <1>2, OnePlace
<1>5. /\ x \in Nat /\ x + 1 \in Nat /\ DOMAIN executed = 1 .. x /\ DOMAIN executed' = DOMAIN executed \cup {x + 1}
      /\ x + 1 \notin DOMAIN executed /\ executed'[x + 1] = s
      /\ \A i \in DOMAIN executed : executed'[i] = executed[i]
  BY <1>1, <1>2, OnePlace
<1>6. k \in Nat
  BY <1>2, Places
<1>7. Endings \subseteq 1 .. n /\ Endings' = Endings \cup {n + 1}
  BY <1>3, <1>4 DEF Endings
<1>8. B \subseteq 1 .. x /\ B' = B \cup {x + 1}
  BY <1>3, <1>5 DEF StepsOf
<1>9. StepsOf("external")' = StepsOf("external") /\ StepsOf("external") \subseteq DOMAIN executed
  BY <1>3, <1>5 DEF StepsOf
<1>10. Ran' = Ran
  BY <1>1 DEF Ran
<1>11. /\ Cardinality(Endings) \in Nat /\ Cardinality(Endings') = Cardinality(Endings) + 1
       /\ UpTo(Endings', n + 1) = Cardinality(Endings) + 1
       /\ \A i \in 1 .. n : UpTo(Endings', i) = UpTo(Endings, i)
  <2> HIDE DEF n
  <2>1. n \in Nat /\ Endings \subseteq 1 .. n
    BY <1>4, <1>7
  <2>2. /\ Cardinality(Endings) \in Nat
        /\ Cardinality(Endings \cup {n + 1}) = Cardinality(Endings) + 1
        /\ UpTo(Endings \cup {n + 1}, n + 1) = Cardinality(Endings) + 1
        /\ \A i \in 1 .. n : UpTo(Endings \cup {n + 1}, i) = UpTo(Endings, i)
    BY <2>1, Counted
  <2> QED BY <1>7, <2>2
<1>12. /\ Cardinality(B) \in Nat /\ Cardinality(B') = Cardinality(B) + 1
       /\ UpTo(B', x + 1) = Cardinality(B) + 1
       /\ \A j \in 1 .. x : UpTo(B', j) = UpTo(B, j)
  <2> HIDE DEF x, B
  <2>1. x \in Nat /\ B \subseteq 1 .. x
    BY <1>5, <1>8
  <2>2. /\ Cardinality(B) \in Nat
        /\ Cardinality(B \cup {x + 1}) = Cardinality(B) + 1
        /\ UpTo(B \cup {x + 1}, x + 1) = Cardinality(B) + 1
        /\ \A i \in 1 .. x : UpTo(B \cup {x + 1}, i) = UpTo(B, i)
    BY <2>1, Counted
  <2> QED BY <1>8, <2>2
<1>13. Cardinality(Endings) = Cardinality(B) + k
  BY DEF TraceMatchesAudit, EndingsTold
<1> HIDE DEF n, x, k, B
<1>14. ASSUME NEW i \in Endings'
       PROVE  \/ \E j \in B' : Tells(audit'[i], executed'[j]) /\ UpTo(Endings', i) - UpTo(B', j) \in 0 .. k
              \/ \E j \in DOMAIN outcomes :
                   Tells(audit'[i], outcomes[j]) /\ UpTo(Endings', i) - j \in 0 .. Cardinality(B')
  <2>1. CASE i = n + 1
    <3>1. Tells(audit'[i], executed'[x + 1]) /\ x + 1 \in B'
      BY <1>3, <1>4, <1>5, <1>8, <2>1
    <3>2. UpTo(Endings', i) - UpTo(B', x + 1) = k
      BY <1>6, <1>11, <1>12, <1>13, <2>1
    <3>3. k \in 0 .. k
      BY <1>6
    <3> QED BY <3>1, <3>2, <3>3
  <2>2. CASE i \in Endings
    <3>1. audit'[i] = audit[i] /\ UpTo(Endings', i) = UpTo(Endings, i)
      BY <1>4, <1>7, <1>11, <2>2
    <3>2. \/ \E j \in B : Tells(audit[i], executed[j]) /\ UpTo(Endings, i) - UpTo(B, j) \in 0 .. k
          \/ \E j \in DOMAIN outcomes :
               Tells(audit[i], outcomes[j]) /\ UpTo(Endings, i) - j \in 0 .. Cardinality(B)
      BY <2>2 DEF TraceMatchesAudit, EndingsTold, B, k
    <3>3. CASE \E j \in B : Tells(audit[i], executed[j]) /\ UpTo(Endings, i) - UpTo(B, j) \in 0 .. k
      <4>1. PICK j \in B : Tells(audit[i], executed[j]) /\ UpTo(Endings, i) - UpTo(B, j) \in 0 .. k
        BY <3>3
      <4>2. j \in B' /\ executed'[j] = executed[j] /\ UpTo(B', j) = UpTo(B, j)
        BY <1>5, <1>8, <1>12
      <4> QED BY <3>1, <4>1, <4>2
    <3>4. CASE \E j \in DOMAIN outcomes :
                 Tells(audit[i], outcomes[j]) /\ UpTo(Endings, i) - j \in 0 .. Cardinality(B)
      <4>1. \A d : d \in 0 .. Cardinality(B) => d \in 0 .. Cardinality(B')
        BY <1>12
      <4> QED BY <3>1, <3>4, <4>1
    <3> QED BY <3>2, <3>3, <3>4
  <2> QED BY <1>7, <2>1, <2>2
<1>15. Cardinality(Endings') = Cardinality(B') + k
  BY <1>6, <1>11, <1>12, <1>13
<1>16. EndingsTold'
  BY <1>1, <1>14, <1>15 DEF EndingsTold, B, k
<1>17. HostRuns'
  <2>1. HostRuns /\ \A i \in StepsOf("external") : executed'[i] = executed[i]
    BY <1>5, <1>9 DEF TraceMatchesAudit
  <2> QED BY <1>1, <1>9, <1>10, <2>1 DEF HostRuns
<1>18. OutcomesClassified'
  BY <1>1 DEF TraceMatchesAudit, OutcomesClassified
<1> QED BY <1>16, <1>17, <1>18 DEF TraceMatchesAudit

\* What a reply comes to.
LEMMA RepliesClassified ==
  ASSUME NEW reply, reply.exit \in Int, reply.err \notin {"success", "non_zero_exit"}
  PROVE  /\ CompatCode(reply) = 0 <=> OutcomeKind(reply) = "success"
         /\ CompatCode(reply) >= 0
         /\ RanExternally(reply) <=> OutcomeKind(reply) \in {"success", "non_zero_exit"}
<1>1. CASE reply.err = "none"
  BY <1>1 DEF CompatCode, OutcomeKind, RanExternally, Unsupported, General
<1>2. CASE reply.err # "none"
  BY <1>2 DEF CompatCode, OutcomeKind, RanExternally, Unsupported, General
<1> QED BY <1>1, <1>2

\* An external command is told by its outcome, and by a step if it ran.
LEMMA ExternalTold ==
  ASSUME ProfileInv, WordsInv, IsSeq(audit), TraceMatchesAudit, RunExternalCommand
  PROVE  TraceMatchesAudit'
<1>1. PICK reply \in IF runner THEN Replies ELSE {NoRunner} :
        LET name == Named.name
            args == Tail(pc.args)
            step == [command |-> name, argv |-> <<name>> \o args, namespace |-> "external",
                     target |-> Head(pc.args), kind |-> OutcomeKind(reply), executed |-> RanExternally(reply),
                     code |-> CompatCode(reply), raw |-> EffectiveRawExitCode(reply)]
        IN /\ audit' = audit \o ExternalEvents(name, args, reply)
           /\ outcomes' = Append(outcomes, step)
           /\ executed' = IF RanExternally(reply)
                          THEN Append(executed, [command |-> name, argv |-> step.argv,
                                                 namespace |-> "external", code |-> NoCode])
                          ELSE executed
  BY DEF RunExternalCommand
<1> DEFINE name == Named.name
           args == Tail(pc.args)
           step == [command |-> name, argv |-> <<name>> \o args, namespace |-> "external",
                    target |-> Head(pc.args), kind |-> OutcomeKind(reply), executed |-> RanExternally(reply),
                    code |-> CompatCode(reply), raw |-> EffectiveRawExitCode(reply)]
           ran == [command |-> name, argv |-> step.argv, namespace |-> "external", code |-> NoCode]
           a == Event("start", name, args, 0)
           e == Ending(name, args, CompatCode(reply))
           n == Len(audit)
           x == Len(executed)
           k == Len(outcomes)
           B == StepsOf("builtin")
           H == StepsOf("external")
<1>2. /\ audit' = audit \o <<a, e>> /\ outcomes' = Append(outcomes, step)
      /\ executed' = IF step.executed THEN Append(executed, ran) ELSE executed
  BY <1>1 DEF ExternalEvents
<1>3. /\ step.code = 0 <=> step.kind = "success"
      /\ step.code >= 0
      /\ step.executed <=> step.kind \in {"success", "non_zero_exit"}
  <2>1. reply.exit \in Int /\ reply.err \notin {"success", "non_zero_exit"}
    BY <1>1, RepliesAssumption DEF NoRunner
  <2> QED BY <2>1, RepliesClassified
<1>4. a.phase = "start" /\ e.phase # "start"
  BY Phases
<1>5. Tells(e, step)
  <2>1. pc.args \in Line
    BY DEF RunExternalCommand, WordsInv
  <2>2. args \in Seq(STRING)
    BY <2>1, NotEmpty DEF Line
  <2> HIDE DEF args, name
  <2>3. Tail(<<name>> \o args) = args
    <3>1. PICK S : S = STRING \cup {name}
      OBVIOUS
    <3>2. args \in Seq(S) /\ name \in S
      BY <2>2, <3>1
    <3> QED BY <3>2
  <2>4. e.command = name /\ e.args = args /\ e.code = CompatCode(reply)
    BY Phases
  <2> QED BY <2>3, <2>4 DEF Tells
<1>6. ran.namespace = "external" /\ ran.command = step.command /\ ran.argv = step.argv
  OBVIOUS
<1>7. IsSeq(executed) /\ IsSeq(outcomes)
  BY DEF ProfileInv
<1> HIDE DEF a, e, step, ran
<1>8. /\ n \in Nat /\ DOMAIN audit = 1 .. n /\ DOMAIN audit' = DOMAIN audit \cup {n + 1, n + 2}
      /\ audit'[n + 1] = a /\ audit'[n + 2] = e
      /\ \A i \in DOMAIN audit : audit'[i] = audit[i]
  <2> DEFINE t == Append(audit, a)
  <2>1. audit' = Append(t, e)
    BY <1>2, TwoMore
  <2>2. /\ IsSeq(t) /\ n \in Nat /\ Len(t) = n + 1 /\ DOMAIN audit = 1 .. n /\ DOMAIN t = DOMAIN audit \cup {n + 1}
        /\ t[n + 1] = a /\ \A i \in DOMAIN audit : t[i] = audit[i]
    BY OnePlace
  <2> HIDE DEF t, n
  <2>3. /\ DOMAIN audit' = DOMAIN t \cup {(n + 1) + 1} /\ audit'[(n + 1) + 1] = e
        /\ \A i \in DOMAIN t : audit'[i] = t[i]
    BY <2>1, <2>2, OnePlace
  <2>4. (n + 1) + 1 = n + 2
    BY <2>2
  <2> QED BY <2>2, <2>3, <2>4
<1>9. /\ k \in Nat /\ DOMAIN outcomes = 1 .. k /\ DOMAIN outcomes' = DOMAIN outcomes \cup {k + 1}
      /\ Len(outcomes') = k + 1 /\ k + 1 \notin DOMAIN outcomes /\ outcomes'[k + 1] = step
      /\ \A j \in DOMAIN outcomes : outcomes'[j] = outcomes[j]
  BY <1>2, <1>7, OnePlace
<1>10. /\ x \in Nat /\ DOMAIN executed = 1 .. x
       /\ ~step.executed => executed' = executed
       /\ step.executed => DOMAIN executed' = DOMAIN executed \cup {x + 1} /\ executed'[x + 1] = ran
       /\ \A j \in DOMAIN executed : executed'[j] = executed[j]
  <2>1. x \in Nat /\ DOMAIN executed = 1 .. x
    BY <1>7, Places
  <2>2. CASE step.executed
    <3>1. executed' = Append(executed, ran)
      BY <1>2, <2>2
    <3> QED BY <1>7, <2>1, <2>2, <3>1, OnePlace
  <2>3. CASE ~step.executed
    BY <1>2, <2>1, <2>3
  <2> QED BY <2>2, <2>3
<1> HIDE DEF n, x, k
<1>11. Endings \subseteq 1 .. n /\ Endings' = Endings \cup {n + 2}
  BY <1>4, <1>8 DEF Endings
<1>12. B' = B /\ B \subseteq DOMAIN executed
  <2>1. \A j \in DOMAIN executed' : j \in DOMAIN executed \/ executed'[j].namespace = "external"
    BY <1>6, <1>10
  <2>2. DOMAIN executed \subseteq DOMAIN executed'
    BY <1>10
  <2> QED BY <1>10, <2>1, <2>2 DEF StepsOf
<1>13. H \subseteq 1 .. x /\ H' = IF step.executed THEN H \cup {x + 1} ELSE H
  BY <1>6, <1>10 DEF StepsOf
<1>14. Ran \subseteq 1 .. k /\ Ran' = IF step.executed THEN Ran \cup {k + 1} ELSE Ran
  BY <1>9 DEF Ran
<1>15. /\ Cardinality(Endings) \in Nat /\ Cardinality(Endings') = Cardinality(Endings) + 1
       /\ UpTo(Endings', n + 2) = Cardinality(Endings) + 1
       /\ \A i \in 1 .. n : UpTo(Endings', i) = UpTo(Endings, i)
  <2>1. n + 1 \in Nat /\ (n + 1) + 1 = n + 2 /\ Endings \subseteq 1 .. (n + 1) /\ \A i \in 1 .. n : i \in 1 .. (n + 1)
    BY <1>8, <1>11
  <2>2. /\ Cardinality(Endings) \in Nat /\ Cardinality(Endings \cup {(n + 1) + 1}) = Cardinality(Endings) + 1
        /\ UpTo(Endings \cup {(n + 1) + 1}, (n + 1) + 1) = Cardinality(Endings) + 1
        /\ \A i \in 1 .. (n + 1) : UpTo(Endings \cup {(n + 1) + 1}, i) = UpTo(Endings, i)
    BY <2>1, Counted
  <2> QED BY <1>11, <2>1, <2>2
<1>16. /\ Cardinality(H) \in Nat /\ Cardinality(H \cup {x + 1}) = Cardinality(H) + 1
       /\ UpTo(H \cup {x + 1}, x + 1) = Cardinality(H) + 1
       /\ \A i \in 1 .. x : UpTo(H \cup {x + 1}, i) = UpTo(H, i)
  <2> HIDE DEF H
  <2> QED BY <1>10, <1>13, Counted
<1>17. /\ Cardinality(Ran) \in Nat /\ Cardinality(Ran \cup {k + 1}) = Cardinality(Ran) + 1
       /\ UpTo(Ran \cup {k + 1}, k + 1) = Cardinality(Ran) + 1
       /\ \A i \in 1 .. k : UpTo(Ran \cup {k + 1}, i) = UpTo(Ran, i)
  BY <1>9, <1>14, Counted
<1>18. EndingsTold /\ HostRuns /\ OutcomesClassified
  BY DEF TraceMatchesAudit
<1>19. Cardinality(B) \in Nat /\ \A j : UpTo(B, j) \in Nat
  <2> HIDE DEF B
  <2> QED BY <1>10, <1>12, Counted
<1> HIDE DEF B, H
<1>20. EndingsTold'
  <2>1. Cardinality(Endings) = Cardinality(B) + k
    BY <1>18 DEF EndingsTold, B, k
  <2>2. ASSUME NEW i \in Endings'
        PROVE  \/ \E j \in B' : /\ Tells(audit'[i], executed'[j])
                                /\ UpTo(Endings', i) - UpTo(B', j) \in 0 .. (k + 1)
               \/ \E j \in DOMAIN outcomes' :
                    Tells(audit'[i], outcomes'[j]) /\ UpTo(Endings', i) - j \in 0 .. Cardinality(B')
    <3>1. CASE i = n + 2
      <4>1. Tells(audit'[i], outcomes'[k + 1]) /\ k + 1 \in DOMAIN outcomes'
        BY <1>5, <1>8, <1>9, <3>1
      <4>2. UpTo(Endings', i) - (k + 1) = Cardinality(B)
        BY <1>9, <1>15, <1>19, <2>1, <3>1
      <4>3. Cardinality(B) \in 0 .. Cardinality(B')
        BY <1>12, <1>19
      <4> QED BY <4>1, <4>2, <4>3
    <3>2. CASE i \in Endings
      <4>1. audit'[i] = audit[i] /\ UpTo(Endings', i) = UpTo(Endings, i)
        BY <1>8, <1>11, <1>15, <3>2
      <4>2. \/ \E j \in B : Tells(audit[i], executed[j]) /\ UpTo(Endings, i) - UpTo(B, j) \in 0 .. k
            \/ \E j \in DOMAIN outcomes :
                 Tells(audit[i], outcomes[j]) /\ UpTo(Endings, i) - j \in 0 .. Cardinality(B)
        BY <1>18, <3>2 DEF EndingsTold, B, k
      <4>3. CASE \E j \in B : Tells(audit[i], executed[j]) /\ UpTo(Endings, i) - UpTo(B, j) \in 0 .. k
        <5>1. PICK j \in B : Tells(audit[i], executed[j]) /\ UpTo(Endings, i) - UpTo(B, j) \in 0 .. k
          BY <4>3
        <5>2. j \in B' /\ executed'[j] = executed[j]
          BY <1>10, <1>12
        <5>3. \A d : d \in 0 .. k => d \in 0 .. (k + 1)
          BY <1>9
        <5> QED BY <1>12, <4>1, <5>1, <5>2, <5>3
      <4>4. CASE \E j \in DOMAIN outcomes :
                   Tells(audit[i], outcomes[j]) /\ UpTo(Endings, i) - j \in 0 .. Cardinality(B)
        BY <1>9, <1>12, <4>1, <4>4
      <4> QED BY <4>2, <4>3, <4>4
    <3> QED BY <1>11, <3>1, <3>2
  <2>3. Cardinality(Endings') = Cardinality(B') + (k + 1)
    BY <1>9, <1>12, <1>15, <1>19, <2>1
  <2> QED BY <1>9, <2>2, <2>3 DEF EndingsTold, B
<1>21. HostRuns'
  <2>1. /\ Cardinality(H) = Cardinality(Ran)
        /\ \A i \in H : \E j \in Ran :
             UpTo(H, i) = UpTo(Ran, j) /\ executed[i].command = outcomes[j].command /\ executed[i].argv = outcomes[j].argv
    BY <1>18 DEF HostRuns, H
  <2>2. Cardinality(H') = Cardinality(Ran')
    BY <1>13, <1>14, <1>16, <1>17, <2>1
  <2>3. ASSUME NEW i \in H'
        PROVE  \E j \in Ran' : /\ UpTo(H', i) = UpTo(Ran', j)
                               /\ executed'[i].command = outcomes'[j].command
                               /\ executed'[i].argv = outcomes'[j].argv
    <3>1. CASE i \in H
      <4>1. PICK j \in Ran : /\ UpTo(H, i) = UpTo(Ran, j) /\ executed[i].command = outcomes[j].command
                             /\ executed[i].argv = outcomes[j].argv
        BY <2>1, <3>1
      <4>2. UpTo(H', i) = UpTo(H, i) /\ executed'[i] = executed[i]
        BY <1>10, <1>13, <1>16, <3>1
      <4>3. UpTo(Ran', j) = UpTo(Ran, j) /\ outcomes'[j] = outcomes[j] /\ j \in Ran'
        BY <1>9, <1>14, <1>17
      <4> QED BY <4>1, <4>2, <4>3
    <3>2. CASE i \notin H
      <4>1. step.executed /\ i = x + 1
        BY <1>13, <3>2
      <4>2. executed'[i] = ran /\ outcomes'[k + 1] = step /\ k + 1 \in Ran'
        BY <1>9, <1>10, <1>14, <4>1
      <4>3. UpTo(H', i) = Cardinality(H) + 1 /\ UpTo(Ran', k + 1) = Cardinality(Ran) + 1
        BY <1>13, <1>14, <1>16, <1>17, <4>1
      <4> QED BY <1>6, <2>1, <4>2, <4>3
    <3> QED BY <3>1, <3>2
  <2> QED BY <2>2, <2>3 DEF HostRuns, H
<1>22. OutcomesClassified'
  <2>1. ASSUME NEW i \in DOMAIN outcomes'
        PROVE  /\ outcomes'[i].code = 0 <=> outcomes'[i].kind = "success"
               /\ outcomes'[i].code >= 0
               /\ outcomes'[i].executed <=> outcomes'[i].kind \in {"success", "non_zero_exit"}
    <3>1. CASE i = k + 1
      BY <1>3, <1>9, <3>1
    <3>2. CASE i \in DOMAIN outcomes
      BY <1>9, <1>18, <3>2 DEF OutcomesClassified
    <3> QED BY <1>9, <3>1, <3>2
  <2> QED BY <2>1 DEF OutcomesClassified
<1> QED BY <1>20, <1>21, <1>22 DEF TraceMatchesAudit

\* Nothing is told at the start.
LEMMA InitTrace == Init => TraceMatchesAudit
<1> SUFFICES ASSUME Init PROVE TraceMatchesAudit
  OBVIOUS
<1>1. audit = <<>> /\ executed = <<>> /\ outcomes = <<>>
  BY DEF Init
<1>2. Endings = {} /\ StepsOf("builtin") = {} /\ StepsOf("external") = {} /\ Ran = {}
  BY <1>1 DEF Endings, StepsOf, Ran
<1>3. Cardinality({}) = 0 /\ Len(outcomes) = 0 /\ DOMAIN outcomes = {}
  BY <1>1, FS_EmptySet
<1>4. EndingsTold
  <2>1. Cardinality(Endings) = 0 /\ Cardinality(StepsOf("builtin")) = 0
    BY <1>2, <1>3
  <2>2. Cardinality(Endings) = Cardinality(StepsOf("builtin")) + Len(outcomes)
    BY <1>3, <2>1
  <2>3. \A i \in Endings : FALSE
    BY <1>2
  <2> QED BY <2>2, <2>3 DEF EndingsTold
<1>5. HostRuns
  BY <1>2 DEF HostRuns
<1>6. OutcomesClassified
  BY <1>3 DEF OutcomesClassified
<1> QED BY <1>4, <1>5, <1>6 DEF TraceMatchesAudit

\* Every step keeps them of one story.
LEMMA NextTrace == AuditInv /\ TraceMatchesAudit /\ [Next]_vars => TraceMatchesAudit'
<1> SUFFICES ASSUME AuditInv, TraceMatchesAudit, [Next]_vars PROVE TraceMatchesAudit'
  OBVIOUS
<1>1. ASSUME UNCHANGED <<audit, executed, outcomes>> PROVE TraceMatchesAudit'
  <2>1. /\ Endings' = Endings /\ StepsOf("builtin")' = StepsOf("builtin")
        /\ StepsOf("external")' = StepsOf("external") /\ Ran' = Ran
    BY <1>1 DEF Endings, StepsOf, Ran
  <2>2. EndingsTold'
    BY <1>1, <2>1 DEF TraceMatchesAudit, EndingsTold
  <2>3. HostRuns'
    BY <1>1, <2>1 DEF TraceMatchesAudit, HostRuns
  <2>4. OutcomesClassified'
    BY <1>1 DEF TraceMatchesAudit, OutcomesClassified
  <2> QED BY <2>2, <2>3, <2>4 DEF TraceMatchesAudit
<1>2. CASE LoadRC \/ Begin \/ Enter \/ ExpandCommandAlias \/ Refuse \/ DispatchNext \/ FindGo \/ Cancel \/ UNCHANGED vars
  BY <1>1, <1>2 DEF LoadRC, Begin, Enter, ExpandCommandAlias, Refuse, DispatchNext, FindGo, Cancel, vars
<1>3. CASE StartBuiltin
  <2>1. audit' = Append(audit, Event("start", Named.name, Tail(pc.args), 0)) /\ UNCHANGED <<executed, outcomes>>
    BY <1>3 DEF StartBuiltin
  <2> DEFINE e == Event("start", Named.name, Tail(pc.args), 0)
             n == Len(audit)
  <2>2. e.phase = "start" /\ IsSeq(audit)
    BY Phases DEF AuditInv
  <2>3. audit' = Append(audit, e)
    BY <2>1
  <2> HIDE DEF e
  <2>4. /\ DOMAIN audit' = DOMAIN audit \cup {n + 1} /\ n + 1 \notin DOMAIN audit /\ audit'[n + 1] = e
        /\ \A i \in DOMAIN audit : audit'[i] = audit[i]
    BY <2>2, <2>3, OnePlace
  <2>5. Endings' = Endings /\ \A i \in Endings : audit'[i] = audit[i]
    BY <2>2, <2>4 DEF Endings
  <2>6. /\ StepsOf("builtin")' = StepsOf("builtin")
        /\ StepsOf("external")' = StepsOf("external") /\ Ran' = Ran
    BY <2>1 DEF StepsOf, Ran
  <2>7. EndingsTold'
    BY <2>1, <2>5, <2>6 DEF TraceMatchesAudit, EndingsTold
  <2>8. HostRuns'
    BY <2>1, <2>6 DEF TraceMatchesAudit, HostRuns
  <2>9. OutcomesClassified'
    BY <2>1 DEF TraceMatchesAudit, OutcomesClassified
  <2> QED BY <2>7, <2>8, <2>9 DEF TraceMatchesAudit
<1>4. CASE Finish \/ FindStop
  BY <1>4, EndTold DEF Finish, FindStop, AuditInv
<1>5. CASE RunExternalCommand
  BY <1>5, ExternalTold DEF AuditInv
<1> QED BY <1>2, <1>3, <1>4, <1>5 DEF Next, Step

\* The events of the audit nest, and the audit and the trace of a command line
\* tell one story, whatever path its commands take.
THEOREM AuditHolds == Spec => []AuditFaithful
<1>1. Init => AuditInv /\ TraceMatchesAudit
  BY InitAudit, InitTrace
<1>2. AuditInv /\ TraceMatchesAudit /\ [Next]_vars => (AuditInv /\ TraceMatchesAudit)'
  BY NextAudit, NextTrace
<1>3. AuditInv /\ TraceMatchesAudit => AuditFaithful
  BY DEF AuditInv, AuditFaithful
<1> QED BY <1>1, <1>2, <1>3, PTL DEF Spec

----------------------------------------------------------------------------
(***************************************************************************)
(* Alias expansion is substitution.                                        *)
(***************************************************************************)

\* Substitution with given aliases.
OnceWith(given, args) == IF Head(args) \in DOMAIN given THEN given[Head(args)] \o Tail(args) ELSE args
SubstitutedWith(given, args, n) ==
  LET after[k \in 0 .. n] == IF k = 0 THEN args ELSE OnceWith(given, after[k - 1])
  IN after[n]

\* Those in force.
LEMMA SubstitutedIs ==
  ASSUME NEW args, NEW n
  PROVE  /\ SubstitutedOnce(args) = OnceWith(aliases, args)
         /\ Substituted(args, n) = SubstitutedWith(aliases, args, n)
<1>1. \A a : SubstitutedOnce(a) = OnceWith(aliases, a)
  BY DEF SubstitutedOnce, OnceWith
<1> QED BY <1>1 DEF Substituted, SubstitutedWith, SubstitutedOnce, OnceWith

\* One substitution makes a line of a line; its head depends on the head alone.
LEMMA OnceLine ==
  ASSUME NEW given, \A n \in DOMAIN given : given[n] \in Line, NEW args \in Line
  PROVE  /\ OnceWith(given, args) \in Line
         /\ Head(args) \in DOMAIN given => Head(OnceWith(given, args)) = Head(given[Head(args)])
<1>1. Tail(args) \in Seq(STRING)
  BY NotEmpty DEF Line
<1>2. \A s, t \in Seq(STRING) : s # <<>> => s \o t \in Seq(STRING) /\ s \o t # <<>> /\ Head(s \o t) = Head(s)
  OBVIOUS
<1>3. CASE Head(args) \in DOMAIN given
  <2>1. PICK s \in Line : s = given[Head(args)]
    BY <1>3
  <2>2. OnceWith(given, args) = s \o Tail(args)
    BY <1>3, <2>1 DEF OnceWith
  <2> QED BY <1>1, <1>2, <2>1, <2>2 DEF Line
<1>4. CASE Head(args) \notin DOMAIN given
  BY <1>4 DEF OnceWith
<1> QED BY <1>3, <1>4

\* The substitutions one after the other.
LEMMA SubstitutedStep ==
  ASSUME NEW given, \A n \in DOMAIN given : given[n] \in Line, NEW args \in Line, NEW N \in Nat
  PROVE  /\ SubstitutedWith(given, args, 0) = args
         /\ SubstitutedWith(given, args, N) \in Line
         /\ SubstitutedWith(given, args, N + 1) = OnceWith(given, SubstitutedWith(given, args, N))
<1> DEFINE step == [p \in (1 .. (N + 1)) \X Line |-> OnceWith(given, p[2])]
           IsAfter(n, f) == f = [k \in 0 .. n |-> IF k = 0 THEN args ELSE OnceWith(given, f[k - 1])]
           after(n) == CHOOSE f : IsAfter(n, f)
<1>1. \A n : SubstitutedWith(given, args, n) = after(n)[n]
  BY DEF SubstitutedWith
<1>2. step \in [(1 .. (N + 1)) \X Line -> Line]
  BY OnceLine
<1>3. \A k \in 1 .. (N + 1), a \in Line : step[<<k, a>>] = OnceWith(given, a)
  OBVIOUS
<1> HIDE DEF step
<1>4. PICK f : IsRecursion(Line, args, N + 1, step, f)
  <2>1. N + 1 \in Nat
    OBVIOUS
  <2> QED BY <1>2, <2>1, Recursion
<1>5. \A k \in 0 .. (N + 1) : f[k] \in Line /\ (k # 0 => f[k] = OnceWith(given, f[k - 1]))
  <2>1. \A k \in 0 .. (N + 1) : k = 0 \/ (k \in 1 .. (N + 1) /\ k - 1 \in 0 .. (N + 1))
    OBVIOUS
  <2>2. \A k \in 0 .. (N + 1) : f[k] \in Line
    BY <1>4 DEF IsRecursion
  <2>3. \A k \in 1 .. (N + 1) : f[k] = step[<<k, f[k - 1]>>]
    BY <1>4 DEF IsRecursion
  <2> QED BY <1>3, <2>1, <2>2, <2>3
<1>6. ASSUME NEW n \in 0 .. (N + 1) PROVE after(n)[n] = f[n]
  <2> DEFINE g == [k \in 0 .. n |-> f[k]]
  <2>1. ASSUME NEW k \in 0 .. n, k # 0 PROVE f[k] = OnceWith(given, g[k - 1])
    <3>1. k \in 0 .. (N + 1) /\ k - 1 \in 0 .. n
      BY <2>1
    <3> QED BY <1>5, <2>1, <3>1
  <2>2. 0 \in 0 .. n /\ f[0] = args
    BY <1>4 DEF IsRecursion
  <2>3. IsAfter(n, g)
    BY <2>1, <2>2
  <2> HIDE DEF g
  <2>4. IsAfter(n, after(n))
    BY <2>3
  <2>5. PICK h : h = after(n)
    OBVIOUS
  <2>6. h[0] = args /\ \A k \in 1 .. n : h[k] = OnceWith(given, h[k - 1])
    <3>1. \A k \in 1 .. n : k \in 0 .. n /\ k # 0
      OBVIOUS
    <3> QED BY <2>2, <2>4, <2>5, <3>1
  <2>7. \A k \in 1 .. n : k \in 1 .. (N + 1)
    OBVIOUS
  <2>8. \A k \in 0 .. n : h[k] = f[k]
    <3>1. \A k \in 1 .. n : h[k - 1] \in Line => h[k] = step[<<k, h[k - 1]>>]
      BY <1>3, <2>6, <2>7
    <3> QED BY <1>4, <2>6, <3>1 DEF IsRecursion
  <2>9. n \in 0 .. n
    OBVIOUS
  <2> QED BY <2>5, <2>8, <2>9
<1>7. 0 \in 0 .. (N + 1) /\ N \in 0 .. (N + 1) /\ N + 1 \in 0 .. (N + 1) /\ N + 1 # 0 /\ (N + 1) - 1 = N
  OBVIOUS
<1>8. f[0] = args /\ f[N] \in Line /\ f[N + 1] = OnceWith(given, f[N])
  BY <1>4, <1>5, <1>7 DEF IsRecursion
<1> HIDE DEF after
<1> QED BY <1>1, <1>6, <1>7, <1>8

\* The arguments are what was typed after as many substitutions as there are names
\* seen; the names seen are the heads met on the way, all aliases.
HeadAfter(given, args, n) == Head(SubstitutedWith(given, args, n))
ExpansionInv ==
  pc.kind = "alias" =>
    \E k \in 0 .. MaxAliasDepth :
      /\ IsFiniteSet(pc.seen) /\ Cardinality(pc.seen) = k
      /\ pc.args = SubstitutedWith(aliases, pc.typed, k)
      /\ pc.seen = {HeadAfter(aliases, pc.typed, m) : m \in 0 .. (k - 1)}
      /\ pc.seen \subseteq DOMAIN aliases

\* One pass of the loop.
LEMMA ExpansionGoesOn ==
  ASSUME WordsInv, ExpansionInv, ExpandCommandAlias, pc'.kind = "alias"
  PROVE  ExpansionInv'
<1> DEFINE name == Head(pc.args)
           typed == pc.typed
<1>1. pc.kind = "alias" /\ typed \in Line /\ pc.args \in Line /\ aliases' = aliases
      /\ \A n \in DOMAIN aliases : aliases[n] \in Line
  BY DEF ExpandCommandAlias, WordsInv
<1>2. PICK k \in 0 .. MaxAliasDepth :
        /\ IsFiniteSet(pc.seen) /\ Cardinality(pc.seen) = k
        /\ pc.args = SubstitutedWith(aliases, typed, k)
        /\ pc.seen = {HeadAfter(aliases, typed, m) : m \in 0 .. (k - 1)}
        /\ pc.seen \subseteq DOMAIN aliases
  BY <1>1 DEF ExpansionInv
<1>3. /\ Cardinality(pc.seen) # MaxAliasDepth /\ name \in DOMAIN aliases /\ name \notin pc.seen
      /\ pc' = [kind |-> "alias", typed |-> typed, args |-> Substitute(pc.args), seen |-> pc.seen \cup {name}]
  BY DEF ExpandCommandAlias, Return
<1>4. k \in Nat /\ k + 1 \in 0 .. MaxAliasDepth /\ (k + 1) - 1 = k
  BY <1>2, <1>3, DepthAssumption
<1>5. SubstitutedWith(aliases, typed, k + 1) = OnceWith(aliases, pc.args)
  <2> HIDE DEF typed
  <2>1. SubstitutedWith(aliases, typed, k + 1) = OnceWith(aliases, SubstitutedWith(aliases, typed, k))
    BY <1>1, <1>4, SubstitutedStep
  <2> QED BY <1>2, <2>1
<1>6. OnceWith(aliases, pc.args) = Substitute(pc.args)
  BY <1>3 DEF OnceWith, Substitute
<1>7. IsFiniteSet(pc.seen \cup {name}) /\ Cardinality(pc.seen \cup {name}) = k + 1
  BY <1>2, <1>3, FS_AddElement
<1>8. pc.seen \cup {name} = {HeadAfter(aliases, typed, m) : m \in 0 .. k}
  <2>1. name = HeadAfter(aliases, typed, k)
    BY <1>2 DEF HeadAfter
  <2>2. 0 .. k = (0 .. (k - 1)) \cup {k}
    BY <1>4
  <2> QED BY <1>2, <2>1, <2>2
<1> HIDE DEF name, typed
<1>9. /\ IsFiniteSet(pc'.seen) /\ Cardinality(pc'.seen) = k + 1
      /\ pc'.args = SubstitutedWith(aliases', pc'.typed, k + 1)
      /\ pc'.seen = {HeadAfter(aliases', pc'.typed, m) : m \in 0 .. ((k + 1) - 1)}
      /\ pc'.seen \subseteq DOMAIN aliases'
  BY <1>1, <1>2, <1>3, <1>4, <1>5, <1>6, <1>7, <1>8
<1> QED BY <1>4, <1>9 DEF ExpansionInv

\* Every step keeps it.
LEMMA NextExpansion == WordsInv /\ ExpansionInv /\ [Next]_vars => ExpansionInv'
<1> SUFFICES ASSUME WordsInv, ExpansionInv, [Next]_vars, pc'.kind = "alias" PROVE ExpansionInv'
  BY DEF ExpansionInv
<1>1. CASE ExpandCommandAlias
  BY <1>1, ExpansionGoesOn
<1>2. CASE Enter
  <2>1. pc' = [kind |-> "alias", typed |-> pc.args, args |-> pc.args, seen |-> {}] /\ pc.kind = "call"
    BY <1>2 DEF Enter, Return
  <2>2. pc.args \in Line /\ aliases' = aliases /\ \A n \in DOMAIN aliases : aliases[n] \in Line
    BY <1>2, <2>1 DEF Enter, WordsInv
  <2>3. pc.args = SubstitutedWith(aliases, pc.args, 0)
    BY <2>2, SubstitutedStep
  <2>4. IsFiniteSet({}) /\ Cardinality({}) = 0 /\ 0 .. (0 - 1) = {} /\ 0 \in 0 .. MaxAliasDepth
    BY FS_EmptySet, DepthAssumption
  <2>5. {} = {HeadAfter(aliases', pc'.typed, m) : m \in 0 .. (0 - 1)}
    BY <2>4
  <2>6. /\ IsFiniteSet(pc'.seen) /\ Cardinality(pc'.seen) = 0
        /\ pc'.args = SubstitutedWith(aliases', pc'.typed, 0)
        /\ pc'.seen = {HeadAfter(aliases', pc'.typed, m) : m \in 0 .. (0 - 1)}
        /\ pc'.seen \subseteq DOMAIN aliases'
    BY <2>1, <2>2, <2>3, <2>4, <2>5
  <2> QED BY <2>4, <2>6 DEF ExpansionInv
<1>3. CASE Cancel \/ UNCHANGED vars
  <2>1. pc' = pc /\ aliases' = aliases
    BY <1>3 DEF Cancel, vars
  <2> QED BY <2>1 DEF ExpansionInv
<1>4. ASSUME pc'.kind \in {"boot", "call", "body", "back", "done"} PROVE FALSE
  BY <1>4
<1>5. CASE LoadRC \/ Begin \/ Refuse \/ StartBuiltin \/ DispatchNext \/ FindGo \/ RunExternalCommand
  <2>1. CASE LoadRC
    BY <1>4, <2>1 DEF LoadRC
  <2>2. CASE Begin \/ DispatchNext
    BY <1>4, <2>2 DEF Begin, DispatchNext, Call
  <2>3. CASE Refuse
    BY <1>4, <2>3 DEF Refuse, Return
  <2>4. CASE RunExternalCommand
    BY <1>4, <2>4 DEF RunExternalCommand, Return
  <2>5. CASE StartBuiltin
    BY <1>4, <2>5 DEF StartBuiltin
  <2>6. CASE FindGo
    BY <1>4, <2>6 DEF FindGo
  <2> QED BY <1>5, <2>1, <2>2, <2>3, <2>4, <2>5, <2>6
<1>6. CASE Finish \/ FindStop
  <2>1. PICK out : EndBuiltin(out)
    BY <1>6 DEF Finish, FindStop
  <2> QED BY <1>4, <2>1 DEF EndBuiltin, Return
<1> QED BY <1>1, <1>2, <1>3, <1>5, <1>6 DEF Next, Step

\* A loop never leaves the names it has seen.
LEMMA LoopsStay ==
  ASSUME NEW given, \A n \in DOMAIN given : given[n] \in Line, NEW args \in Line, NEW k \in Nat,
         NEW seen, seen = {HeadAfter(given, args, m) : m \in 0 .. (k - 1)}, seen \subseteq DOMAIN given,
         HeadAfter(given, args, k) \in seen
  PROVE  \A m \in Nat : HeadAfter(given, args, m) \in seen
<1> DEFINE S == {m \in Nat : HeadAfter(given, args, m) \in seen}
<1>1. 0 \in S
  <2>1. 0 .. (k - 1) # {}
    OBVIOUS
  <2>2. 0 \in 0 .. (k - 1)
    BY <2>1
  <2> QED BY <2>2
<1>2. ASSUME NEW m \in Nat, m \in S PROVE m + 1 \in S
  <2>1. PICK j \in 0 .. (k - 1) : HeadAfter(given, args, m) = HeadAfter(given, args, j)
    BY <1>2
  <2>2. j \in Nat /\ j + 1 \in Nat /\ (j + 1 \in 0 .. (k - 1) \/ j + 1 = k)
    OBVIOUS
  <2>3. ASSUME NEW i \in Nat, HeadAfter(given, args, i) \in DOMAIN given
        PROVE  HeadAfter(given, args, i + 1) = Head(given[HeadAfter(given, args, i)])
    BY <2>3, SubstitutedStep, OnceLine DEF HeadAfter
  <2>4. HeadAfter(given, args, m + 1) = HeadAfter(given, args, j + 1)
    BY <1>2, <2>1, <2>2, <2>3
  <2>5. HeadAfter(given, args, j + 1) \in seen
    BY <2>2
  <2> QED BY <2>4, <2>5
<1> HIDE DEF S
<1>3. \A m \in Nat : m \in S
  BY <1>1, <1>2, AllNumbers
<1> QED BY <1>3 DEF S

\* Where the loop ends.
LEMMA ExpansionEnds ==
  ASSUME WordsInv, ExpansionInv, ExpandCommandAlias, pc'.kind # "alias"
  PROVE  LET enough == {n \in 0 .. (MaxAliasDepth - 1) :
                          Head(Substituted(pc.typed, n)) \notin DOMAIN aliases}
         IN /\ pc'.kind = "run" <=> enough # {}
            /\ pc'.kind = "run" => pc'.args = Substituted(pc.typed, Min(enough))
<1> DEFINE name == Head(pc.args)
           typed == pc.typed
           enough == {n \in 0 .. (MaxAliasDepth - 1) : Head(Substituted(typed, n)) \notin DOMAIN aliases}
<1>1. pc.kind = "alias" /\ typed \in Line /\ pc.args \in Line
      /\ \A n \in DOMAIN aliases : aliases[n] \in Line
  BY DEF ExpandCommandAlias, WordsInv
<1>2. PICK k \in 0 .. MaxAliasDepth :
        /\ IsFiniteSet(pc.seen) /\ Cardinality(pc.seen) = k
        /\ pc.args = SubstitutedWith(aliases, typed, k)
        /\ pc.seen = {HeadAfter(aliases, typed, m) : m \in 0 .. (k - 1)}
        /\ pc.seen \subseteq DOMAIN aliases
  BY <1>1 DEF ExpansionInv
<1>3. \A n : Head(Substituted(typed, n)) = HeadAfter(aliases, typed, n)
  BY SubstitutedIs DEF HeadAfter
<1>4. name = HeadAfter(aliases, typed, k) /\ k \in Nat
  BY <1>2, DepthAssumption DEF HeadAfter
<1>5. \A m \in 0 .. (k - 1) : HeadAfter(aliases, typed, m) \in DOMAIN aliases
  BY <1>2
<1>6. CASE k = MaxAliasDepth \/ (name \in DOMAIN aliases /\ name \in pc.seen)
  <2>1. pc'.kind \in {"done", "back"}
    BY <1>2, <1>6 DEF ExpandCommandAlias, Return
  <2>2. CASE k = MaxAliasDepth
    <3>1. enough = {}
      BY <1>3, <1>5, <2>2
    <3> QED BY <2>1, <3>1
  <2>3. CASE name \in pc.seen
    <3>1. \A m \in Nat : HeadAfter(aliases, typed, m) \in pc.seen
      <4> HIDE DEF typed, name
      <4> QED BY <1>1, <1>2, <1>4, <2>3, LoopsStay
    <3>2. enough = {}
      BY <1>2, <1>3, <3>1
    <3> QED BY <2>1, <3>2
  <2> QED BY <1>6, <2>2, <2>3
<1>7. CASE k # MaxAliasDepth /\ ~(name \in DOMAIN aliases /\ name \in pc.seen)
  <2>1. name \notin DOMAIN aliases /\ pc' = [kind |-> "run", typed |-> pc.typed, args |-> pc.args]
    BY <1>2, <1>7 DEF ExpandCommandAlias
  <2>2. k \in 0 .. (MaxAliasDepth - 1)
    BY <1>2, <1>7, DepthAssumption
  <2>3. k \in enough
    BY <1>3, <1>4, <2>1, <2>2
  <2>4. \A n \in enough : n \in Nat /\ k <= n
    <3>1. ASSUME NEW n \in enough, ~(k <= n) PROVE FALSE
      <4>1. n \in 0 .. (k - 1)
        BY <1>4, <3>1, DepthAssumption
      <4> QED BY <1>3, <1>5, <4>1
    <3>2. \A n \in enough : n \in Nat
      BY DepthAssumption
    <3> QED BY <3>1, <3>2
  <2>5. Min(enough) = k
    <3> HIDE DEF enough
    <3>1. k \in enough /\ \A n \in enough : k <= n
      BY <2>3, <2>4
    <3>2. \A x \in enough : (\A n \in enough : x <= n) => x = k
      BY <1>4, <2>3, <2>4
    <3> QED BY <3>1, <3>2 DEF Min
  <2>6. Substituted(typed, k) = pc.args
    BY <1>2, SubstitutedIs
  <2> QED BY <2>1, <2>3, <2>5, <2>6
<1> QED BY <1>2, <1>6, <1>7

\* Expansion is substitution at the head, repeated until the head is no alias, and
\* is refused exactly when that takes the limit or more: aliases that call each
\* other and those that call themselves come to the same.
THEOREM ExpansionSubstitutes == Spec => AliasIsSubstitution
<1>1. Init => AuditInv /\ ExpansionInv
  <2>1. Init => pc.kind = "boot"
    BY DEF Init
  <2> QED BY <2>1, InitAudit DEF ExpansionInv
<1>2. AuditInv /\ ExpansionInv /\ [Next]_vars => (AuditInv /\ ExpansionInv)'
  BY NextAudit, NextExpansion DEF AuditInv
<1>3. AuditInv /\ ExpansionInv /\ [Next]_vars
        => [pc.kind = "alias" /\ pc' # pc /\ pc'.kind # "alias" =>
              LET enough == {n \in 0 .. (MaxAliasDepth - 1) :
                               Head(Substituted(pc.typed, n)) \notin DOMAIN aliases}
              IN /\ pc'.kind = "run" <=> enough # {}
                 /\ pc'.kind = "run" => pc'.args = Substituted(pc.typed, Min(enough))]_vars
  <2> SUFFICES ASSUME AuditInv, ExpansionInv, Next, pc.kind = "alias", pc' # pc, pc'.kind # "alias"
               PROVE  LET enough == {n \in 0 .. (MaxAliasDepth - 1) :
                                       Head(Substituted(pc.typed, n)) \notin DOMAIN aliases}
                      IN /\ pc'.kind = "run" <=> enough # {}
                         /\ pc'.kind = "run" => pc'.args = Substituted(pc.typed, Min(enough))
    OBVIOUS
  <2>1. ExpandCommandAlias
    BY DEF Next, Step, LoadRC, Begin, Enter, Refuse, StartBuiltin, Finish, DispatchNext, FindStop, FindGo,
           RunExternalCommand, Cancel
  <2> QED BY <2>1, ExpansionEnds DEF AuditInv
<1> QED BY <1>1, <1>2, <1>3, PTL DEF Spec, AliasIsSubstitution
----------------------------------------------------------------------------
(***************************************************************************)
(* find -exec.                                                             *)
(***************************************************************************)

\* The events of an audit, how deep they are, and the endings at a depth after a
\* place.
StartsIn(a) == {i \in DOMAIN a : a[i].phase = "start"}
EndingsIn(a) == {i \in DOMAIN a : a[i].phase # "start"}
DepthIn(a, i) == UpTo(StartsIn(a), i) - UpTo(EndingsIn(a), i)
HeightIn(a) == Cardinality(StartsIn(a)) - Cardinality(EndingsIn(a))
UnderIn(a, s, p) == {k \in EndingsIn(a) : s < k /\ DepthIn(a, k) = p}
WithinIn(a, s, p) ==
  /\ s \in StartsIn(a) /\ DepthIn(a, s) = p
  /\ \A k \in DOMAIN a : s < k => DepthIn(a, k) >= p /\ (DepthIn(a, k) = p => k \in EndingsIn(a))

\* What is asked of a find that has ended, of an audit.
ChildrenIn(a, i, j) == {k \in EndingsIn(a) : i < k /\ k < j /\ DepthIn(a, k) = DepthIn(a, i)}
OpenerIn(a, j) == Max({i \in StartsIn(a) : i < j /\ DepthIn(a, i) = DepthIn(a, j) + 1})
RunsAllIn(a, body, children) ==
  /\ Cardinality(children) = Len(body.todo)
  /\ \A k \in children :
       /\ a[k].phase = "end"
       /\ IsSuffix(Tail(body.todo[UpTo(children, k)]), a[k].args)
FindRanIn(a, j) ==
  /\ OpenerIn(a, j) \in DOMAIN a
  /\ \A body \in RunFind(a[j].args) : RunsAllIn(a, body, ChildrenIn(a, OpenerIn(a, j), j))

EndsWith(args, words) ==
  /\ Len(words) <= Len(args)
  /\ \A m \in 1 .. Len(words) : args[(Len(args) - Len(words)) + m] = words[m]

\* What a find has left is the end of what it had to do.
Left(frame) ==
  \A body \in RunFind(Tail(frame.args)) :
    /\ frame.body.plus = body.plus
    /\ Len(frame.body.todo) <= Len(body.todo)
    /\ \A m \in 1 .. Len(frame.body.todo) :
         frame.body.todo[m] = body.todo[(Len(body.todo) - Len(frame.body.todo)) + m]

\* The commands it has dispatched have ended well, in their order, and x of them
\* are those it has not heard of.
Progress(a, frame, s, p, x) ==
  \A body \in RunFind(Tail(frame.args)) :
    /\ Cardinality(UnderIn(a, s, p)) = (Len(body.todo) - Len(frame.body.todo)) + x
    /\ \A k \in UnderIn(a, s, p) :
         /\ a[k].phase = "end"
         /\ EndsWith(a[k].args, Tail(body.todo[UpTo(UnderIn(a, s, p), k)]))

\* The p-th builtin that runs has its start in the audit, and so have its commands;
\* one that has failed ends it.
Failed == 2
Tracked(a, frame, p, x) ==
  \E s \in DOMAIN a :
    /\ WithinIn(a, s, p)
    /\ frame.name = "find" => Left(frame) /\ (x # Failed => Progress(a, frame, s, p, x))
Heard(p) ==
  IF pc.kind = "back" /\ p = Len(stack) THEN IF pc.out.code = 0 THEN 1 ELSE Failed ELSE 0

\* A command that was dispatched ends with the words it was dispatched with.
Dispatched ==
  /\ \A p \in DOMAIN stack : p - 1 \in DOMAIN stack =>
       EndsWith(Tail(stack[p].args), Tail(Head(stack[p - 1].body.todo)))
  /\ pc.kind \in {"call", "alias", "run"} /\ stack # <<>> =>
       EndsWith(Tail(pc.args), Tail(Head(Last(stack).body.todo)))

FindsRan ==
  \A j \in DOMAIN audit :
    audit[j].phase = "end" /\ audit[j].command = "find" =>
      FindRanIn(audit, j) \/ \E i \in Ran : Tells(audit[j], outcomes[i])

FindInv ==
  /\ pc.kind = "boot" => stack = <<>>
  /\ HeightIn(audit) = Len(stack) /\ \A i \in DOMAIN audit : audit[i].args \in Seq(STRING)
  /\ \A p \in DOMAIN stack : Tracked(audit, stack[p], p, Heard(p))
  /\ Dispatched
  /\ FindsRan

\* The counts of a set of places.
LEMMA CountsAre ==
  ASSUME NEW n \in Nat, NEW S, S \subseteq 1 .. n
  PROVE  /\ Cardinality(S) \in Nat /\ UpTo(S, n) = Cardinality(S)
         /\ \A i : UpTo(S, i) \in Nat
         /\ \A k \in S : UpTo(S, k) \in 1 .. Cardinality(S)
<1>1. /\ Cardinality(S) \in Nat
      /\ \A i : UpTo(S, i) \in Nat
  BY Counted
<1>2. {j \in S : j <= n} = S
  <2>1. \A j \in S : j <= n
    OBVIOUS
  <2> QED BY <2>1
<1>3. IsFiniteSet(1 .. n)
  BY FS_Interval
<1>4. IsFiniteSet(S)
  BY <1>3, FS_Subset
<1>5. ASSUME NEW k \in S PROVE UpTo(S, k) \in 1 .. Cardinality(S)
  <2> DEFINE T == {j \in S : j <= k}
  <2>0. k \in 1 .. n
    OBVIOUS
  <2>1. k \in T /\ T \subseteq S
    OBVIOUS
  <2> HIDE DEF T
  <2>2. IsFiniteSet(T) /\ Cardinality(T) <= Cardinality(S)
    BY <1>4, <2>1, FS_Subset
  <2>3. Cardinality(T) \in Nat
    BY <2>2, FS_CardinalityType
  <2>4. Cardinality(T) # 0
    BY <2>1, <2>2, FS_EmptySet
  <2>5. UpTo(S, k) = Cardinality(T)
    BY DEF UpTo, T
  <2> QED BY <1>1, <2>2, <2>3, <2>4, <2>5
<1> QED BY <1>1, <1>2, <1>5 DEF UpTo

\* The sets of places of an audit.
LEMMA PlacesOf ==
  ASSUME NEW a, IsSeq(a)
  PROVE  /\ Len(a) \in Nat /\ DOMAIN a = 1 .. Len(a)
         /\ StartsIn(a) \subseteq 1 .. Len(a) /\ EndingsIn(a) \subseteq 1 .. Len(a)
         /\ HeightIn(a) \in Int /\ \A i : DepthIn(a, i) \in Int
<1>1. Len(a) \in Nat /\ DOMAIN a = 1 .. Len(a)
  BY Places
<1>2. StartsIn(a) \subseteq 1 .. Len(a) /\ EndingsIn(a) \subseteq 1 .. Len(a)
  BY <1>1 DEF StartsIn, EndingsIn
<1>3. /\ Cardinality(StartsIn(a)) \in Nat /\ Cardinality(EndingsIn(a)) \in Nat
      /\ \A i : UpTo(StartsIn(a), i) \in Nat
      /\ \A i : UpTo(EndingsIn(a), i) \in Nat
  BY <1>1, <1>2, Counted
<1>4. HeightIn(a) \in Int
  BY <1>3 DEF HeightIn
<1>5. \A i : DepthIn(a, i) \in Int
  BY <1>3 DEF DepthIn
<1> QED BY <1>1, <1>2, <1>4, <1>5

\* One more event lies one deeper, or one less deep, than those before it.
LEMMA OneDepth ==
  ASSUME NEW a, NEW e, IsSeq(a)
  PROVE  /\ \A i \in DOMAIN a : DepthIn(Append(a, e), i) = DepthIn(a, i)
         /\ DepthIn(Append(a, e), Len(a) + 1) = HeightIn(Append(a, e))
         /\ HeightIn(Append(a, e)) = HeightIn(a) + (IF e.phase = "start" THEN 1 ELSE -1)
         /\ StartsIn(Append(a, e)) = StartsIn(a) \cup (IF e.phase = "start" THEN {Len(a) + 1} ELSE {})
         /\ EndingsIn(Append(a, e)) = EndingsIn(a) \cup (IF e.phase = "start" THEN {} ELSE {Len(a) + 1})
<1> DEFINE b == Append(a, e)
           n == Len(a)
<1>1. /\ n \in Nat /\ n + 1 \in Nat /\ DOMAIN a = 1 .. n /\ DOMAIN b = DOMAIN a \cup {n + 1}
      /\ n + 1 \notin DOMAIN a /\ b[n + 1] = e /\ Len(b) = n + 1 /\ IsSeq(b)
      /\ \A i \in DOMAIN a : b[i] = a[i]
  BY OnePlace
<1> HIDE DEF b
<1>2. /\ StartsIn(b) = StartsIn(a) \cup (IF e.phase = "start" THEN {n + 1} ELSE {})
      /\ EndingsIn(b) = EndingsIn(a) \cup (IF e.phase = "start" THEN {} ELSE {n + 1})
  BY <1>1 DEF StartsIn, EndingsIn
<1>3. StartsIn(a) \subseteq 1 .. n /\ EndingsIn(a) \subseteq 1 .. n
  BY PlacesOf
<1>4. /\ StartsIn(b) \subseteq 1 .. (n + 1) /\ EndingsIn(b) \subseteq 1 .. (n + 1)
  BY <1>1, PlacesOf
<1> HIDE DEF n
<1>5. /\ UpTo(StartsIn(b), n + 1) = Cardinality(StartsIn(b))
      /\ UpTo(EndingsIn(b), n + 1) = Cardinality(EndingsIn(b))
  BY <1>1, <1>4, CountsAre
<1>6. DepthIn(b, n + 1) = HeightIn(b)
  BY <1>5 DEF DepthIn, HeightIn
<1>7. ASSUME NEW S, S \subseteq 1 .. n
      PROVE  /\ Cardinality(S) \in Nat /\ Cardinality(S \cup {n + 1}) = Cardinality(S) + 1
             /\ \A i \in 1 .. n : UpTo(S \cup {n + 1}, i) = UpTo(S, i)
  BY <1>1, <1>7, Counted
<1>8. /\ Cardinality(StartsIn(a)) \in Nat /\ Cardinality(StartsIn(a) \cup {n + 1}) = Cardinality(StartsIn(a)) + 1
      /\ \A i \in 1 .. n : UpTo(StartsIn(a) \cup {n + 1}, i) = UpTo(StartsIn(a), i)
  BY <1>3, <1>7
<1>9. /\ Cardinality(EndingsIn(a)) \in Nat /\ Cardinality(EndingsIn(a) \cup {n + 1}) = Cardinality(EndingsIn(a)) + 1
      /\ \A i \in 1 .. n : UpTo(EndingsIn(a) \cup {n + 1}, i) = UpTo(EndingsIn(a), i)
  BY <1>3, <1>7
<1>10. \A S : S \cup {} = S
  OBVIOUS
<1>11. CASE e.phase = "start"
  <2>1. StartsIn(b) = StartsIn(a) \cup {n + 1} /\ EndingsIn(b) = EndingsIn(a)
    BY <1>2, <1>10, <1>11
  <2>2. HeightIn(b) = HeightIn(a) + 1
    BY <1>8, <1>9, <2>1 DEF HeightIn
  <2>3. \A i \in DOMAIN a : DepthIn(b, i) = DepthIn(a, i)
    BY <1>1, <1>8, <2>1 DEF DepthIn
  <2> QED BY <1>2, <1>6, <1>11, <2>2, <2>3 DEF b, n
<1>12. CASE e.phase # "start"
  <2>1. EndingsIn(b) = EndingsIn(a) \cup {n + 1} /\ StartsIn(b) = StartsIn(a)
    BY <1>2, <1>10, <1>12
  <2>2. HeightIn(b) = HeightIn(a) - 1
    BY <1>8, <1>9, <2>1 DEF HeightIn
  <2>3. \A i \in DOMAIN a : DepthIn(b, i) = DepthIn(a, i)
    BY <1>1, <1>9, <2>1 DEF DepthIn
  <2>4. HeightIn(b) = HeightIn(a) + (-1)
    BY <2>2, PlacesOf
  <2> QED BY <1>2, <1>6, <1>12, <2>3, <2>4 DEF b, n
<1> QED BY <1>11, <1>12

\* It leaves a builtin above it where it was.
LEMMA WithinStays ==
  ASSUME NEW a, NEW e, IsSeq(a), NEW s, NEW p \in Nat, WithinIn(a, s, p),
         HeightIn(Append(a, e)) > p \/ (HeightIn(Append(a, e)) = p /\ e.phase # "start")
  PROVE  /\ s \in DOMAIN a /\ WithinIn(Append(a, e), s, p)
         /\ UnderIn(Append(a, e), s, p)
              = UnderIn(a, s, p) \cup (IF HeightIn(Append(a, e)) = p THEN {Len(a) + 1} ELSE {})
<1> DEFINE b == Append(a, e)
           n == Len(a)
<1>1. /\ n \in Nat /\ n + 1 \in Nat /\ DOMAIN a = 1 .. n /\ DOMAIN b = DOMAIN a \cup {n + 1}
      /\ n + 1 \notin DOMAIN a /\ b[n + 1] = e /\ IsSeq(b)
      /\ \A i \in DOMAIN a : b[i] = a[i]
  BY OnePlace
<1>2. /\ \A i \in DOMAIN a : DepthIn(b, i) = DepthIn(a, i)
      /\ DepthIn(b, n + 1) = HeightIn(b)
      /\ StartsIn(b) = StartsIn(a) \cup (IF e.phase = "start" THEN {n + 1} ELSE {})
      /\ EndingsIn(b) = EndingsIn(a) \cup (IF e.phase = "start" THEN {} ELSE {n + 1})
  BY OneDepth
<1>3. HeightIn(b) \in Int /\ (HeightIn(b) > p \/ (HeightIn(b) = p /\ e.phase # "start"))
  BY <1>1, PlacesOf
<1> HIDE DEF b, n
<1>4. s \in DOMAIN a /\ s < n + 1
  <2>1. s \in DOMAIN a
    BY DEF WithinIn, StartsIn
  <2> QED BY <1>1, <2>1
<1>5. WithinIn(b, s, p)
  <2>1. s \in StartsIn(b) /\ DepthIn(b, s) = p
    BY <1>2, <1>4 DEF WithinIn
  <2>2. ASSUME NEW k \in DOMAIN b, s < k
        PROVE  DepthIn(b, k) >= p /\ (DepthIn(b, k) = p => k \in EndingsIn(b))
    <3>1. CASE k \in DOMAIN a
      BY <1>2, <2>2, <3>1 DEF WithinIn
    <3>2. CASE k = n + 1
      <4>1. DepthIn(b, k) = HeightIn(b)
        BY <1>2, <3>2
      <4>2. HeightIn(b) >= p /\ (HeightIn(b) = p => e.phase # "start")
        BY <1>3
      <4> QED BY <1>2, <3>2, <4>1, <4>2
    <3> QED BY <1>1, <3>1, <3>2
  <2> QED BY <2>1, <2>2 DEF WithinIn
<1>6. UnderIn(b, s, p) = UnderIn(a, s, p) \cup (IF HeightIn(b) = p THEN {n + 1} ELSE {})
  <2>1. \A k \in EndingsIn(a) : k \in DOMAIN a
    BY DEF EndingsIn
  <2>2. \A k \in EndingsIn(b) : k \in EndingsIn(a) \/ (k = n + 1 /\ e.phase # "start")
    BY <1>2
  <2>3. e.phase # "start" => n + 1 \in EndingsIn(b)
    BY <1>2
  <2>4. ASSUME NEW k PROVE k \in UnderIn(b, s, p) <=>
                             k \in UnderIn(a, s, p) \/ (HeightIn(b) = p /\ k = n + 1)
    <3>1. CASE k \in EndingsIn(a)
      <4>1. k \in DOMAIN a /\ k \in EndingsIn(b) /\ k # n + 1
        BY <1>1, <1>2, <2>1, <3>1
      <4> QED BY <1>2, <3>1, <4>1 DEF UnderIn
    <3>2. CASE k = n + 1
      <4>1. k \notin EndingsIn(a)
        BY <1>1, <2>1, <3>2
      <4>2. k \in UnderIn(b, s, p) <=> e.phase # "start" /\ HeightIn(b) = p
        BY <1>2, <1>4, <2>2, <2>3, <3>2, <4>1 DEF UnderIn
      <4> QED BY <1>3, <3>2, <4>1, <4>2 DEF UnderIn
    <3>3. CASE k \notin EndingsIn(a) /\ k # n + 1
      BY <2>2, <3>3 DEF UnderIn
    <3> QED BY <3>1, <3>2, <3>3
  <2> QED BY <2>4
<1> QED BY <1>4, <1>5, <1>6 DEF b, n

\* What a find has to do is fixed by its arguments.
LEMMA OneBody ==
  ASSUME NEW args \in Seq(STRING)
  PROVE  \A b, c \in RunFind(args) :
           /\ b = c
           /\ b.todo \in Seq(Line)
           /\ b.plus => Len(b.todo) = 1
<1>1. PICK r : r = ReadFindArgs(args)
  OBVIOUS
<1>2. \A o, q \in ParseFindArgs(args) : o = q
  <2> DEFINE Whole(o) == [o EXCEPT !.failed = @ \/ o.mode # "any" \/ o.or,
                                   !.target = IF @ = "" THEN "/" ELSE @,
                                   !.patterns = IF @ = {} THEN {"*"} ELSE @]
  <2>1. ParseFindArgs(args) = {Whole(o) : o \in {r}}
    BY <1>1 DEF ParseFindArgs
  <2> HIDE DEF Whole
  <2> QED BY <2>1
<1>3. \A b, c \in RunFind(args) : b = c
  BY <1>2, Zenon DEF RunFind
<1>4. ASSUME NEW b \in RunFind(args) PROVE b.todo \in Seq(Line) /\ (b.plus => Len(b.todo) = 1)
  <2>1. b.todo \in Seq(Line)
    BY BodyOfWords DEF Line
  <2>2. PICK o : b = RunFindOn(o)
    BY DEF RunFind
  <2>3. b.plus => \E todo : b.todo = <<todo>>
    BY <2>2 DEF RunFindOn, Body
  <2> QED BY <2>1, <2>3
<1> QED BY <1>3, <1>4

\* The end of a sequence, as the community modules say it.
LEMMA SuffixIs ==
  ASSUME NEW args \in Seq(STRING), NEW words \in Seq(STRING), EndsWith(args, words)
  PROVE  IsSuffix(words, args)
<1> DEFINE r == Reverse(words)
           t == Reverse(args)
           n == Len(words)
           N == Len(args)
<1>1. n \in Nat /\ N \in Nat /\ n <= N
  BY DEF EndsWith
<1>2. \A i \in 1 .. n : (n - i) + 1 \in 1 .. n
  BY <1>1
<1>3. \A i \in 1 .. N : (N - i) + 1 \in 1 .. N
  BY <1>1
<1>4. r = [i \in 1 .. n |-> words[(n - i) + 1]] /\ t = [i \in 1 .. N |-> args[(N - i) + 1]]
  BY DEF Reverse
<1>5. /\ r \in Seq(STRING) /\ Len(r) = n /\ \A i \in 1 .. n : r[i] = words[(n - i) + 1]
  <2>1. r \in [1 .. n -> STRING]
    BY <1>2, <1>4
  <2> QED BY <1>1, <1>4, <2>1
<1>6. /\ t \in Seq(STRING) /\ Len(t) = N /\ \A i \in 1 .. N : t[i] = args[(N - i) + 1]
  <2>1. t \in [1 .. N -> STRING]
    BY <1>3, <1>4
  <2> QED BY <1>1, <1>4, <2>1
<1>7. \A i \in 1 .. n : r[i] = t[i]
  <2> SUFFICES ASSUME NEW i \in 1 .. n PROVE r[i] = t[i]
    OBVIOUS
  <2>1. words[(n - i) + 1] = args[(N - n) + ((n - i) + 1)]
    BY <1>2 DEF EndsWith
  <2>2. (N - n) + ((n - i) + 1) = (N - i) + 1 /\ i \in 1 .. N
    BY <1>1
  <2> QED BY <1>5, <1>6, <2>1, <2>2
<1> HIDE DEF r, t, n, N
<1>8. SubSeq(r, 1, n) = SubSeq(t, 1, n)
  <2>1. /\ SubSeq(r, 1, n) \in Seq(STRING) /\ Len(SubSeq(r, 1, n)) = n
        /\ \A i \in 1 .. n : SubSeq(r, 1, n)[i] = r[i]
    BY <1>1, <1>5
  <2>2. /\ SubSeq(t, 1, n) \in Seq(STRING) /\ Len(SubSeq(t, 1, n)) = n
        /\ \A i \in 1 .. n : SubSeq(t, 1, n)[i] = t[i]
    BY <1>1, <1>6
  <2>3. DOMAIN SubSeq(r, 1, n) = 1 .. n
    BY <2>1
  <2>4. \A i \in DOMAIN SubSeq(r, 1, n) : SubSeq(r, 1, n)[i] = SubSeq(t, 1, n)[i]
    BY <1>7, <2>1, <2>2, <2>3
  <2>5. IsSeq(SubSeq(r, 1, n)) /\ IsSeq(SubSeq(t, 1, n))
    BY <2>1, <2>2 DEF IsSeq
  <2>6. Len(SubSeq(r, 1, n)) = Len(SubSeq(t, 1, n))
    BY <2>1, <2>2
  <2> QED BY <2>4, <2>5, <2>6, SameSeq
<1> QED BY <1>1, <1>5, <1>6, <1>8 DEF IsSuffix, IsPrefix, r, t

\* A builtin above an event is tracked past it.
LEMMA TrackedStays ==
  ASSUME NEW a, NEW e, IsSeq(a), NEW p \in Nat, NEW x, NEW frame, Tracked(a, frame, p, x),
         HeightIn(Append(a, e)) > p
  PROVE  Tracked(Append(a, e), frame, p, x)
<1> DEFINE b == Append(a, e)
<1>1. PICK s \in DOMAIN a :
        /\ WithinIn(a, s, p)
        /\ frame.name = "find" => Left(frame) /\ (x # Failed => Progress(a, frame, s, p, x))
  BY DEF Tracked
<1>2. IsSeq(b) /\ HeightIn(b) \in Int /\ HeightIn(b) # p
  <2>1. IsSeq(b)
    BY OnePlace
  <2> HIDE DEF b
  <2>2. HeightIn(b) \in Int
    BY <2>1, PlacesOf
  <2>3. HeightIn(b) > p
    BY DEF b
  <2> QED BY <2>1, <2>2, <2>3
<1>3. /\ WithinIn(b, s, p)
      /\ UnderIn(b, s, p) = UnderIn(a, s, p) \cup (IF HeightIn(b) = p THEN {Len(a) + 1} ELSE {})
  BY <1>1, WithinStays
<1>4. s \in DOMAIN b /\ \A k \in DOMAIN a : b[k] = a[k]
  BY OnePlace
<1>5. UnderIn(a, s, p) \subseteq DOMAIN a
  BY DEF UnderIn, EndingsIn
<1> HIDE DEF b
<1>6. UnderIn(b, s, p) = UnderIn(a, s, p)
  BY <1>2, <1>3
<1>7. Progress(a, frame, s, p, x) => Progress(b, frame, s, p, x)
  BY <1>4, <1>5, <1>6 DEF Progress
<1>8. Tracked(b, frame, p, x)
  BY <1>1, <1>3, <1>4, <1>7 DEF Tracked
<1> QED BY <1>8 DEF b

\* The end of a command that a builtin has dispatched.
LEMMA ChildTracked ==
  ASSUME NEW a, NEW e, IsSeq(a), NEW p \in Nat, NEW frame, Framed(frame), frame.body.todo # <<>>,
         Tracked(a, frame, p, 0), HeightIn(Append(a, e)) = p, e.phase # "start",
         e.phase = "end" => EndsWith(e.args, Tail(Head(frame.body.todo)))
  PROVE  Tracked(Append(a, e), frame, p, IF e.phase = "end" THEN 1 ELSE Failed)
<1> DEFINE b == Append(a, e)
           n == Len(a)
           x == IF e.phase = "end" THEN 1 ELSE Failed
<1>1. PICK s \in DOMAIN a :
        /\ WithinIn(a, s, p)
        /\ frame.name = "find" => Left(frame) /\ (0 # Failed => Progress(a, frame, s, p, 0))
  BY DEF Tracked
<1>2. /\ WithinIn(b, s, p)
      /\ UnderIn(b, s, p) = UnderIn(a, s, p) \cup (IF HeightIn(b) = p THEN {n + 1} ELSE {})
  BY <1>1, WithinStays
<1>3. /\ n \in Nat /\ DOMAIN a = 1 .. n /\ s \in DOMAIN b /\ b[n + 1] = e
      /\ \A k \in DOMAIN a : b[k] = a[k]
  BY OnePlace
<1>4. UnderIn(a, s, p) \subseteq 1 .. n
  BY <1>3 DEF UnderIn, EndingsIn
<1>5. UnderIn(b, s, p) = UnderIn(a, s, p) \cup {n + 1}
  BY <1>2
<1> HIDE DEF b, n
<1>6. ASSUME e.phase = "end", Left(frame), Progress(a, frame, s, p, 0), NEW body \in RunFind(Tail(frame.args))
      PROVE  /\ Cardinality(UnderIn(b, s, p)) = (Len(body.todo) - Len(frame.body.todo)) + 1
             /\ \A k \in UnderIn(b, s, p) :
                  /\ b[k].phase = "end"
                  /\ EndsWith(b[k].args, Tail(body.todo[UpTo(UnderIn(b, s, p), k)]))
  <2> DEFINE U == UnderIn(a, s, p)
             done == Len(body.todo) - Len(frame.body.todo)
  <2>1. /\ Cardinality(U) = done + 0
        /\ \A k \in U : a[k].phase = "end" /\ EndsWith(a[k].args, Tail(body.todo[UpTo(U, k)]))
    BY <1>6 DEF Progress
  <2>2. Tail(frame.args) \in Seq(STRING)
    BY NotEmpty DEF Framed, Line
  <2>3. body.todo \in Seq(Line) /\ frame.body.todo \in Seq(Line)
    BY <2>2, OneBody DEF Framed
  <2>4. Len(body.todo) \in Nat /\ Len(frame.body.todo) \in Nat \ {0} /\ Head(frame.body.todo) = frame.body.todo[1]
    BY <2>3
  <2>5. frame.body.todo[1] = body.todo[done + 1]
    <3>1. \A m \in 1 .. Len(frame.body.todo) :
            frame.body.todo[m] = body.todo[(Len(body.todo) - Len(frame.body.todo)) + m]
      BY <1>6 DEF Left
    <3>2. 1 \in 1 .. Len(frame.body.todo)
      BY <2>4
    <3> QED BY <3>1, <3>2
  <2> HIDE DEF U, done
  <2>6. U \subseteq 1 .. n
    BY <1>4 DEF U
  <2>7. /\ Cardinality(U) \in Nat /\ Cardinality(U \cup {n + 1}) = Cardinality(U) + 1
        /\ UpTo(U \cup {n + 1}, n + 1) = Cardinality(U) + 1
        /\ \A i \in 1 .. n : UpTo(U \cup {n + 1}, i) = UpTo(U, i)
    <3>1. n \in Nat
      BY <1>3
    <3> QED BY <2>6, <3>1, Counted
  <2>8. done \in Int /\ Cardinality(U) = done
    BY <2>1, <2>4 DEF done
  <2>9. Cardinality(U \cup {n + 1}) = done + 1
    BY <2>7, <2>8
  <2>10. ASSUME NEW k \in U \cup {n + 1}
         PROVE  b[k].phase = "end" /\ EndsWith(b[k].args, Tail(body.todo[UpTo(U \cup {n + 1}, k)]))
    <3>1. CASE k \in U
      <4>1. k \in 1 .. n /\ b[k] = a[k]
        BY <1>3, <2>6, <3>1
      <4> QED BY <2>1, <2>7, <3>1, <4>1
    <3>2. CASE k = n + 1
      <4>1. b[k] = e /\ UpTo(U \cup {n + 1}, k) = done + 1
        BY <1>3, <2>7, <2>8, <3>2
      <4>2. EndsWith(e.args, Tail(body.todo[done + 1]))
        BY <1>6, <2>4, <2>5
      <4> QED BY <1>6, <4>1, <4>2
    <3> QED BY <3>1, <3>2
  <2> QED BY <1>5, <2>9, <2>10 DEF U, done
<1>7. ASSUME frame.name = "find", x # Failed PROVE Progress(b, frame, s, p, x)
  <2>1. e.phase = "end" /\ x = 1
    BY <1>7
  <2>2. Left(frame) /\ Progress(a, frame, s, p, 0)
    BY <1>1, <1>7 DEF Failed
  <2>3. Progress(b, frame, s, p, 1)
    BY <1>6, <2>1, <2>2 DEF Progress
  <2> QED BY <2>1, <2>3
<1>8. Tracked(b, frame, p, x)
  <2> HIDE DEF x
  <2> QED BY <1>1, <1>2, <1>3, <1>7 DEF Tracked
<1> QED BY <1>8 DEF b

\* A find that ends well has all its commands behind it.
LEMMA FindEnds ==
  ASSUME NEW a, NEW e, IsSeq(a), \A i \in DOMAIN a : a[i].args \in Seq(STRING),
         NEW p \in Nat, HeightIn(a) = p, e.phase # "start",
         NEW frame, Framed(frame), frame.name = "find", e.args = Tail(frame.args),
         NEW x \in {0, 1}, Tracked(a, frame, p, x),
         \/ x = 0 /\ frame.body.todo = <<>>
         \/ x = 1 /\ frame.body.todo # <<>> /\ frame.body.plus
  PROVE  FindRanIn(Append(a, e), Len(a) + 1)
<1> DEFINE b == Append(a, e)
           n == Len(a)
           O == {i \in StartsIn(b) : i < n + 1 /\ DepthIn(b, i) = DepthIn(b, n + 1) + 1}
<1>1. PICK s \in DOMAIN a : WithinIn(a, s, p) /\ Left(frame) /\ Progress(a, frame, s, p, x)
  <2>1. x # Failed
    BY DEF Failed
  <2> QED BY <2>1 DEF Tracked
<1>2. /\ n \in Nat /\ n + 1 \in Nat /\ DOMAIN a = 1 .. n /\ DOMAIN b = DOMAIN a \cup {n + 1}
      /\ n + 1 \notin DOMAIN a /\ b[n + 1] = e
      /\ \A i \in DOMAIN a : b[i] = a[i]
  BY OnePlace
<1>3. /\ \A i \in DOMAIN a : DepthIn(b, i) = DepthIn(a, i)
      /\ DepthIn(b, n + 1) = p - 1
      /\ StartsIn(b) = StartsIn(a)
      /\ EndingsIn(b) = EndingsIn(a) \cup {n + 1}
  <2>1. /\ \A i \in DOMAIN a : DepthIn(b, i) = DepthIn(a, i)
        /\ DepthIn(b, n + 1) = HeightIn(b)
        /\ HeightIn(b) = HeightIn(a) + (IF e.phase = "start" THEN 1 ELSE -1)
        /\ StartsIn(b) = StartsIn(a) \cup (IF e.phase = "start" THEN {n + 1} ELSE {})
        /\ EndingsIn(b) = EndingsIn(a) \cup (IF e.phase = "start" THEN {} ELSE {n + 1})
    BY OneDepth
  <2> HIDE DEF b, n
  <2>2. HeightIn(b) = p - 1
    BY <2>1
  <2> QED BY <2>1, <2>2
<1>4. StartsIn(a) \subseteq DOMAIN a /\ EndingsIn(a) \subseteq DOMAIN a
  BY DEF StartsIn, EndingsIn
<1> HIDE DEF b, n
<1>5. OpenerIn(b, n + 1) = s
  <2>1. s \in StartsIn(a) /\ DepthIn(a, s) = p /\ s \in 1 .. n
    BY <1>1, <1>2 DEF WithinIn
  <2>2. (p - 1) + 1 = p
    OBVIOUS
  <2>3. s \in O
    BY <1>2, <1>3, <2>1, <2>2
  <2>4. ASSUME NEW i \in O PROVE i \in Nat /\ i <= s
    <3>1. i \in StartsIn(a) /\ i \in 1 .. n /\ DepthIn(a, i) = p
      BY <1>2, <1>3, <1>4, <2>2
    <3>2. i \notin EndingsIn(a)
      BY <3>1 DEF StartsIn, EndingsIn
    <3>3. ~(s < i)
      BY <1>1, <1>2, <3>1, <3>2 DEF WithinIn
    <3> QED BY <2>1, <3>1, <3>3
  <2> HIDE DEF O
  <2>5. s \in Nat /\ s \in O /\ \A i \in O : i \in Nat /\ s >= i
    BY <2>1, <2>3, <2>4
  <2>6. Max(O) = s
    <3>1. \A y \in O : (\A i \in O : y >= i) => y = s
      BY <2>5
    <3> QED BY <2>5, <3>1 DEF Max
  <2> QED BY <2>6 DEF OpenerIn, O
<1>6. ChildrenIn(b, s, n + 1) = UnderIn(a, s, p)
  <2>1. DepthIn(b, s) = p
    BY <1>1, <1>3 DEF WithinIn
  <2>2. \A k \in EndingsIn(a) : k < n + 1 /\ DepthIn(b, k) = DepthIn(a, k)
    BY <1>2, <1>3, <1>4
  <2>3. ~(n + 1 < n + 1)
    BY <1>2
  <2> QED BY <1>3, <2>1, <2>2, <2>3 DEF ChildrenIn, UnderIn
<1>7. ASSUME NEW body \in RunFind(Tail(frame.args)) PROVE RunsAllIn(b, body, UnderIn(a, s, p))
  <2> DEFINE U == UnderIn(a, s, p)
  <2>1. /\ Cardinality(U) = (Len(body.todo) - Len(frame.body.todo)) + x
        /\ \A k \in U : a[k].phase = "end" /\ EndsWith(a[k].args, Tail(body.todo[UpTo(U, k)]))
    BY <1>1 DEF Progress
  <2>2. Tail(frame.args) \in Seq(STRING)
    BY NotEmpty DEF Framed, Line
  <2>3. /\ body.todo \in Seq(Line) /\ frame.body.todo \in Seq(Line)
        /\ body.plus => Len(body.todo) = 1
    BY <2>2, OneBody DEF Framed
  <2>4. Len(body.todo) \in Nat /\ Len(frame.body.todo) \in Nat
        /\ (frame.body.todo # <<>> => Len(frame.body.todo) # 0)
        /\ (frame.body.todo = <<>> => Len(frame.body.todo) = 0)
    BY <2>3
  <2>5. Len(frame.body.todo) = x
    <3>1. CASE x = 0 /\ frame.body.todo = <<>>
      BY <2>4, <3>1
    <3>2. CASE x = 1 /\ frame.body.todo # <<>> /\ frame.body.plus
      <4>1. Len(body.todo) = 1 /\ Len(frame.body.todo) <= Len(body.todo)
        BY <1>1, <2>3, <3>2 DEF Left
      <4>2. Len(frame.body.todo) \in Nat /\ Len(frame.body.todo) # 0 /\ x = 1
        BY <2>4, <3>2
      <4>3. \A m \in Nat : m # 0 /\ m <= 1 => m = 1
        OBVIOUS
      <4> QED BY <4>1, <4>2, <4>3
    <3> QED BY <3>1, <3>2
  <2>6. Cardinality(U) = Len(body.todo)
    BY <2>1, <2>4, <2>5
  <2>7. U \subseteq DOMAIN a /\ U \subseteq 1 .. n
    BY <1>2, <1>4 DEF UnderIn
  <2> HIDE DEF U
  <2>8. ASSUME NEW k \in U PROVE b[k].phase = "end" /\ IsSuffix(Tail(body.todo[UpTo(U, k)]), b[k].args)
    <3>1. UpTo(U, k) \in 1 .. Cardinality(U)
      BY <1>2, <2>7, CountsAre
    <3>2. body.todo[UpTo(U, k)] \in Line
      BY <2>3, <2>6, <3>1
    <3>3. Tail(body.todo[UpTo(U, k)]) \in Seq(STRING)
      BY <3>2, NotEmpty DEF Line
    <3>4. b[k] = a[k] /\ a[k].args \in Seq(STRING)
      BY <1>2, <2>7
    <3> QED BY <2>1, <3>3, <3>4, SuffixIs
  <2> QED BY <2>6, <2>8 DEF RunsAllIn, U
<1>8. FindRanIn(b, n + 1)
  <2>1. b[n + 1].args = Tail(frame.args)
    BY <1>2
  <2> QED BY <1>2, <1>5, <1>6, <1>7, <2>1 DEF FindRanIn
<1> QED BY <1>8 DEF b, n

\* What was asked of a find that has ended stays answered.
LEMMA FindRanStays ==
  ASSUME NEW a, NEW e, IsSeq(a), NEW j \in DOMAIN a, FindRanIn(a, j)
  PROVE  FindRanIn(Append(a, e), j)
<1> DEFINE b == Append(a, e)
           n == Len(a)
           i == OpenerIn(a, j)
<1>1. /\ n \in Nat /\ n + 1 \in Nat /\ DOMAIN a = 1 .. n /\ DOMAIN b = DOMAIN a \cup {n + 1}
      /\ \A k \in DOMAIN a : b[k] = a[k]
  BY OnePlace
<1>2. /\ \A k \in DOMAIN a : DepthIn(b, k) = DepthIn(a, k)
      /\ StartsIn(b) = StartsIn(a) \cup (IF e.phase = "start" THEN {n + 1} ELSE {})
      /\ EndingsIn(b) = EndingsIn(a) \cup (IF e.phase = "start" THEN {} ELSE {n + 1})
  BY OneDepth
<1>3. StartsIn(a) \subseteq DOMAIN a /\ EndingsIn(a) \subseteq DOMAIN a
  BY DEF StartsIn, EndingsIn
<1> HIDE DEF b, n
<1>4. ~(n + 1 < j) /\ j \in Nat
  BY <1>1
<1>5. OpenerIn(b, j) = i
  <2>1. {k \in StartsIn(b) : k < j /\ DepthIn(b, k) = DepthIn(b, j) + 1}
          = {k \in StartsIn(a) : k < j /\ DepthIn(a, k) = DepthIn(a, j) + 1}
    BY <1>2, <1>3, <1>4
  <2> QED BY <2>1 DEF OpenerIn
<1>6. i \in DOMAIN a
  BY DEF FindRanIn
<1> HIDE DEF i
<1>7. ChildrenIn(b, i, j) = ChildrenIn(a, i, j)
  BY <1>2, <1>3, <1>4, <1>6 DEF ChildrenIn
<1>8. ChildrenIn(a, i, j) \subseteq DOMAIN a
  BY <1>3 DEF ChildrenIn
<1>9. ASSUME NEW body \in RunFind(b[j].args) PROVE RunsAllIn(b, body, ChildrenIn(b, i, j))
  <2>1. RunsAllIn(a, body, ChildrenIn(a, i, j))
    BY <1>1 DEF FindRanIn, i
  <2> QED BY <1>1, <1>7, <1>8, <2>1 DEF RunsAllIn
<1>10. FindRanIn(b, j)
  BY <1>1, <1>5, <1>6, <1>9 DEF FindRanIn
<1> QED BY <1>10 DEF b

\* Nothing is known of a command that has failed.
LEMMA TrackedFailed ==
  ASSUME NEW a, NEW frame, NEW p, NEW x, Tracked(a, frame, p, x)
  PROVE  Tracked(a, frame, p, Failed)
  BY DEF Tracked

\* A find goes on when one of its commands has ended well.
LEMMA TrackedGoes ==
  ASSUME NEW a, NEW p, NEW frame, Framed(frame), frame.body.todo # <<>>, Tracked(a, frame, p, 1),
         NEW out
  PROVE  Tracked(a, FindGoesOn(frame, out), p, 0)
<1>1. PICK next : next = FindGoesOn(frame, out)
  OBVIOUS
<1>2. /\ next.name = frame.name /\ next.args = frame.args
      /\ next.body.todo = Tail(frame.body.todo) /\ next.body.plus = frame.body.plus
  BY <1>1 DEF FindGoesOn, Framed
<1>3. PICK s \in DOMAIN a :
        /\ WithinIn(a, s, p)
        /\ frame.name = "find" => Left(frame) /\ (1 # Failed => Progress(a, frame, s, p, 1))
  BY DEF Tracked
<1>4. Tail(frame.args) \in Seq(STRING) /\ frame.body.todo \in Seq(Line)
  BY NotEmpty DEF Framed, Line
<1>5. PICK left : left = Len(frame.body.todo)
  OBVIOUS
<1>6. /\ left \in Nat \ {0} /\ Len(next.body.todo) = left - 1
      /\ \A m \in 1 .. (left - 1) : next.body.todo[m] = frame.body.todo[m + 1]
  BY <1>2, <1>4, <1>5
<1>7. ASSUME Left(frame), NEW body \in RunFind(Tail(next.args))
      PROVE  /\ next.body.plus = body.plus
             /\ Len(next.body.todo) <= Len(body.todo)
             /\ \A m \in 1 .. Len(next.body.todo) :
                  next.body.todo[m] = body.todo[(Len(body.todo) - Len(next.body.todo)) + m]
  <2>1. body \in RunFind(Tail(frame.args)) /\ body.todo \in Seq(Line)
    BY <1>2, <1>4, <1>7, OneBody
  <2>2. PICK all : all = Len(body.todo)
    OBVIOUS
  <2>3. all \in Nat
    BY <2>1, <2>2
  <2>4. /\ frame.body.plus = body.plus /\ left <= all
        /\ \A m \in 1 .. left : frame.body.todo[m] = body.todo[(all - left) + m]
    BY <1>5, <1>7, <2>1, <2>2 DEF Left
  <2>5. ASSUME NEW m \in 1 .. (left - 1) PROVE next.body.todo[m] = body.todo[(all - (left - 1)) + m]
    <3>1. m + 1 \in 1 .. left /\ (all - left) + (m + 1) = (all - (left - 1)) + m
      BY <1>6, <2>3
    <3>2. frame.body.todo[m + 1] = body.todo[(all - left) + (m + 1)]
      BY <2>4, <3>1
    <3> QED BY <1>6, <3>1, <3>2
  <2>6. left - 1 <= all
    BY <1>6, <2>3, <2>4
  <2> QED BY <1>2, <1>6, <2>2, <2>4, <2>5, <2>6
<1>8. ASSUME Progress(a, frame, s, p, 1) PROVE Progress(a, next, s, p, 0)
  <2> SUFFICES ASSUME NEW body \in RunFind(Tail(next.args))
               PROVE  /\ Cardinality(UnderIn(a, s, p)) = (Len(body.todo) - Len(next.body.todo)) + 0
                      /\ \A k \in UnderIn(a, s, p) :
                           /\ a[k].phase = "end"
                           /\ EndsWith(a[k].args, Tail(body.todo[UpTo(UnderIn(a, s, p), k)]))
    BY DEF Progress
  <2>1. body \in RunFind(Tail(frame.args)) /\ body.todo \in Seq(Line)
    BY <1>2, <1>4, OneBody
  <2>2. Len(body.todo) \in Nat
    BY <2>1
  <2>3. /\ Cardinality(UnderIn(a, s, p)) = (Len(body.todo) - left) + 1
        /\ \A k \in UnderIn(a, s, p) :
             /\ a[k].phase = "end"
             /\ EndsWith(a[k].args, Tail(body.todo[UpTo(UnderIn(a, s, p), k)]))
    BY <1>5, <1>8, <2>1 DEF Progress
  <2>4. (Len(body.todo) - left) + 1 = (Len(body.todo) - (left - 1)) + 0
    BY <1>6, <2>2
  <2> QED BY <1>6, <2>3, <2>4
<1>9. Left(frame) => Left(next)
  BY <1>7 DEF Left
<1>10. frame.name = "find" => Left(next) /\ Progress(a, next, s, p, 0)
  BY <1>3, <1>8, <1>9 DEF Failed
<1>11. Tracked(a, next, p, 0)
  BY <1>2, <1>3, <1>10 DEF Tracked
<1> QED BY <1>1, <1>11

\* A builtin that starts has everything before it.
LEMMA StartTracked ==
  ASSUME NEW a, NEW e, IsSeq(a), e.phase = "start", NEW frame, Framed(frame),
         frame.name = "find" => frame.body \in RunFind(Tail(frame.args))
  PROVE  Tracked(Append(a, e), frame, HeightIn(Append(a, e)), 0)
<1> DEFINE b == Append(a, e)
           n == Len(a)
           p == HeightIn(b)
<1>1. n \in Nat /\ DOMAIN a = 1 .. n /\ DOMAIN b = DOMAIN a \cup {n + 1}
  BY OnePlace
<1>2. n + 1 \in StartsIn(b) /\ DepthIn(b, n + 1) = p
  BY OneDepth
<1> HIDE DEF b, n
<1>3. \A k \in DOMAIN b : ~(n + 1 < k)
  BY <1>1
<1>4. WithinIn(b, n + 1, p)
  BY <1>2, <1>3 DEF WithinIn
<1>5. UnderIn(b, n + 1, p) = {}
  BY <1>3 DEF UnderIn, EndingsIn
<1>6. ASSUME frame.name = "find" PROVE Left(frame) /\ Progress(b, frame, n + 1, p, 0)
  <2>1. Tail(frame.args) \in Seq(STRING)
    BY NotEmpty DEF Framed, Line
  <2>2. ASSUME NEW body \in RunFind(Tail(frame.args)) PROVE body = frame.body /\ body.todo \in Seq(Line)
    BY <1>6, <2>1, OneBody
  <2>3. Len(frame.body.todo) \in Nat
    BY DEF Framed
  <2>4. Left(frame)
    <3>1. \A m \in 1 .. Len(frame.body.todo) : (Len(frame.body.todo) - Len(frame.body.todo)) + m = m
      BY <2>3
    <3>2. Len(frame.body.todo) <= Len(frame.body.todo)
      BY <2>3
    <3> QED BY <2>2, <3>1, <3>2 DEF Left
  <2>5. Cardinality({}) = (Len(frame.body.todo) - Len(frame.body.todo)) + 0
    BY <2>3, FS_EmptySet
  <2>6. Progress(b, frame, n + 1, p, 0)
    BY <1>5, <2>2, <2>5 DEF Progress
  <2> QED BY <2>4, <2>6
<1>7. n + 1 \in DOMAIN b
  BY <1>1
<1>8. Tracked(b, frame, p, 0)
  BY <1>4, <1>6, <1>7 DEF Tracked
<1> QED BY <1>8 DEF b

\* A line ends with itself, and goes on doing so when something is put before it.
LEMMA EndsItself ==
  ASSUME NEW args \in Seq(STRING)
  PROVE  EndsWith(args, args)
<1>1. Len(args) \in Nat
  OBVIOUS
<1>2. \A m \in 1 .. Len(args) : (Len(args) - Len(args)) + m = m
  BY <1>1
<1> QED BY <1>1, <1>2 DEF EndsWith

LEMMA EndsLonger ==
  ASSUME NEW alias \in Line, NEW args \in Line, NEW words \in Seq(STRING), EndsWith(Tail(args), words)
  PROVE  EndsWith(Tail(alias \o Tail(args)), words)
<1>1. PICK t \in Seq(STRING) : t = Tail(args)
  BY NotEmpty DEF Line
<1>2. PICK n \in Nat : n = Len(alias) - 1
  BY NotEmpty DEF Line
<1>3. PICK u : u = Tail(alias \o t)
  OBVIOUS
<1>4. /\ Len(u) = n + Len(t) /\ Len(t) \in Nat /\ Len(words) \in Nat
      /\ \A i \in 1 .. Len(t) : u[n + i] = t[i]
  <2>1. alias \in Seq(STRING) /\ Len(alias) = n + 1
    BY <1>2 DEF Line
  <2>2. PICK w : w = alias \o t
    OBVIOUS
  <2>3. /\ w \in Seq(STRING) /\ Len(w) = (n + 1) + Len(t)
        /\ \A i \in 1 .. Len(t) : w[(n + 1) + i] = t[i]
    <3>1. /\ w \in Seq(STRING) /\ Len(w) = Len(alias) + Len(t)
          /\ \A i \in 1 .. Len(alias) + Len(t) :
               w[i] = IF i <= Len(alias) THEN alias[i] ELSE t[i - Len(alias)]
      BY <2>1, <2>2, ConcatProperties
    <3>2. ASSUME NEW i \in 1 .. Len(t) PROVE w[Len(alias) + i] = t[i]
      <4>1. Len(alias) + i \in 1 .. (Len(alias) + Len(t)) /\ ~(Len(alias) + i <= Len(alias))
            /\ (Len(alias) + i) - Len(alias) = i
        BY <2>1
      <4> QED BY <3>1, <4>1
    <3> QED BY <2>1, <3>1, <3>2
  <2>4. Len(w) \in Nat /\ Len(w) # 0 /\ w # <<>>
    BY <2>3
  <2>5. Len(u) = Len(w) - 1 /\ \A i \in 1 .. (Len(w) - 1) : u[i] = w[i + 1]
    BY <1>3, <2>2, <2>3, <2>4
  <2>6. ASSUME NEW i \in 1 .. Len(t) PROVE u[n + i] = t[i]
    <3>1. n + i \in 1 .. (Len(w) - 1) /\ (n + i) + 1 = (n + 1) + i
      BY <2>3
    <3> QED BY <2>3, <2>5, <3>1
  <2> QED BY <2>3, <2>5, <2>6
<1>5. Len(words) <= Len(t) /\ \A m \in 1 .. Len(words) : t[(Len(t) - Len(words)) + m] = words[m]
  BY <1>1 DEF EndsWith
<1>6. ASSUME NEW m \in 1 .. Len(words) PROVE u[(Len(u) - Len(words)) + m] = words[m]
  <2>1. PICK i : i = (Len(t) - Len(words)) + m
    OBVIOUS
  <2>2. i \in 1 .. Len(t) /\ (Len(u) - Len(words)) + m = n + i
    BY <1>4, <1>5, <2>1
  <2> QED BY <1>4, <1>5, <2>1, <2>2
<1>7. Len(words) <= Len(u)
  BY <1>4, <1>5
<1>8. EndsWith(u, words)
  BY <1>6, <1>7 DEF EndsWith
<1> QED BY <1>1, <1>3, <1>8

\* The properties of an audit, in its terms.
LEMMA InItsTerms ==
  /\ Starts = StartsIn(audit) /\ Endings = EndingsIn(audit)
  /\ \A i : Depth(i) = DepthIn(audit, i)
  /\ \A j : Opener(j) = OpenerIn(audit, j)
  /\ \A i, j : Children(i, j) = ChildrenIn(audit, i, j)
  /\ \A body, children : RunsAll(body, children) <=> RunsAllIn(audit, body, children)
<1>1. Starts = StartsIn(audit) /\ Endings = EndingsIn(audit)
  BY DEF Starts, Endings, StartsIn, EndingsIn
<1>2. \A i : Depth(i) = DepthIn(audit, i)
  BY <1>1 DEF Depth, DepthIn
<1>3. \A j : Opener(j) = OpenerIn(audit, j)
  BY <1>1, <1>2 DEF Opener, OpenerIn
<1>4. \A i, j : Children(i, j) = ChildrenIn(audit, i, j)
  BY <1>1, <1>2 DEF Children, ChildrenIn
<1> QED BY <1>1, <1>2, <1>3, <1>4 DEF RunsAll, RunsAllIn

\* Nothing runs at the beginning.
LEMMA InitFind == Init => FindInv
<1> SUFFICES ASSUME Init PROVE FindInv
  OBVIOUS
<1>1. pc.kind = "boot" /\ stack = <<>> /\ audit = <<>>
  BY DEF Init
<1>2. StartsIn(audit) = {} /\ EndingsIn(audit) = {} /\ DOMAIN audit = {} /\ DOMAIN stack = {}
  BY <1>1 DEF StartsIn, EndingsIn
<1>3. Cardinality({}) = 0 /\ Len(stack) = 0
  BY <1>1, FS_EmptySet
<1>4. HeightIn(audit) = Len(stack)
  BY <1>2, <1>3 DEF HeightIn
<1> QED BY <1>1, <1>2, <1>4 DEF FindInv, Dispatched, FindsRan

\* A step that leaves the stack and the audit alone, and does not answer a builtin
\* unless with a failure.
LEMMA FindStays ==
  ASSUME FindInv, UNCHANGED <<stack, audit, outcomes>>,
         pc' = pc \/ (pc.kind # "back" /\ pc'.kind # "boot" /\ (pc'.kind = "back" => pc'.out.code # 0)),
         Dispatched'
  PROVE  FindInv'
<1>1. \A p \in DOMAIN stack : Tracked(audit, stack[p], p, Heard(p))'
  <2> SUFFICES ASSUME NEW p \in DOMAIN stack PROVE Tracked(audit, stack[p], p, Heard(p)')
    OBVIOUS
  <2>1. Tracked(audit, stack[p], p, Heard(p))
    BY DEF FindInv
  <2>2. Heard(p)' = Heard(p) \/ Heard(p)' = Failed
    BY DEF Heard
  <2> QED BY <2>1, <2>2, TrackedFailed
<1>2. Ran' = Ran
  BY DEF Ran
<1>3. FindsRan'
  BY <1>2 DEF FindInv, FindsRan
<1>4. pc'.kind = "boot" => stack' = <<>>
  BY DEF FindInv
<1>5. HeightIn(audit') = Len(stack') /\ \A i \in DOMAIN audit' : audit'[i].args \in Seq(STRING)
  BY DEF FindInv
<1> QED BY <1>1, <1>3, <1>4, <1>5 DEF FindInv

\* One more event answers nothing it did not answer before.
LEMMA FindsRanStays ==
  ASSUME NEW a, NEW e, IsSeq(a),
         NEW told,
         \A j \in DOMAIN a : a[j].phase = "end" /\ a[j].command = "find" =>
           FindRanIn(a, j) \/ \E o \in told : Tells(a[j], o),
         e.phase = "end" /\ e.command = "find" =>
           FindRanIn(Append(a, e), Len(a) + 1) \/ \E o \in told : Tells(e, o)
  PROVE  \A j \in DOMAIN Append(a, e) :
           Append(a, e)[j].phase = "end" /\ Append(a, e)[j].command = "find" =>
             FindRanIn(Append(a, e), j) \/ \E o \in told : Tells(Append(a, e)[j], o)
<1> DEFINE b == Append(a, e)
           n == Len(a)
<1>1. /\ DOMAIN b = DOMAIN a \cup {n + 1} /\ b[n + 1] = e
      /\ \A k \in DOMAIN a : b[k] = a[k]
  BY OnePlace
<1>2. \A j \in DOMAIN a : FindRanIn(a, j) => FindRanIn(b, j)
  BY FindRanStays
<1>3. e.phase = "end" /\ e.command = "find" => FindRanIn(b, n + 1) \/ \E o \in told : Tells(e, o)
  OBVIOUS
<1> HIDE DEF b, n
<1>4. ASSUME NEW j \in DOMAIN b, b[j].phase = "end" /\ b[j].command = "find"
      PROVE  FindRanIn(b, j) \/ \E o \in told : Tells(b[j], o)
  <2>1. CASE j \in DOMAIN a
    <3>1. b[j] = a[j]
      BY <1>1, <2>1
    <3> QED BY <1>2, <1>4, <2>1, <3>1
  <2>2. CASE j = n + 1
    BY <1>1, <1>3, <1>4, <2>2
  <2> QED BY <1>1, <1>4, <2>1, <2>2
<1> QED BY <1>4 DEF b

\* The same, of what the host has run.
Told == {outcomes[i] : i \in Ran}
LEMMA FindsRanIs ==
  FindsRan <=> \A j \in DOMAIN audit :
                 audit[j].phase = "end" /\ audit[j].command = "find" =>
                   FindRanIn(audit, j) \/ \E o \in Told : Tells(audit[j], o)
  BY DEF FindsRan, Told

\* A builtin starts.
LEMMA FindStarts ==
  ASSUME AuditInv, FindInv, StartBuiltin
  PROVE  FindInv'
<1>1. PICK body \in IF Named.name = "find" THEN RunFind(Tail(pc.args)) ELSE {Body(<<>>, FALSE, PlainResults)} :
        /\ stack' = Append(stack, [name |-> Named.name, args |-> pc.args, out |-> 0, body |-> body])
        /\ audit' = Append(audit, Event("start", Named.name, Tail(pc.args), 0))
  BY DEF StartBuiltin
<1>2. pc.kind = "run" /\ pc'.kind = "body" /\ outcomes' = outcomes /\ pc.args \in Line
  BY DEF StartBuiltin, AuditInv, WordsInv
<1> DEFINE frame == [name |-> Named.name, args |-> pc.args, out |-> 0, body |-> body]
           e == Event("start", Named.name, Tail(pc.args), 0)
           h == Len(stack)
<1>3. e.phase = "start" /\ e.args = Tail(pc.args) /\ frame.args = pc.args /\ frame.name = Named.name
      /\ frame.body = body /\ Tail(pc.args) \in Seq(STRING)
  <2>1. e.phase = "start" /\ e.args = Tail(pc.args)
    BY Phases
  <2>2. Tail(pc.args) \in Seq(STRING)
    BY <1>2, NotEmpty DEF Line
  <2> QED BY <2>1, <2>2
<1>4. frame.name = "find" => frame.body \in RunFind(Tail(frame.args))
  BY <1>1, <1>3
<1>5. stack' = Append(stack, frame) /\ audit' = Append(audit, e)
  BY <1>1
<1> HIDE DEF frame, e
<1>6. IsSeq(stack) /\ IsSeq(audit) /\ WordsInv' /\ HeightIn(audit) = h
  <2>1. Next
    BY DEF Next, Step
  <2> QED BY <2>1, NextWords DEF AuditInv, ProfileInv, FindInv
<1>7. /\ h \in Nat /\ DOMAIN stack = 1 .. h /\ DOMAIN stack' = DOMAIN stack \cup {h + 1}
      /\ Len(stack') = h + 1 /\ stack'[h + 1] = frame
      /\ \A i \in DOMAIN stack : stack'[i] = stack[i]
  BY <1>5, <1>6, OnePlace
<1>8. HeightIn(audit') = h + 1
  BY <1>3, <1>5, <1>6, OneDepth
<1> HIDE DEF h
<1>9. Framed(frame)
  BY <1>6, <1>7 DEF WordsInv
<1>10. \A p \in DOMAIN stack' : Tracked(audit', stack'[p], p, 0)
  <2>1. ASSUME NEW p \in DOMAIN stack PROVE Tracked(audit', stack'[p], p, 0)
    <3>1. Heard(p) = 0
      BY <1>2 DEF Heard
    <3>2. Tracked(audit, stack[p], p, 0)
      BY <3>1 DEF FindInv
    <3>3. p \in Nat /\ h + 1 > p
      BY <1>7
    <3>4. HeightIn(Append(audit, e)) > p
      BY <1>5, <1>8, <3>3
    <3>5. Tracked(Append(audit, e), stack[p], p, 0)
      BY <1>6, <3>2, <3>3, <3>4, TrackedStays
    <3> QED BY <1>5, <1>7, <3>5
  <2>2. Tracked(audit', stack'[h + 1], h + 1, 0)
    <3>1. Tracked(Append(audit, e), frame, HeightIn(Append(audit, e)), 0)
      BY <1>3, <1>4, <1>6, <1>9, StartTracked
    <3> QED BY <1>5, <1>7, <1>8, <3>1
  <2> QED BY <1>7, <2>1, <2>2
<1>11. \A p \in DOMAIN stack' : Tracked(audit, stack[p], p, Heard(p))'
  <2>1. \A p : Heard(p)' = 0
    BY <1>2 DEF Heard
  <2> QED BY <1>10, <2>1
<1>12. Dispatched'
  <2>1. ASSUME NEW p \in DOMAIN stack', p - 1 \in DOMAIN stack'
        PROVE  EndsWith(Tail(stack'[p].args), Tail(Head(stack'[p - 1].body.todo)))
    <3>1. CASE p \in DOMAIN stack
      <4>1. p - 1 \in DOMAIN stack
        BY <1>7, <2>1, <3>1
      <4> QED BY <1>7, <3>1, <4>1 DEF FindInv, Dispatched
    <3>2. CASE p = h + 1
      <4>1. p - 1 = h /\ h \in DOMAIN stack
        BY <1>7, <2>1, <3>2
      <4>2. stack # <<>>
        BY <4>1
      <4>3. Last(stack) = stack[h]
        BY <1>6, <4>2, OneLess DEF h
      <4>4. EndsWith(Tail(pc.args), Tail(Head(stack[h].body.todo)))
        BY <1>2, <4>2, <4>3 DEF FindInv, Dispatched
      <4> QED BY <1>3, <1>7, <3>2, <4>1, <4>4 DEF frame
    <3> QED BY <1>7, <2>1, <3>1, <3>2
  <2> QED BY <1>2, <2>1 DEF Dispatched
<1>13. FindsRan'
  <2>1. Told' = Told
    BY <1>2 DEF Told, Ran
  <2>2. e.phase # "end"
    BY <1>3
  <2>3. \A j \in DOMAIN audit : audit[j].phase = "end" /\ audit[j].command = "find" =>
          FindRanIn(audit, j) \/ \E o \in Told : Tells(audit[j], o)
    BY FindsRanIs DEF FindInv
  <2>4. \A j \in DOMAIN Append(audit, e) :
          Append(audit, e)[j].phase = "end" /\ Append(audit, e)[j].command = "find" =>
            FindRanIn(Append(audit, e), j) \/ \E o \in Told : Tells(Append(audit, e)[j], o)
    BY <1>6, <2>2, <2>3, FindsRanStays
  <2>5. \A j \in DOMAIN audit' :
          audit'[j].phase = "end" /\ audit'[j].command = "find" =>
            FindRanIn(audit', j) \/ \E o \in Told' : Tells(audit'[j], o)
    BY <1>5, <2>1, <2>4
  <2> QED BY <2>5 DEF FindsRan, Told
<1>14. \A i \in DOMAIN audit' : audit'[i].args \in Seq(STRING)
  <2>1. \A i \in DOMAIN audit : audit[i].args \in Seq(STRING)
    BY DEF FindInv
  <2> QED BY <1>3, <1>5, <1>6, <2>1, OneMore
<1>15. pc'.kind # "boot" /\ HeightIn(audit') = Len(stack')
  BY <1>2, <1>7, <1>8
<1> QED BY <1>11, <1>12, <1>13, <1>14, <1>15 DEF FindInv

\* What ends answers the builtin that waits for it, and no other.
LEMMA EndTracked ==
  ASSUME NEW a, IsSeq(a), NEW e, e.phase # "start", NEW frames, IsSeq(frames),
         HeightIn(Append(a, e)) = Len(frames),
         \A p \in DOMAIN frames : Framed(frames[p]) /\ Tracked(a, frames[p], p, 0),
         \A p \in DOMAIN frames : frames[p].body.todo # <<>>,
         frames # <<>> => EndsWith(e.args, Tail(Head(frames[Len(frames)].body.todo))),
         NEW p \in DOMAIN frames
  PROVE  Tracked(Append(a, e), frames[p], p,
                 IF p = Len(frames) THEN IF e.phase = "end" THEN 1 ELSE Failed ELSE 0)
<1>1. Len(frames) \in Nat /\ DOMAIN frames = 1 .. Len(frames) /\ p \in Nat /\ frames # <<>>
  BY Places
<1>2. PICK frame : frame = frames[p]
  OBVIOUS
<1>3. Framed(frame) /\ Tracked(a, frame, p, 0) /\ frame.body.todo # <<>>
  BY <1>2
<1>4. CASE p = Len(frames)
  <2>1. HeightIn(Append(a, e)) = p /\ EndsWith(e.args, Tail(Head(frame.body.todo)))
    BY <1>1, <1>2, <1>4
  <2>2. Tracked(Append(a, e), frame, p, IF e.phase = "end" THEN 1 ELSE Failed)
    BY <1>1, <1>3, <2>1, ChildTracked
  <2> QED BY <1>2, <1>4, <2>2
<1>5. CASE p # Len(frames)
  <2>1. Len(frames) > p
    BY <1>1, <1>5
  <2>2. HeightIn(Append(a, e)) > p
    BY <2>1
  <2>3. Tracked(Append(a, e), frame, p, 0)
    BY <1>1, <1>3, <2>2, TrackedStays
  <2> QED BY <1>2, <1>5, <2>3
<1> QED BY <1>4, <1>5

\* A failure is not cut to a success.
LEMMA CutFails ==
  ASSUME NEW out
  PROVE  Flat(EnforceOutputLimit(out)).code = 0 => out.code = 0
  BY DEF Flat, EnforceOutputLimit, Out, General

\* A builtin ends.
LEMMA FindEnding ==
  ASSUME AuditInv, FindInv, NEW out, EndBuiltin(out),
         \/ pc.kind = "body" /\ Last(stack).body.todo = <<>>
         \/ pc.kind = "back" /\ (out.code = 0 => pc.out.code = 0 /\ Last(stack).body.plus)
  PROVE  FindInv'
<1> DEFINE frame == Last(stack)
           rest == Front(stack)
           e == Ending(frame.name, Tail(frame.args), out.code)
           h == Len(stack)
<1>1. /\ stack' = rest /\ outcomes' = outcomes
      /\ audit' = Append(audit, e)
      /\ pc' = IF rest = <<>> THEN [kind |-> "done", out |-> EnforceOutputLimit(out)]
               ELSE [kind |-> "back", out |-> Flat(EnforceOutputLimit(out))]
  BY DEF EndBuiltin, Return
<1>2. IsSeq(stack) /\ stack # <<>> /\ IsSeq(audit) /\ HeightIn(audit) = h
  BY DEF AuditInv, ProfileInv, FindInv
<1>3. e.phase # "start" /\ e.args = Tail(frame.args) /\ e.command = frame.name
      /\ (e.phase = "end" <=> out.code = 0)
  <2>1. e.phase = "end" <=> out.code = 0
    BY DEF Ending, Event
  <2> QED BY <2>1, Phases
<1>4. /\ h \in Nat /\ h # 0 /\ DOMAIN stack = 1 .. h /\ IsSeq(rest) /\ Len(rest) = h - 1
      /\ DOMAIN rest = 1 .. (h - 1) /\ frame = stack[h]
      /\ \A p \in DOMAIN rest : rest[p] = stack[p]
  BY <1>2, OneLess, Places
<1>5. \A p \in DOMAIN stack : Framed(stack[p])
  BY DEF AuditInv, WordsInv
<1>6. \A p \in DOMAIN rest : rest[p].body.todo # <<>>
  <2>1. \A p \in DOMAIN rest : p \in DOMAIN stack /\ p # Len(stack)
    BY <1>4
  <2> QED BY <1>4, <2>1 DEF AuditInv, WordsInv
<1> HIDE DEF frame, rest, e
<1>7. HeightIn(Append(audit, e)) = h - 1
  <2> HIDE DEF h
  <2>1. HeightIn(Append(audit, e)) = HeightIn(audit) + (IF e.phase = "start" THEN 1 ELSE -1)
    BY <1>2, OneDepth
  <2> QED BY <1>2, <1>3, <1>4, <2>1
<1>8. \A p \in DOMAIN rest : Framed(rest[p]) /\ Tracked(audit, rest[p], p, 0)
  <2> SUFFICES ASSUME NEW p \in DOMAIN rest PROVE Framed(rest[p]) /\ Tracked(audit, rest[p], p, 0)
    OBVIOUS
  <2>1. p \in DOMAIN stack /\ p # Len(stack) /\ rest[p] = stack[p]
    BY <1>4
  <2>2. Heard(p) = 0
    BY <2>1 DEF Heard
  <2>3. Tracked(audit, stack[p], p, Heard(p))
    BY <2>1 DEF FindInv
  <2> QED BY <1>5, <2>1, <2>2, <2>3
<1>9. rest # <<>> => EndsWith(e.args, Tail(Head(rest[Len(rest)].body.todo)))
  <2> SUFFICES ASSUME rest # <<>> PROVE EndsWith(e.args, Tail(Head(rest[Len(rest)].body.todo)))
    OBVIOUS
  <2>1. Len(rest) # 0
    BY <1>4, Places
  <2>2. h \in DOMAIN stack /\ h - 1 \in DOMAIN stack /\ h - 1 \in DOMAIN rest
    BY <1>4, <2>1
  <2>3. EndsWith(Tail(stack[h].args), Tail(Head(stack[h - 1].body.todo)))
    BY <2>2 DEF FindInv, Dispatched
  <2> QED BY <1>3, <1>4, <2>2, <2>3
<1>10. \A p \in DOMAIN rest :
         Tracked(audit', rest[p], p, IF p = Len(rest) THEN IF e.phase = "end" THEN 1 ELSE Failed ELSE 0)
  <2>1. HeightIn(Append(audit, e)) = Len(rest)
    BY <1>4, <1>7
  <2>2. \A p \in DOMAIN rest :
         Tracked(Append(audit, e), rest[p], p, IF p = Len(rest) THEN IF e.phase = "end" THEN 1 ELSE Failed ELSE 0)
    BY <1>2, <1>3, <1>4, <1>6, <1>8, <1>9, <2>1, EndTracked
  <2> QED BY <1>1, <2>2
<1>11. \A p \in DOMAIN stack' : Tracked(audit, stack[p], p, Heard(p))'
  <2> SUFFICES ASSUME NEW p \in DOMAIN rest PROVE Tracked(audit', rest[p], p, Heard(p)')
    BY <1>1
  <2>1. rest # <<>>
    BY <1>4, Places
  <2>2. pc'.kind = "back" /\ pc'.out = Flat(EnforceOutputLimit(out))
    BY <1>1, <2>1
  <2>3. Heard(p)' = IF p = Len(rest) THEN IF pc'.out.code = 0 THEN 1 ELSE Failed ELSE 0
    BY <1>1, <2>2 DEF Heard
  <2>4. pc'.out.code = 0 => e.phase = "end"
    BY <1>3, <2>2, CutFails
  <2>5. Tracked(audit', rest[p], p, IF p = Len(rest) THEN IF e.phase = "end" THEN 1 ELSE Failed ELSE 0)
    BY <1>10
  <2>6. CASE p # Len(rest)
    BY <2>3, <2>5, <2>6
  <2>7. CASE p = Len(rest) /\ pc'.out.code = 0
    BY <2>3, <2>4, <2>5, <2>7
  <2>8. CASE p = Len(rest) /\ pc'.out.code # 0
    <3>1. Heard(p)' = Failed
      BY <2>3, <2>8
    <3>2. Tracked(audit', rest[p], p, Failed)
      BY <2>5, TrackedFailed
    <3> QED BY <3>1, <3>2
  <2> QED BY <2>6, <2>7, <2>8
<1>12. Dispatched'
  <2>1. pc'.kind \in {"done", "back"}
    BY <1>1
  <2>2. ASSUME NEW p \in DOMAIN rest, p - 1 \in DOMAIN rest
        PROVE  EndsWith(Tail(rest[p].args), Tail(Head(rest[p - 1].body.todo)))
    <3>1. p \in DOMAIN stack /\ p - 1 \in DOMAIN stack
      BY <1>4, <2>2
    <3> QED BY <1>4, <2>2, <3>1 DEF FindInv, Dispatched
  <2> QED BY <1>1, <2>1, <2>2 DEF Dispatched
<1>13. e.phase = "end" /\ e.command = "find" => FindRanIn(Append(audit, e), Len(audit) + 1)
  <2> SUFFICES ASSUME e.phase = "end", e.command = "find"
               PROVE  FindRanIn(Append(audit, e), Len(audit) + 1)
    OBVIOUS
  <2>1. h \in DOMAIN stack
    BY <1>4
  <2>2. Framed(frame) /\ frame.name = "find" /\ Tracked(audit, frame, h, Heard(h))
    BY <1>3, <1>4, <1>5, <2>1 DEF FindInv
  <2>3. \A i \in DOMAIN audit : audit[i].args \in Seq(STRING)
    BY DEF FindInv
  <2>4. CASE pc.kind = "body" /\ frame.body.todo = <<>>
    <3>1. Heard(h) = 0
      BY <2>4 DEF Heard
    <3>2. Tracked(audit, frame, h, 0) /\ 0 \in {0, 1}
      BY <2>2, <3>1
    <3> QED BY <1>2, <1>3, <1>4, <2>2, <2>3, <2>4, <3>2, FindEnds
  <2>5. CASE pc.kind = "back" /\ (out.code = 0 => pc.out.code = 0 /\ frame.body.plus)
    <3>1. pc.out.code = 0 /\ frame.body.plus
      BY <1>3, <2>5
    <3>2. Heard(h) = 1
      BY <2>5, <3>1 DEF Heard
    <3>3. Tracked(audit, frame, h, 1) /\ 1 \in {0, 1}
      BY <2>2, <3>2
    <3>4. frame.body.todo # <<>>
      BY <1>4, <2>1, <2>5 DEF AuditInv, WordsInv
    <3> QED BY <1>2, <1>3, <1>4, <2>2, <2>3, <3>1, <3>3, <3>4, FindEnds
  <2> QED BY <2>4, <2>5 DEF frame
<1>14. FindsRan'
  <2>1. Told' = Told
    BY <1>1 DEF Told, Ran
  <2>2. \A j \in DOMAIN audit : audit[j].phase = "end" /\ audit[j].command = "find" =>
          FindRanIn(audit, j) \/ \E o \in Told : Tells(audit[j], o)
    BY FindsRanIs DEF FindInv
  <2>3. \A j \in DOMAIN Append(audit, e) :
          Append(audit, e)[j].phase = "end" /\ Append(audit, e)[j].command = "find" =>
            FindRanIn(Append(audit, e), j) \/ \E o \in Told : Tells(Append(audit, e)[j], o)
    BY <1>2, <1>13, <2>2, FindsRanStays
  <2>4. \A j \in DOMAIN audit' :
          audit'[j].phase = "end" /\ audit'[j].command = "find" =>
            FindRanIn(audit', j) \/ \E o \in Told' : Tells(audit'[j], o)
    BY <1>1, <2>1, <2>3
  <2> QED BY <2>4 DEF FindsRan, Told
<1>15. \A i \in DOMAIN audit' : audit'[i].args \in Seq(STRING)
  <2>1. \A i \in DOMAIN audit : audit[i].args \in Seq(STRING)
    BY DEF FindInv
  <2>2. Framed(frame)
    BY <1>4, <1>5
  <2>3. Tail(frame.args) \in Seq(STRING)
    BY <2>2, NotEmpty DEF Framed, Line
  <2> QED BY <1>1, <1>2, <1>3, <2>1, <2>3, OneMore
<1>16. pc'.kind # "boot" /\ HeightIn(audit') = Len(stack')
  BY <1>1, <1>4, <1>7
<1> QED BY <1>11, <1>12, <1>14, <1>15, <1>16 DEF FindInv

\* A find goes on.
LEMMA FindGoing ==
  ASSUME AuditInv, FindInv, FindGo
  PROVE  FindInv'
<1> DEFINE h == Len(stack)
           less == Front(stack)
<1>1. PICK frame : frame = FindGoesOn(Last(stack), pc.out)
  OBVIOUS
<1>2. /\ pc.kind = "back" /\ pc'.kind = "body" /\ stack' = Append(less, frame)
      /\ UNCHANGED <<audit, outcomes>>
      /\ pc.out.code = 0
  BY <1>1 DEF FindGo, StopsFind
<1>3. IsSeq(stack) /\ stack # <<>>
  BY <1>2 DEF AuditInv, ProfileInv
<1>4. /\ h \in Nat /\ h # 0 /\ DOMAIN stack = 1 .. h /\ IsSeq(less) /\ Len(less) = h - 1
      /\ DOMAIN less = 1 .. (h - 1) /\ Last(stack) = stack[h]
      /\ \A p \in DOMAIN less : less[p] = stack[p]
  BY <1>3, OneLess, Places
<1> HIDE DEF less
<1>5. /\ DOMAIN stack' = DOMAIN less \cup {h} /\ Len(stack') = h /\ stack'[h] = frame
      /\ \A p \in DOMAIN less : stack'[p] = stack[p]
  <2>1. /\ DOMAIN stack' = DOMAIN less \cup {Len(less) + 1} /\ Len(stack') = Len(less) + 1
        /\ stack'[Len(less) + 1] = frame
        /\ \A p \in DOMAIN less : stack'[p] = less[p]
    <3>1. PICK more : more = Append(less, frame)
      OBVIOUS
    <3>2. IsSeq(less)
      BY <1>4
    <3>3. /\ DOMAIN more = DOMAIN less \cup {Len(less) + 1} /\ Len(more) = Len(less) + 1
          /\ more[Len(less) + 1] = frame
          /\ \A p \in DOMAIN less : more[p] = less[p]
      BY <3>1, <3>2, OnePlace
    <3> QED BY <1>2, <3>1, <3>3
  <2>2. Len(less) + 1 = h
    BY <1>4
  <2> QED BY <1>4, <2>1, <2>2
<1> HIDE DEF h
<1>6. h \in DOMAIN stack /\ Framed(stack[h]) /\ stack[h].body.todo # <<>>
  <2>1. h \in DOMAIN stack
    BY <1>4
  <2> QED BY <1>2, <2>1 DEF AuditInv, WordsInv
<1>7. Tracked(audit, frame, h, 0)
  <2>1. Heard(h) = 1
    BY <1>2 DEF Heard, h
  <2>2. Tracked(audit, stack[h], h, 1)
    BY <1>6, <2>1 DEF FindInv
  <2>3. Tracked(audit, FindGoesOn(stack[h], pc.out), h, 0)
    BY <1>6, <2>2, TrackedGoes
  <2> QED BY <1>1, <1>4, <2>3
<1>8. \A p \in DOMAIN stack' : Tracked(audit, stack[p], p, Heard(p))'
  <2> SUFFICES ASSUME NEW p \in DOMAIN stack' PROVE Tracked(audit, stack'[p], p, Heard(p)')
    BY <1>2
  <2>1. Heard(p)' = 0
    BY <1>2 DEF Heard
  <2>2. CASE p = h
    BY <1>5, <1>7, <2>1, <2>2
  <2>3. CASE p \in DOMAIN less
    <3>1. p \in DOMAIN stack /\ p # Len(stack)
      BY <1>4, <2>3 DEF h
    <3>2. Heard(p) = 0
      BY <3>1 DEF Heard
    <3>3. Tracked(audit, stack[p], p, 0)
      BY <3>1, <3>2 DEF FindInv
    <3> QED BY <1>5, <2>1, <2>3, <3>3
  <2> QED BY <1>5, <2>2, <2>3
<1>9. frame.args = stack[h].args
  BY <1>1, <1>4, <1>6 DEF FindGoesOn, Framed
<1>10. Dispatched'
  <2>1. ASSUME NEW p \in DOMAIN stack', p - 1 \in DOMAIN stack'
        PROVE  EndsWith(Tail(stack'[p].args), Tail(Head(stack'[p - 1].body.todo)))
    <3>1. p \in DOMAIN stack /\ p - 1 \in DOMAIN stack /\ p - 1 \in DOMAIN less
      BY <1>4, <1>5, <2>1
    <3>2. stack'[p - 1] = stack[p - 1] /\ stack'[p].args = stack[p].args
      BY <1>4, <1>5, <1>9, <3>1
    <3> QED BY <3>1, <3>2 DEF FindInv, Dispatched
  <2> QED BY <1>2, <2>1 DEF Dispatched
<1>11. FindsRan'
  <2>1. Ran' = Ran
    BY <1>2 DEF Ran
  <2> QED BY <1>2, <2>1 DEF FindInv, FindsRan
<1>12. HeightIn(audit') = Len(stack') /\ \A i \in DOMAIN audit' : audit'[i].args \in Seq(STRING)
  BY <1>2, <1>5 DEF FindInv, h
<1> QED BY <1>2, <1>8, <1>10, <1>11, <1>12 DEF FindInv

\* A command of the host runs.
LEMMA FindHost ==
  ASSUME AuditInv, FindInv, RunExternalCommand
  PROVE  FindInv'
<1> DEFINE args == Tail(pc.args)
           h == Len(stack)
<1>1. PICK reply \in IF runner THEN Replies ELSE {NoRunner} :
        /\ audit' = audit \o ExternalEvents(Named.name, args, reply)
        /\ outcomes' = Append(outcomes, [command |-> Named.name, argv |-> <<Named.name>> \o args,
                                         namespace |-> "external", target |-> Head(pc.args),
                                         kind |-> OutcomeKind(reply), executed |-> RanExternally(reply),
                                         code |-> CompatCode(reply), raw |-> EffectiveRawExitCode(reply)])
        /\ Return(EnforceOutputLimit(ExternalOutput(reply)), stack)
  BY DEF RunExternalCommand
<1> DEFINE a == Event("start", Named.name, args, 0)
           e == Ending(Named.name, args, CompatCode(reply))
           step == [command |-> Named.name, argv |-> <<Named.name>> \o args,
                    namespace |-> "external", target |-> Head(pc.args),
                    kind |-> OutcomeKind(reply), executed |-> RanExternally(reply),
                    code |-> CompatCode(reply), raw |-> EffectiveRawExitCode(reply)]
           out == EnforceOutputLimit(ExternalOutput(reply))
           mid == Append(audit, a)
<1>2. pc.kind = "run" /\ stack' = stack /\ pc.args \in Line
  BY DEF RunExternalCommand, AuditInv, WordsInv
<1>3. args \in Seq(STRING)
  BY <1>2, NotEmpty DEF Line
<1>4. IsSeq(stack) /\ IsSeq(audit) /\ IsSeq(outcomes) /\ HeightIn(audit) = h
  BY DEF AuditInv, ProfileInv, FindInv
<1>5. a.phase = "start" /\ a.args = args /\ e.phase # "start" /\ e.args = args /\ e.command = Named.name
      /\ e.code = CompatCode(reply) /\ (e.phase = "end" <=> CompatCode(reply) = 0)
  <2>1. e.phase = "end" <=> CompatCode(reply) = 0
    BY DEF Ending, Event
  <2> QED BY <2>1, Phases
<1>6. audit' = Append(mid, e) /\ IsSeq(mid)
  <2>1. audit' = audit \o <<a, e>>
    BY <1>1 DEF ExternalEvents
  <2> HIDE DEF a, e
  <2> QED BY <1>4, <2>1, TwoMore, OneMore
<1>7. step.command = Named.name /\ step.code = CompatCode(reply) /\ step.executed = RanExternally(reply)
      /\ Tail(step.argv) = args
  <2>1. Tail(<<Named.name>> \o args) = args
    <3>1. \A n, s : s \in Seq(STRING) => Tail(<<n>> \o s) = s
      OBVIOUS
    <3> QED BY <1>3, <3>1
  <2> QED BY <2>1
<1>8. outcomes' = Append(outcomes, step)
  BY <1>1
<1>9. pc' = IF stack = <<>> THEN [kind |-> "done", out |-> out] ELSE [kind |-> "back", out |-> Flat(out)]
  BY <1>1 DEF Return
<1>10. Flat(out).code = 0 => e.phase = "end"
  <2>1. Flat(out).code = 0 => ExternalOutput(reply).code = 0
    BY CutFails
  <2>2. ExternalOutput(reply).code = CompatCode(reply)
    BY DEF ExternalOutput, Out
  <2> QED BY <1>5, <2>1, <2>2
<1>11. h \in Nat /\ DOMAIN stack = 1 .. h
  BY <1>4, Places
<1> HIDE DEF args, a, e, step, out, mid
<1>12. HeightIn(mid) = h + 1 /\ HeightIn(Append(mid, e)) = h
  <2>1. HeightIn(mid) = HeightIn(audit) + (IF a.phase = "start" THEN 1 ELSE -1)
    BY <1>4, OneDepth DEF mid
  <2>2. HeightIn(Append(mid, e)) = HeightIn(mid) + (IF e.phase = "start" THEN 1 ELSE -1)
    BY <1>6, OneDepth
  <2> HIDE DEF h
  <2>3. HeightIn(mid) = h + 1
    BY <1>4, <1>5, <2>1
  <2>4. HeightIn(Append(mid, e)) = (h + 1) - 1
    BY <1>5, <1>11, <2>2, <2>3
  <2> QED BY <1>11, <2>3, <2>4
<1>13. \A p \in DOMAIN stack : Framed(stack[p]) /\ Tracked(mid, stack[p], p, 0)
  <2> SUFFICES ASSUME NEW p \in DOMAIN stack PROVE Framed(stack[p]) /\ Tracked(mid, stack[p], p, 0)
    OBVIOUS
  <2>1. Heard(p) = 0
    BY <1>2 DEF Heard
  <2>2. Tracked(audit, stack[p], p, 0)
    BY <2>1 DEF FindInv
  <2>3. p \in Nat /\ h + 1 > p
    BY <1>11
  <2>4. HeightIn(Append(audit, a)) > p
    BY <1>12, <2>3 DEF mid
  <2>5. Tracked(Append(audit, a), stack[p], p, 0)
    BY <1>4, <2>2, <2>3, <2>4, TrackedStays
  <2>6. Framed(stack[p])
    BY DEF AuditInv, WordsInv
  <2> QED BY <2>5, <2>6 DEF mid
<1>14. \A p \in DOMAIN stack : stack[p].body.todo # <<>>
  BY <1>2 DEF AuditInv, WordsInv
<1>15. stack # <<>> => EndsWith(e.args, Tail(Head(stack[Len(stack)].body.todo)))
  <2> SUFFICES ASSUME stack # <<>> PROVE EndsWith(e.args, Tail(Head(stack[Len(stack)].body.todo)))
    OBVIOUS
  <2>1. Last(stack) = stack[Len(stack)]
    BY <1>4, OneLess
  <2> QED BY <1>2, <1>5, <2>1 DEF FindInv, Dispatched, args
<1>16. \A p \in DOMAIN stack :
         Tracked(audit', stack[p], p, IF p = Len(stack) THEN IF e.phase = "end" THEN 1 ELSE Failed ELSE 0)
  <2>1. HeightIn(Append(mid, e)) = Len(stack)
    BY <1>12 DEF h
  <2>2. \A p \in DOMAIN stack :
         Tracked(Append(mid, e), stack[p], p, IF p = Len(stack) THEN IF e.phase = "end" THEN 1 ELSE Failed ELSE 0)
    BY <1>4, <1>5, <1>6, <1>13, <1>14, <1>15, <2>1, EndTracked
  <2> QED BY <1>6, <2>2
<1>17. \A p \in DOMAIN stack' : Tracked(audit, stack[p], p, Heard(p))'
  <2> SUFFICES ASSUME NEW p \in DOMAIN stack PROVE Tracked(audit', stack[p], p, Heard(p)')
    BY <1>2
  <2>1. stack # <<>>
    BY <1>4, Places
  <2>2. pc'.kind = "back" /\ pc'.out = Flat(out)
    BY <1>9, <2>1
  <2>3. Heard(p)' = IF p = Len(stack) THEN IF pc'.out.code = 0 THEN 1 ELSE Failed ELSE 0
    BY <1>2, <2>2 DEF Heard
  <2>4. pc'.out.code = 0 => e.phase = "end"
    BY <1>10, <2>2
  <2>5. Tracked(audit', stack[p], p, IF p = Len(stack) THEN IF e.phase = "end" THEN 1 ELSE Failed ELSE 0)
    BY <1>16
  <2>6. CASE p # Len(stack)
    BY <2>3, <2>5, <2>6
  <2>7. CASE p = Len(stack) /\ pc'.out.code = 0
    BY <2>3, <2>4, <2>5, <2>7
  <2>8. CASE p = Len(stack) /\ pc'.out.code # 0
    <3>1. Heard(p)' = Failed
      BY <2>3, <2>8
    <3>2. Tracked(audit', stack[p], p, Failed)
      BY <2>5, TrackedFailed
    <3> QED BY <3>1, <3>2
  <2> QED BY <2>6, <2>7, <2>8
<1>18. Dispatched'
  <2>1. pc'.kind \in {"done", "back"}
    BY <1>9
  <2> QED BY <1>2, <2>1 DEF FindInv, Dispatched
<1>19. FindsRan'
  <2>1. Told \subseteq Told'
    <3>1. \A i \in DOMAIN outcomes : i \in DOMAIN outcomes' /\ outcomes'[i] = outcomes[i]
      BY <1>4, <1>8, OnePlace
    <3> QED BY <3>1 DEF Told, Ran
  <2>2. CompatCode(reply) = 0 => step \in Told'
    <3>1. Len(outcomes) + 1 \in DOMAIN outcomes' /\ outcomes'[Len(outcomes) + 1] = step
      BY <1>4, <1>8, OnePlace
    <3>2. CompatCode(reply) = 0 => RanExternally(reply)
      BY DEF CompatCode, RanExternally, General, Unsupported
    <3> QED BY <1>7, <3>1, <3>2 DEF Told, Ran
  <2>3. \A j \in DOMAIN audit : audit[j].phase = "end" /\ audit[j].command = "find" =>
          FindRanIn(audit, j) \/ \E o \in Told : Tells(audit[j], o)
    BY FindsRanIs DEF FindInv
  <2>4. \A j \in DOMAIN audit : audit[j].phase = "end" /\ audit[j].command = "find" =>
          FindRanIn(audit, j) \/ \E o \in Told' : Tells(audit[j], o)
    BY <2>1, <2>3
  <2>5. a.phase # "end"
    BY <1>5
  <2>6. \A j \in DOMAIN mid :
          mid[j].phase = "end" /\ mid[j].command = "find" =>
            FindRanIn(mid, j) \/ \E o \in Told' : Tells(mid[j], o)
    BY <1>4, <2>4, <2>5, FindsRanStays DEF mid
  <2>7. e.phase = "end" => \E o \in Told' : Tells(e, o)
    <3>1. Tells(e, step)
      BY <1>5, <1>7 DEF Tells
    <3> QED BY <1>5, <2>2, <3>1
  <2>8. \A j \in DOMAIN Append(mid, e) :
          Append(mid, e)[j].phase = "end" /\ Append(mid, e)[j].command = "find" =>
            FindRanIn(Append(mid, e), j) \/ \E o \in Told' : Tells(Append(mid, e)[j], o)
    BY <1>6, <2>6, <2>7, FindsRanStays
  <2>9. \A j \in DOMAIN audit' :
          audit'[j].phase = "end" /\ audit'[j].command = "find" =>
            FindRanIn(audit', j) \/ \E o \in Told' : Tells(audit'[j], o)
    BY <1>6, <2>8
  <2> QED BY <2>9 DEF FindsRan, Told
<1>20. \A i \in DOMAIN audit' : audit'[i].args \in Seq(STRING)
  <2>1. \A i \in DOMAIN audit : audit[i].args \in Seq(STRING)
    BY DEF FindInv
  <2>2. \A i \in DOMAIN mid : mid[i].args \in Seq(STRING)
    BY <1>3, <1>4, <1>5, <2>1, OneMore DEF mid
  <2> QED BY <1>3, <1>5, <1>6, <2>2, OneMore
<1>21. pc'.kind # "boot" /\ HeightIn(audit') = Len(stack')
  BY <1>2, <1>6, <1>9, <1>12 DEF h
<1> QED BY <1>17, <1>18, <1>19, <1>20, <1>21 DEF FindInv

\* Every step keeps what is known of the finds that run, and of those that have.
LEMMA NextFind == AuditInv /\ FindInv /\ [Next]_vars => FindInv'
<1> SUFFICES ASSUME AuditInv, FindInv, [Next]_vars PROVE FindInv'
  OBVIOUS
<1>1. CASE StartBuiltin
  BY <1>1, FindStarts
<1>2. CASE FindGo
  BY <1>2, FindGoing
<1>3. CASE RunExternalCommand
  BY <1>3, FindHost
<1>4. CASE Finish
  BY <1>4, FindEnding DEF Finish
<1>5. CASE FindStop
  <2> DEFINE silent == pc.out.stdout = 0 /\ ~Last(stack).body.plus
             out == IF silent THEN Says(pc.out.code) ELSE pc.out
  <2>1. pc.kind = "back" /\ EndBuiltin(out) /\ (Last(stack).body.plus \/ pc.out.code # 0)
    BY <1>5 DEF FindStop, StopsFind
  <2>2. out.code = pc.out.code
    BY DEF Says, Out
  <2> HIDE DEF out
  <2>3. out.code = 0 => pc.out.code = 0 /\ Last(stack).body.plus
    BY <2>1, <2>2
  <2> QED BY <2>1, <2>3, FindEnding
<1>6. ASSUME pc'.kind \in {"body", "back", "done"}, UNCHANGED stack PROVE Dispatched'
  BY <1>6 DEF FindInv, Dispatched
<1>7. CASE LoadRC
  <2>1. pc.kind = "boot" /\ pc'.kind \in {"done", "boot"} /\ UNCHANGED <<stack, audit, outcomes>>
    BY <1>7 DEF LoadRC
  <2>2. Dispatched'
    BY <2>1 DEF FindInv, Dispatched
  <2>3. CASE pc'.kind # "boot"
    BY <2>1, <2>2, <2>3, FindStays
  <2>4. CASE pc'.kind = "boot"
    <3>1. stack = <<>> /\ DOMAIN stack' = {} /\ Ran' = Ran
      BY <2>1 DEF FindInv, Ran
    <3>2. FindsRan'
      BY <2>1, <3>1 DEF FindInv, FindsRan
    <3> QED BY <2>1, <2>2, <3>1, <3>2 DEF FindInv
  <2> QED BY <2>3, <2>4
<1>8. CASE Begin
  <2>1. pc.kind = "boot" /\ pc'.kind = "call" /\ UNCHANGED <<stack, audit, outcomes>>
    BY <1>8 DEF Begin, Call
  <2>2. Dispatched'
    BY <2>1 DEF FindInv, Dispatched
  <2> QED BY <2>1, <2>2, FindStays
<1>9. CASE Enter
  <2>1. /\ pc.kind = "call" /\ UNCHANGED <<stack, audit, outcomes>>
        /\ \/ pc'.kind = "done"
           \/ pc'.kind = "back" /\ pc'.out.code # 0
           \/ pc' = [kind |-> "alias", typed |-> pc.args, args |-> pc.args, seen |-> {}]
    BY <1>9 DEF Enter, Return, Says, Out, Flat, General
  <2>2. Dispatched'
    BY <2>1 DEF FindInv, Dispatched
  <2> QED BY <2>1, <2>2, FindStays
<1>10. CASE ExpandCommandAlias
  <2>1. /\ pc.kind = "alias" /\ UNCHANGED <<stack, audit, outcomes>>
        /\ \/ pc'.kind = "done"
           \/ pc'.kind = "back" /\ pc'.out.code # 0
           \/ pc'.kind = "alias" /\ Head(pc.args) \in DOMAIN aliases /\ pc'.args = Substitute(pc.args)
           \/ pc' = [kind |-> "run", typed |-> pc.typed, args |-> pc.args]
    BY <1>10 DEF ExpandCommandAlias, Return, Says, Out, Flat, Usage
  <2>2. ASSUME Head(pc.args) \in DOMAIN aliases, stack # <<>>
        PROVE  EndsWith(Tail(Substitute(pc.args)), Tail(Head(Last(stack).body.todo)))
    <3>1. EndsWith(Tail(pc.args), Tail(Head(Last(stack).body.todo)))
      BY <2>1, <2>2 DEF FindInv, Dispatched
    <3>2. pc.args \in Line /\ aliases[Head(pc.args)] \in Line
      BY <2>1, <2>2 DEF AuditInv, WordsInv
    <3>3. Tail(Head(Last(stack).body.todo)) \in Seq(STRING)
      <4>1. IsSeq(stack)
        BY DEF AuditInv, ProfileInv
      <4>2. Len(stack) \in DOMAIN stack /\ Last(stack) = stack[Len(stack)]
        BY <2>2, <4>1, OneLess
      <4>3. Framed(Last(stack)) /\ Last(stack).body.todo # <<>>
        BY <2>1, <4>2 DEF AuditInv, WordsInv
      <4>4. Head(Last(stack).body.todo) \in Line
        BY <4>3, NotEmpty DEF Framed
      <4> QED BY <4>4, NotEmpty DEF Line
    <3> QED BY <3>1, <3>2, <3>3, EndsLonger DEF Substitute
  <2>3. Dispatched'
    BY <2>1, <2>2 DEF FindInv, Dispatched
  <2> QED BY <2>1, <2>3, FindStays
<1>11. CASE Refuse
  <2>1. Decide(Named).kind = "refused" => Decide(Named).code # 0
    BY DEF Decide, General, Unsupported
  <2>2. /\ pc.kind = "run" /\ UNCHANGED <<stack, audit, outcomes>>
        /\ pc'.kind = "done" \/ (pc'.kind = "back" /\ pc'.out.code # 0)
    BY <1>11, <2>1 DEF Refuse, Return, Says, Out, Flat
  <2>3. Dispatched'
    BY <1>6, <2>2
  <2> QED BY <2>2, <2>3, FindStays
<1>12. CASE DispatchNext
  <2>1. /\ pc.kind = "body" /\ UNCHANGED <<stack, audit, outcomes>> /\ Last(stack).body.todo # <<>>
        /\ \/ pc'.kind = "back" /\ pc'.out.code # 0
           \/ pc' = Call(Head(Last(stack).body.todo))
    BY <1>12 DEF DispatchNext, Says, Out, General
  <2>2. IsSeq(stack) /\ stack # <<>>
    BY <2>1 DEF AuditInv, ProfileInv
  <2>3. Framed(Last(stack))
    BY <2>2, OneLess DEF AuditInv, WordsInv
  <2>4. Head(Last(stack).body.todo) \in Line
    BY <2>1, <2>3, NotEmpty DEF Framed
  <2>5. Tail(Head(Last(stack).body.todo)) \in Seq(STRING)
    BY <2>4, NotEmpty DEF Line
  <2>6. EndsWith(Tail(Head(Last(stack).body.todo)), Tail(Head(Last(stack).body.todo)))
    BY <2>5, EndsItself
  <2>7. Dispatched'
    BY <2>1, <2>6 DEF FindInv, Dispatched, Call
  <2>8. pc'.kind # "boot" /\ (pc'.kind = "back" => pc'.out.code # 0)
    BY <2>1 DEF Call
  <2> QED BY <2>1, <2>7, <2>8, FindStays
<1>13. CASE Cancel \/ UNCHANGED vars
  <2>1. pc' = pc /\ UNCHANGED <<stack, audit, outcomes>>
    BY <1>13 DEF Cancel, vars
  <2>2. Dispatched'
    BY <2>1 DEF FindInv, Dispatched
  <2> QED BY <2>1, <2>2, FindStays
<1> QED BY <1>1, <1>2, <1>3, <1>4, <1>5, <1>7, <1>8, <1>9, <1>10, <1>11, <1>12, <1>13 DEF Next, Step

\* A find that succeeds has run its command on every match, in order, and every one
\* of them has succeeded, however deep finds dispatch finds.
THEOREM FindsRunAll == Spec => []FindRunsAll
<1>1. Init => AuditInv /\ FindInv
  BY InitAudit, InitFind
<1>2. AuditInv /\ FindInv /\ [Next]_vars => (AuditInv /\ FindInv)'
  BY NextAudit, NextFind
<1>3. AuditInv /\ FindInv => FindRunsAll
  <2> SUFFICES ASSUME FindInv, NEW j \in DOMAIN audit, audit[j].phase = "end", audit[j].command = "find"
               PROVE  \/ \A body \in RunFind(audit[j].args) : RunsAll(body, Children(Opener(j), j))
                      \/ \E i \in Ran : Tells(audit[j], outcomes[i])
    BY DEF FindRunsAll
  <2>1. FindRanIn(audit, j) \/ \E i \in Ran : Tells(audit[j], outcomes[i])
    BY DEF FindInv, FindsRan
  <2>2. FindRanIn(audit, j) => \A body \in RunFind(audit[j].args) : RunsAll(body, Children(Opener(j), j))
    BY InItsTerms DEF FindRanIn
  <2> QED BY <2>1, <2>2
<1> QED BY <1>1, <1>2, <1>3, PTL DEF Spec
=============================================================================
