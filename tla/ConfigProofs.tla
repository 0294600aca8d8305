------------------------------ MODULE ConfigProofs ------------------------------
(***************************************************************************)
(* Commands find the server, servers of different hosts do not meet, and a *)
(* reload does what a restart does: for any hosts, files and settings.     *)
(***************************************************************************)
EXTENDS Config, WellFoundedInduction, SequenceTheorems, TLAPS

-----------------------------------------------------------------------------
(* The last of some places in a list *)

\* A set of numbers up to n has a greatest one, since the numbers below it
\* from the top have a least one.
LEMMA GreatestExists ==
  ASSUME NEW n \in Nat, NEW S \in SUBSET (1 .. n), S # {}
  PROVE  \E x \in S : \A y \in S : x >= y
<1> DEFINE T == {k \in Nat : \E x \in S : k = n - x}
           R == OpToRel(<, Nat)
<1>1. \A i, j \in Nat : i < j => <<i, j>> \in R
  BY DEF OpToRel
<1>2. \A x \in S : x \in 1 .. n /\ n - x \in T
  OBVIOUS
<1> HIDE DEF R
<1>3. PICK k \in T : \A m \in T : ~(<<m, k>> \in R)
  <2>1. T \subseteq Nat /\ T # {}
    BY <1>2
  <2>2. IsWellFoundedOn(R, Nat)
    BY NatLessThanWellFounded DEF R
  <2> HIDE DEF T
  <2> QED
    BY <2>1, <2>2, WFMin
<1>4. PICK x \in S : k = n - x
  OBVIOUS
<1>5. ASSUME NEW y \in S
      PROVE  x >= y
  <2>1. ~(n - y < n - x)
    BY <1>1, <1>2, <1>3, <1>4
  <2>2. x \in Int /\ y \in Int
    BY <1>2
  <2> QED
    BY <2>1, <2>2
<1> QED
  BY <1>5

LEMMA MaxOfPlaces ==
  ASSUME NEW n \in Nat, NEW S \in SUBSET (1 .. n), S # {}
  PROVE  Max(S) \in S
BY GreatestExists DEF Max

-----------------------------------------------------------------------------
(* The insertion sort reverses *)

\* The first i pieces from the last one to the first
Reversed(p, i) == [j \in 1 .. i |-> p[i + 1 - j]]

LEMMA Joined ==
  ASSUME NEW s \in Seq(Nat), NEW t \in Seq(Nat)
  PROVE  /\ s \o t \in Seq(Nat) /\ Len(s \o t) = Len(s) + Len(t)
         /\ \A j \in 1 .. Len(s) + Len(t) :
              (s \o t)[j] = IF j <= Len(s) THEN s[j] ELSE t[j - Len(s)]
BY ConcatProperties

\* What one more piece does to the pieces before it
LEMMA ReversedGrows ==
  ASSUME NEW p \in Seq(Nat), NEW i \in 1 .. Len(p)
  PROVE  Reversed(p, i) = <<p[i]>> \o Reversed(p, i - 1)
<1> DEFINE s == <<p[i]>>
           t == Reversed(p, i - 1)
<1>1. i \in Nat /\ i - 1 \in Nat /\ Len(p) \in Nat /\ \A j \in 1 .. Len(p) : p[j] \in Nat
  OBVIOUS
<1>2. s \in Seq(Nat) /\ Len(s) = 1 /\ s[1] = p[i]
  BY <1>1
<1>3. t \in Seq(Nat) /\ Len(t) = i - 1 /\ \A j \in 1 .. i - 1 : t[j] = p[i - j]
  BY <1>1 DEF Reversed
<1>4. Reversed(p, i) \in Seq(Nat) /\ Len(Reversed(p, i)) = i
      /\ \A j \in 1 .. i : Reversed(p, i)[j] = p[i + 1 - j]
  BY <1>1 DEF Reversed
<1> HIDE DEF s, t
<1>5. /\ s \o t \in Seq(Nat) /\ Len(s \o t) = Len(s) + Len(t)
      /\ \A j \in 1 .. Len(s) + Len(t) :
           (s \o t)[j] = IF j <= Len(s) THEN s[j] ELSE t[j - Len(s)]
  BY <1>2, <1>3, Joined
<1>6. Len(s) + Len(t) = i
  BY <1>1, <1>2, <1>3
<1>7. ASSUME NEW j \in 1 .. i
      PROVE  (s \o t)[j] = Reversed(p, i)[j]
  <2>1. j \in Nat /\ j >= 1
    BY <1>1
  <2>2. CASE j = 1
    <3>1. (s \o t)[1] = s[1]
      BY <1>2, <1>5, <1>6, <2>2
    <3>2. Reversed(p, i)[1] = p[i]
      <4>1. i + 1 - 1 = i /\ 1 \in 1 .. i
        BY <1>1
      <4> QED
        BY <1>4, <4>1
    <3> QED
      BY <1>2, <2>2, <3>1, <3>2
  <2>3. CASE j # 1
    <3>1. j - 1 \in 1 .. i - 1 /\ ~(j <= 1) /\ i - (j - 1) = i + 1 - j
      BY <1>1, <2>1, <2>3
    <3>2. (s \o t)[j] = t[j - 1]
      BY <1>2, <1>5, <1>6, <3>1
    <3>3. t[j - 1] = p[i - (j - 1)]
      BY <1>3, <3>1
    <3>4. Reversed(p, i)[j] = p[i + 1 - j]
      BY <1>4
    <3> QED
      BY <3>1, <3>2, <3>3, <3>4
  <2> QED
    BY <2>2, <2>3
<1>8. s \o t = Reversed(p, i)
  <2> DEFINE r == Reversed(p, i)
             c == s \o t
  <2>1. /\ r \in Seq(Nat) /\ c \in Seq(Nat) /\ Len(c) = Len(r)
        /\ \A j \in 1 .. Len(c) : c[j] = r[j]
    BY <1>4, <1>5, <1>6, <1>7
  <2> HIDE DEF r, c
  <2>2. c = r
    BY <2>1, SeqEqual
  <2> QED
    BY <2>2 DEF r, c
<1> QED
  BY <1>8 DEF s, t

LEMMA ReverseDNSNameReverses ==
  ASSUME NEW h \in Hosts
  PROVE  ReverseDNSName(h) = Reversed(Pieces[h], Len(Pieces[h]))
<1> DEFINE p == Pieces[h]
           n == Len(p)
           Step(f) == [i \in 0 .. n |-> IF i = 0 THEN <<>> ELSE <<p[i]>> \o f[i - 1]]
           front[i \in 0 .. n] == IF i = 0 THEN <<>> ELSE <<p[i]>> \o front[i - 1]
           g == [i \in 0 .. n |-> Reversed(p, i)]
<1>1. p \in Seq(Nat) /\ n \in Nat
  BY PiecesAssumption
<1>2. Reversed(p, 0) = <<>>
  BY DEF Reversed
<1>3. g = Step(g)
  <2>1. ASSUME NEW i \in 0 .. n
        PROVE  g[i] = IF i = 0 THEN <<>> ELSE <<p[i]>> \o g[i - 1]
    <3>1. i # 0 => i \in 1 .. n /\ i - 1 \in 0 .. n
      BY <1>1
    <3>2. i # 0 => Reversed(p, i) = <<p[i]>> \o Reversed(p, i - 1)
      BY <1>1, <3>1, ReversedGrows
    <3> QED
      BY <1>2, <3>1, <3>2
  <2> HIDE DEF p, n
  <2> QED
    BY <2>1
<1>4. front = Step(front)
  <2>1. \E f : f = Step(f)
    BY <1>3
  <2> QED
    BY <2>1
<1>5. ASSUME NEW i \in 0 .. n
      PROVE  front[i] = IF i = 0 THEN <<>> ELSE <<p[i]>> \o front[i - 1]
  BY <1>4
<1> HIDE DEF p, n, front, g, Step
<1>6. \A i \in 0 .. n : front[i] = Reversed(p, i)
  <2> DEFINE T == {i \in Nat : i \in 0 .. n /\ front[i] # Reversed(p, i)}
             R == OpToRel(<, Nat)
  <2>0. SUFFICES ASSUME T # {}
                 PROVE  FALSE
    <3>1. 0 .. n \subseteq Nat
      BY <1>1
    <3> QED
      BY <3>1
  <2>1. \A i, j \in Nat : i < j => <<i, j>> \in R
    BY DEF OpToRel
  <2>2. T \subseteq Nat
    OBVIOUS
  <2>3. PICK i \in T : \A m \in T : ~(<<m, i>> \in R)
    <3>1. IsWellFoundedOn(R, Nat)
      BY NatLessThanWellFounded DEF R
    <3> HIDE DEF T, R
    <3> QED
      BY <2>0, <2>2, <3>1, WFMin
  <2> HIDE DEF R
  <2>4. i # 0
    BY <1>1, <1>2, <1>5
  <2>5. i \in 1 .. n /\ i - 1 \in 0 .. n /\ i - 1 \in Nat /\ i - 1 < i
    BY <1>1, <2>4
  <2>6. front[i - 1] = Reversed(p, i - 1)
    BY <2>1, <2>3, <2>5
  <2>7. front[i] = <<p[i]>> \o front[i - 1]
    BY <1>5, <2>4
  <2>8. Reversed(p, i) = <<p[i]>> \o Reversed(p, i - 1)
    BY <1>1, <2>5, ReversedGrows DEF n
  <2> QED
    BY <2>6, <2>7, <2>8
<1>7. front[n] = Reversed(p, n)
  BY <1>1, <1>6
<1> QED
  BY <1>7 DEF ReverseDNSName, p, n, front

\* So it keeps what it is given apart.
LEMMA ReverseDNSNameInjective ==
  ASSUME NEW h \in Hosts, NEW k \in Hosts, ReverseDNSName(h) = ReverseDNSName(k)
  PROVE  h = k
<1> DEFINE p == Pieces[h]
           q == Pieces[k]
           n == Len(p)
<1>1. p \in Seq(Nat) /\ q \in Seq(Nat) /\ n \in Nat
  BY PiecesAssumption
<1>2. Reversed(p, n) = Reversed(q, Len(q))
  BY ReverseDNSNameReverses
<1>3. n = Len(q)
  <2>1. DOMAIN Reversed(p, n) = 1 .. n /\ DOMAIN Reversed(q, Len(q)) = 1 .. Len(q)
    BY DEF Reversed
  <2> QED
    BY <1>1, <1>2, <2>1
<1>4. ASSUME NEW i \in 1 .. n
      PROVE  p[i] = q[i]
  <2>1. n + 1 - i \in 1 .. n /\ n + 1 - (n + 1 - i) = i
    BY <1>1
  <2>2. Reversed(p, n)[n + 1 - i] = Reversed(q, n)[n + 1 - i]
    BY <1>2, <1>3
  <2>3. Reversed(p, n)[n + 1 - i] = p[i] /\ Reversed(q, n)[n + 1 - i] = q[i]
    BY <2>1 DEF Reversed
  <2> QED
    BY <2>2, <2>3
<1>5. p = q
  BY <1>1, <1>3, <1>4, SeqEqual
<1> QED
  BY <1>5, PiecesAssumption

\* Two host names, or one and none, have different instances.
LEMMA InstanceNamesApart ==
  ASSUME NEW h \in Hosts, NEW k \in Hosts \cup {Unset}, h # k
  PROVE  InstanceName(h) # InstanceName(k)
<1>1. CASE k # Unset
  BY <1>1, PiecesAssumption, ReverseDNSNameInjective DEF InstanceName
<1>2. CASE k = Unset
  <2> DEFINE p == Pieces[h]
  <2>1. p \in Seq(Nat) /\ p # <<Fedbox>>
    BY PiecesAssumption
  <2>2. SUFFICES ASSUME Reversed(p, Len(p)) = <<Fedbox>>
                 PROVE  FALSE
    BY <1>2, ReverseDNSNameReverses DEF InstanceName
  <2>3. Len(p) = 1
    <3>1. DOMAIN Reversed(p, Len(p)) = 1 .. Len(p) /\ DOMAIN <<Fedbox>> = 1 .. 1
      BY DEF Reversed
    <3> QED
      BY <2>1, <2>2, <3>1
  <2>4. p[1] = Fedbox
    BY <2>2, <2>3 DEF Reversed
  <2>5. p = <<p[1]>>
    BY <2>1, <2>3
  <2> QED
    BY <2>1, <2>4, <2>5
<1> QED
  BY <1>1, <1>2

-----------------------------------------------------------------------------
(* Files and the environment *)

\* What loading finds, in order, is a list of files.
LEMMA FindConfigsFindsFiles ==
  ASSUME NEW dir \in Dirs, NEW type
  PROVE  FindConfigs(dir, type) \in Seq(Files)
<1>1. CASE type \in EnvTypes
  BY <1>1 DEF FindConfigs, Files
<1>2. CASE type \notin EnvTypes
  <2>1. Len(TypeOrder) \in Nat /\ 2 * Len(TypeOrder) \in Nat
    OBVIOUS
  <2>2. ASSUME NEW i \in 1 .. 2 * Len(TypeOrder)
        PROVE  <<dir, IF i % 2 = 1 THEN "common" ELSE TypeOrder[i \div 2]>> \in Files
    <3>1. i % 2 # 1 => i \div 2 \in 1 .. Len(TypeOrder)
      BY <2>1
    <3>2. i % 2 # 1 => TypeOrder[i \div 2] \in EnvTypes
      BY <3>1 DEF EnvTypes
    <3> QED
      BY <3>2 DEF Files
  <2> QED
    BY <1>2, <2>1, <2>2 DEF FindConfigs
<1> QED
  BY <1>1, <1>2

\* Of each variable: no file of the list sets it and it stays, or it gets what
\* one of them says.
LEMMA OverloadSets ==
  ASSUME NEW e, NEW fs \in Seq(Files), NEW n \in Names
  PROVE  \/ /\ \A i \in DOMAIN fs : files[fs[i]][n] = Unset
            /\ Overload(e, fs)[n] = e[n]
         \/ /\ \E i \in DOMAIN fs : files[fs[i]][n] # Unset
            /\ \E i \in DOMAIN fs : /\ files[fs[i]][n] # Unset
                                    /\ \A d : Overload(d, fs)[n] = files[fs[i]][n]
<1> DEFINE sets == {i \in DOMAIN fs : files[fs[i]][n] # Unset}
<1>1. \A d : Overload(d, fs)[n] = IF sets = {} THEN d[n] ELSE files[fs[Max(sets)]][n]
  BY DEF Overload
<1>2. sets # {} => Max(sets) \in sets
  <2>1. Len(fs) \in Nat /\ sets \in SUBSET (1 .. Len(fs))
    OBVIOUS
  <2> HIDE DEF sets
  <2> QED
    BY <2>1, MaxOfPlaces
<1>3. CASE sets = {}
  BY <1>1, <1>3
<1>4. CASE sets # {}
  <2>1. PICK i \in DOMAIN fs : i = Max(sets) /\ files[fs[i]][n] # Unset
    BY <1>2, <1>4
  <2> HIDE DEF sets
  <2>2. \A d : Overload(d, fs)[n] = files[fs[i]][n]
    BY <1>1, <1>4, <2>1
  <2> QED
    BY <2>1, <2>2
<1> QED
  BY <1>3, <1>4

LEMMA OverloadValue ==
  ASSUME NEW e, NEW fs \in Seq(Files), NEW n \in Names
  PROVE  \/ Overload(e, fs)[n] = e[n]
         \/ \E f \in Files : files[f][n] # Unset /\ Overload(e, fs)[n] = files[f][n]
<1>1. \A i \in DOMAIN fs : fs[i] \in Files
  OBVIOUS
<1>2. CASE \E i \in DOMAIN fs : /\ files[fs[i]][n] # Unset
                                /\ \A d : Overload(d, fs)[n] = files[fs[i]][n]
  <2>1. PICK i \in DOMAIN fs : /\ files[fs[i]][n] # Unset
                              /\ \A d : Overload(d, fs)[n] = files[fs[i]][n]
    BY <1>2
  <2>2. Overload(e, fs)[n] = files[fs[i]][n]
    BY <2>1
  <2> QED
    BY <1>1, <2>1, <2>2
<1> QED
  BY <1>2, OverloadSets

\* The environment of a process: text, and proper
Environment(e) == e \in [Names -> Values] /\ \A n \in Names : Proper(n, e[n])

\* Loading files that are proper into an environment gives one.
LEMMA OverloadIsEnvironment ==
  ASSUME TypeOK, SettingsProper, NEW e, Environment(e), NEW fs \in Seq(Files)
  PROVE  Environment(Overload(e, fs))
<1>1. ASSUME NEW n \in Names
      PROVE  Overload(e, fs)[n] \in Values /\ Proper(n, Overload(e, fs)[n])
  <2>1. \A f \in Files : files[f][n] \in Values \cup {Unset} /\ Proper(n, files[f][n])
    BY DEF TypeOK, SettingsProper
  <2>2. \/ Overload(e, fs)[n] = e[n]
        \/ \E f \in Files : files[f][n] # Unset /\ Overload(e, fs)[n] = files[f][n]
    BY OverloadValue
  <2> QED
    BY <2>1, <2>2 DEF Environment
<1>2. Overload(e, fs) = [n \in Names |-> Overload(e, fs)[n]]
  BY DEF Overload
<1> QED
  BY <1>1, <1>2 DEF Environment

\* Loading never unsets a variable.
LEMMA OverloadKeeps ==
  ASSUME NEW e, NEW fs \in Seq(Files), NEW n \in Names, e[n] # Unset
  PROVE  Overload(e, fs)[n] # Unset
<1>1. \/ Overload(e, fs)[n] = e[n]
      \/ \E f \in Files : files[f][n] # Unset /\ Overload(e, fs)[n] = files[f][n]
  BY OverloadValue
<1> QED
  BY <1>1

\* Loading the same files twice is loading them once.
LEMMA OverloadTwice ==
  ASSUME NEW e, NEW fs \in Seq(Files)
  PROVE  Overload(Overload(e, fs), fs) = Overload(e, fs)
<1> DEFINE once == Overload(e, fs)
           twice == Overload(once, fs)
<1>1. \A n \in Names : twice[n] = once[n]
  BY OverloadSets
<1>2. once = [n \in Names |-> once[n]] /\ twice = [n \in Names |-> twice[n]]
  BY DEF Overload
<1> QED
  BY <1>1, <1>2


-----------------------------------------------------------------------------
(* Options *)

\* The assumptions as facts about single values
LEMMA WhatOperatorsSet ==
  /\ \A s \in Settings : s[1] \in Names /\ s[2] \in Values /\ Proper(s[1], s[2])
  /\ \A l \in Launches : Environment(l)
  /\ \A l \in Layouts : /\ l \in [Files -> [Names -> Values \cup {Unset}]]
                        /\ \A f \in Files, n \in Names : Proper(n, l[f][n])
<1>1. \A x : x \in Values <=>
        \/ \E s \in Settings : x = s[2]
        \/ \E l \in Launches, n \in Names : x = l[n]
        \/ \E l \in Layouts, f \in Files, n \in Names : x = l[f][n]
  <2>1. \A x : x \in UNION {{l[n] : n \in Names} : l \in Launches} <=>
                \E l \in Launches, n \in Names : x = l[n]
    OBVIOUS
  <2>2. \A x : x \in UNION {{l[f][n] : f \in Files, n \in Names} : l \in Layouts} <=>
                \E l \in Layouts, f \in Files, n \in Names : x = l[f][n]
    OBVIOUS
  <2>3. \A x : x \in {s[2] : s \in Settings} <=> \E s \in Settings : x = s[2]
    OBVIOUS
  <2> QED
    BY <2>1, <2>2, <2>3 DEF Values
<1>2. ASSUME NEW s \in Settings
      PROVE  s[1] \in Names /\ s[2] \in Values /\ Proper(s[1], s[2])
  BY <1>1, SettingsAssumption
<1>3. ASSUME NEW l \in Launches
      PROVE  Environment(l)
  <2>1. l \in [Names -> STRING] /\ \A n \in Names : Proper(n, l[n])
    BY LaunchesAssumption
  <2>2. \A n \in Names : l[n] \in Values
    BY <1>1
  <2> QED
    BY <2>1, <2>2 DEF Environment
<1>4. ASSUME NEW l \in Layouts
      PROVE  /\ l \in [Files -> [Names -> Values \cup {Unset}]]
             /\ \A f \in Files, n \in Names : Proper(n, l[f][n])
  <2>1. l \in [Files -> [Names -> STRING]] /\ \A f \in Files, n \in Names : Proper(n, l[f][n])
    BY LayoutsAssumption
  <2>2. \A f \in Files, n \in Names : l[f][n] \in Values
    BY <1>1
  <2>3. \A f \in Files : l[f] \in [Names -> Values \cup {Unset}]
    BY <2>1, <2>2
  <2> QED
    BY <2>1, <2>3
<1> QED
  BY <1>2, <1>3, <1>4

LEMMA NamesOfVars ==
  ASSUME NEW v \in Vars
  PROVE  <<Unset, v>> \in Names /\ <<"FEDBOX_", v>> \in Names
BY DEF Names

\* The value of a variable is one that an operator has set, or the default.
LEMMA GetvalIsSet ==
  ASSUME NEW e, Environment(e), NEW v \in Vars, NEW default
  PROVE  \/ /\ Getval(e, v, Unset) = Unset
            /\ Getval(e, v, default) = default
         \/ /\ Getval(e, v, Unset) \in Values \ {Unset}
            /\ Getval(e, v, default) = Getval(e, v, Unset)
BY NamesOfVars DEF Getval, Environment

LEMMA GetvalIsProper ==
  ASSUME NEW e, Environment(e)
  PROVE  Getval(e, "HOSTNAME", Unset) \in Hosts \cup {Unset}
<1>1. "HOSTNAME" \in Vars
  BY DEF Vars
<1>2. /\ Proper(<<Unset, "HOSTNAME">>, e[<<Unset, "HOSTNAME">>])
      /\ Proper(<<"FEDBOX_", "HOSTNAME">>, e[<<"FEDBOX_", "HOSTNAME">>])
  BY <1>1, NamesOfVars DEF Environment
<1> QED
  BY <1>2 DEF Getval, Proper

\* Loading from an environment gives options; a storage and an environment type
\* always, and a port that is configured or one of those given.
LEMMA LoadFromEnvIsTyped ==
  ASSUME NEW o \in Options, NEW e, Environment(e), NEW port \in Ports
  PROVE  /\ LoadFromEnv(o, e, port) \in Options
         /\ LoadFromEnv(o, e, port).env \in (Values \cup {"dev"}) \ {Unset}
         /\ LoadFromEnv(o, e, port).storage \in (Values \cup {"fs"}) \ {Unset}
         /\ LoadFromEnv(o, e, port).port \in (Ports \cup Values) \ {Unset}
<1> DEFINE new == LoadFromEnv(o, e, port)
<1>1. {"ENV", "HOSTNAME", "STORAGE", "STORAGE_PATH", "CERT_PATH", "HTTP_PORT"} \subseteq Vars
  BY DEF Vars
<1>2. Getval(e, "ENV", "dev") \in (Values \cup {"dev"}) \ {Unset}
  BY <1>1, GetvalIsSet DEF Unset
<1>3. Getval(e, "STORAGE", "fs") \in (Values \cup {"fs"}) \ {Unset}
  BY <1>1, GetvalIsSet DEF Unset
<1>4. HTTPPort(e, port) \in (Ports \cup Values) \ {Unset}
  BY <1>1, GetvalIsSet, PortsAssumption DEF HTTPPort
<1>5. Getval(e, "STORAGE_PATH", Unset) \in Values \cup {Unset}
  BY <1>1, GetvalIsSet
<1>6. Getval(e, "CERT_PATH", Unset) \in Values \cup {Unset}
  BY <1>1, GetvalIsSet
<1>8. Hostname(o, e) \in Hosts \cup {Unset}
  BY GetvalIsProper DEF Hostname, Options
<1>9. /\ new.env = Getval(e, "ENV", "dev") /\ new.storage = Getval(e, "STORAGE", "fs")
      /\ new.port = HTTPPort(e, port)
  BY DEF LoadFromEnv
<1>10. new \in Options
  <2> DEFINE secure == Getval(e, "HTTPS", "false") = "true"
             base == IF Hostname(o, e) # Unset THEN <<secure, Hostname(o, e)>> ELSE o.base
             env == Getval(e, "ENV", "dev")
             storage == Getval(e, "STORAGE", "fs")
             path == Getval(e, "STORAGE_PATH", Unset)
             cert == Getval(e, "CERT_PATH", Unset)
             some == HTTPPort(e, port)
             host == Hostname(o, e)
  <2>1. secure \in BOOLEAN
    OBVIOUS
  <2>2. base \in BOOLEAN \X (Hosts \cup {Unset})
    BY <1>8, <2>1 DEF Options
  <2>3. /\ env \in Values \cup EnvTypes \cup {"dev", Unset}
        /\ storage \in Values \cup {"fs", Unset}
        /\ path \in Values \cup Dirs \cup {Unset} /\ cert \in Values \cup {Unset}
        /\ some \in Ports \cup Values \cup {Unset}
    BY <1>2, <1>3, <1>4, <1>5, <1>6
  <2>4. new = [env |-> env, hostname |-> host, secure |-> secure, base |-> base,
               storage |-> storage, path |-> path, cert |-> cert, port |-> some]
    BY DEF LoadFromEnv
  <2> HIDE DEF secure, base, env, storage, path, cert, some, host, new
  <2> QED
    BY <1>8, <2>1, <2>2, <2>3, <2>4 DEF Options, host
<1> QED
  BY <1>2, <1>3, <1>4, <1>9, <1>10

\* The first of some places in a list, and the list before it
LEMMA MinOfPlaces ==
  ASSUME NEW S \in SUBSET Nat, S # {}
  PROVE  Min(S) \in S
<1> DEFINE R == OpToRel(<, Nat)
<1>1. \A i, j \in Nat : i < j => <<i, j>> \in R
  BY DEF OpToRel
<1>2. PICK k \in S : \A m \in S : ~(<<m, k>> \in R)
  <2>1. IsWellFoundedOn(R, Nat)
    BY NatLessThanWellFounded DEF R
  <2> HIDE DEF R
  <2> QED
    BY <2>1, WFMin
<1> HIDE DEF R
<1>3. \A m \in S : k <= m
  <2>1. ASSUME NEW m \in S
        PROVE  k <= m
    <3>1. ~(m < k) /\ m \in Nat /\ k \in Nat
      BY <1>1, <1>2
    <3> QED
      BY <3>1
  <2> QED
    BY <2>1
<1> QED
  BY <1>2, <1>3 DEF Min

LEMMA FilesBefore ==
  ASSUME NEW fs \in Seq(Files), NEW S \in SUBSET DOMAIN fs, S # {}
  PROVE  SubSeq(fs, 1, Min(S) - 1) \in Seq(Files)
<1>1. Min(S) \in 1 .. Len(fs)
  <2>1. S \in SUBSET Nat
    OBVIOUS
  <2> QED
    <3>1. Min(S) \in S
      BY <2>1, MinOfPlaces
    <3> QED
      BY <3>1
<1>2. 1 \in 1 .. Len(fs) + 1 /\ Min(S) - 1 \in 1 - 1 .. Len(fs)
  BY <1>1
<1> HIDE DEF Files
<1> QED
  BY <1>2, SubSeqProperties

\* The type for which a load finds files
LoadType(o, e) == IF o.env \in EnvTypes THEN o.env ELSE Getval(e, "ENV", Unset)

\* What a load does: it fails, having set some variables and, of the options,
\* the type, or everything found is in the environment and all options are
\* taken from there.
Outcome(loaded, o, dir, e, port) ==
  /\ Environment(loaded.environ)
  /\ \A n \in Names : e[n] # Unset => loaded.environ[n] # Unset
  /\ loaded.used.dir = dir /\ loaded.used.type = LoadType(o, e)
  /\ \/ /\ ~loaded.used.ok /\ broken # {}
        /\ loaded.conf = [o EXCEPT !.env = LoadType(o, e)]
     \/ /\ loaded.environ = Overload(e, FindConfigs(dir, LoadType(o, e)))
        /\ loaded.conf = LoadFromEnv(o, loaded.environ, port)

LEMMA LoadOutcome ==
  ASSUME TypeOK, SettingsProper, NEW o \in Options, NEW dir \in Dirs, NEW e, Environment(e),
         NEW port \in Ports
  PROVE  Outcome(Load(o, dir, e, port), o, dir, e, port)
<1> DEFINE found == FindConfigs(dir, LoadType(o, e))
           loaded == Load(o, dir, e, port)
           bad == {i \in DOMAIN found : found[i] \in broken}
           read == IF bad = {} THEN found ELSE SubSeq(found, 1, Min(bad) - 1)
           new == IF bad = {} THEN LoadFromEnv(o, Overload(e, read), port)
                              ELSE [o EXCEPT !.env = LoadType(o, e)]
<1>1. loaded = [conf |-> new, environ |-> Overload(e, read),
                used |-> [dir |-> dir, type |-> LoadType(o, e),
                          ok |-> bad = {} /\ ValidOptions(new, Overload(e, read))]]
  BY DEF Load, LoadType
<1>2. found \in Seq(Files)
  BY FindConfigsFindsFiles
<1>3. read \in Seq(Files)
  <2> HIDE DEF found
  <2>1. bad \in SUBSET DOMAIN found
    OBVIOUS
  <2> HIDE DEF bad
  <2> QED
    BY <1>2, <2>1, FilesBefore
<1> HIDE DEF loaded, found, read
<1>4. Environment(Overload(e, read))
  BY <1>3, OverloadIsEnvironment
<1>5. \A n \in Names : e[n] # Unset => Overload(e, read)[n] # Unset
  BY <1>3, OverloadKeeps
<1>6. CASE bad = {}
  BY <1>1, <1>4, <1>5, <1>6 DEF Outcome, loaded, found, read
<1>7. CASE bad # {}
  <2>1. broken # {}
    BY <1>7
  <2>2. ~loaded.used.ok
    BY <1>1, <1>7
  <2>3. loaded.conf = [o EXCEPT !.env = LoadType(o, e)]
    BY <1>1, <1>7
  <2>4. /\ loaded.environ = Overload(e, read)
        /\ loaded.used.dir = dir /\ loaded.used.type = LoadType(o, e)
    BY <1>1
  <2> QED
    BY <1>4, <1>5, <2>1, <2>2, <2>3, <2>4 DEF Outcome, loaded
<1> QED
  BY <1>6, <1>7


-----------------------------------------------------------------------------
(* A start *)

LEMMA WhatIsGiven ==
  ASSUME SettingsProper
  PROVE  /\ Environment(launch)
         /\ Path \in Dirs \cup {Unset} /\ StartDir \in Dirs
         /\ cli.env \in EnvTypes /\ InitControl \in Options
<1>1. /\ cli.env \in EnvTypes /\ cli.host \in Hosts \cup {Unset} /\ cli.secure \in BOOLEAN
      /\ cli.path \in Dirs \cup {Unset}
  BY CommandAssumption DEF SettingsProper
<1>2. Environment(launch)
  BY WhatOperatorsSet DEF SettingsProper
<1>3. launch[<<Unset, "STORAGE_PATH">>] \in Dirs \cup {Unset}
  <2>1. <<Unset, "STORAGE_PATH">> \in Names
    BY NamesOfVars DEF Vars
  <2>2. Proper(<<Unset, "STORAGE_PATH">>, launch[<<Unset, "STORAGE_PATH">>])
    BY <1>2, <2>1 DEF Environment
  <2> QED
    BY <2>2 DEF Proper
<1>4. Path \in Dirs \cup {Unset} /\ StartDir \in Dirs
  BY <1>1, <1>3 DEF Path, StartDir, Dirs
<1>5. InitControl \in Options
  BY <1>1, <1>4 DEF InitControl, Options
<1> QED
  BY <1>1, <1>2, <1>4, <1>5

\* What a start loads into the environment
Loaded == Overload(launch, FindConfigs(StartDir, cli.env))

\* A process that starts has loaded all files for the type of the command line
\* and has the options that are in its environment then.  A server has them
\* too, but for HTTPS without a certificate.
LEMMA StartOutcome ==
  ASSUME TypeOK, SettingsProper, NEW port \in Ports, Starts(NewProcess(port))
  PROVE  LET new == NewServer(port)
             fresh == LoadFromEnv(InitControl, Loaded, port)
         IN /\ Environment(Loaded) /\ new.environ = Loaded
            /\ new.used.dir = StartDir /\ new.used.type = cli.env /\ new.used.ok
            /\ new.conf \in Options
            /\ fresh.secure \in BOOLEAN
            /\ new.conf.secure = (fresh.secure /\ new.conf.cert # Unset)
            /\ Path = Unset => new.conf.path = fresh.path
            /\ new.conf.env = fresh.env /\ new.conf.storage = fresh.storage
            /\ new.conf.port = fresh.port /\ new.conf.cert = fresh.cert
            /\ new.conf.base = fresh.base /\ new.conf.hostname = fresh.hostname
            /\ NewProcess(port).conf.hostname = fresh.hostname
            /\ fresh.hostname = HostnameAtStart
            /\ fresh.env \in (Values \cup {"dev"}) \ {Unset}
            /\ fresh.storage \in (Values \cup {"fs"}) \ {Unset}
            /\ fresh.port \in (Ports \cup Values) \ {Unset}
<1> DEFINE loaded == Load(InitControl, StartDir, launch, port)
           fresh == LoadFromEnv(InitControl, Loaded, port)
           process == NewProcess(port)
           new == NewServer(port)
<1>1. /\ Environment(launch) /\ Path \in Dirs \cup {Unset} /\ StartDir \in Dirs
      /\ cli.env \in EnvTypes /\ InitControl \in Options
  BY WhatIsGiven
<1>2. LoadType(InitControl, launch) = cli.env
  BY <1>1 DEF LoadType, InitControl
<1>3. process = [loaded EXCEPT !.conf.path = IF @ = Unset THEN Path ELSE @]
      /\ process.used = loaded.used /\ process.environ = loaded.environ
      /\ process.conf = [loaded.conf EXCEPT !.path = IF @ = Unset THEN Path ELSE @]
  BY DEF NewProcess, Load
<1>4. /\ new.used = process.used /\ new.environ = process.environ
      /\ new.conf = [process.conf EXCEPT !.secure = @ /\ process.conf.cert # Unset]
  BY <1>3 DEF NewServer, InitHttpServer, Load
<1>5. loaded.used.ok
  BY <1>3 DEF Starts
<1>6. /\ Environment(loaded.environ)
      /\ loaded.used.dir = StartDir /\ loaded.used.type = cli.env
      /\ loaded.environ = Loaded
      /\ loaded.conf = LoadFromEnv(InitControl, loaded.environ, port)
  <2>1. /\ Environment(loaded.environ)
        /\ loaded.used.dir = StartDir /\ loaded.used.type = LoadType(InitControl, launch)
        /\ \/ ~loaded.used.ok
           \/ /\ loaded.environ =
                    Overload(launch, FindConfigs(StartDir, LoadType(InitControl, launch)))
              /\ loaded.conf = LoadFromEnv(InitControl, loaded.environ, port)
    <3>1. Outcome(loaded, InitControl, StartDir, launch, port)
      BY <1>1, LoadOutcome
    <3> HIDE DEF loaded
    <3> QED
      BY <3>1 DEF Outcome
  <2> HIDE DEF loaded
  <2> QED
    BY <1>2, <1>5, <2>1 DEF Loaded
<1>7. loaded.conf = fresh
  BY <1>6
<1>8. /\ fresh \in Options
      /\ fresh.env \in (Values \cup {"dev"}) \ {Unset}
      /\ fresh.storage \in (Values \cup {"fs"}) \ {Unset}
      /\ fresh.port \in (Ports \cup Values) \ {Unset}
  BY <1>1, <1>6, LoadFromEnvIsTyped
<1>9. fresh.hostname = HostnameAtStart
  BY DEF LoadFromEnv, HostnameAtStart, Loaded
<1> HIDE DEF loaded, fresh, process, new
<1>10. process.conf = [fresh EXCEPT !.path = IF @ = Unset THEN Path ELSE @]
  BY <1>3, <1>7
<1>11. /\ process.conf \in Options
       /\ process.conf.hostname = fresh.hostname /\ process.conf.env = fresh.env
       /\ process.conf.storage = fresh.storage /\ process.conf.port = fresh.port
       /\ process.conf.cert = fresh.cert /\ process.conf.base = fresh.base
       /\ process.conf.secure = fresh.secure
       /\ Path = Unset => process.conf.path = fresh.path
  BY <1>1, <1>8, <1>10 DEF Options
<1>12. /\ new.conf \in Options
       /\ new.conf.hostname = process.conf.hostname /\ new.conf.env = process.conf.env
       /\ new.conf.storage = process.conf.storage /\ new.conf.port = process.conf.port
       /\ new.conf.cert = process.conf.cert /\ new.conf.base = process.conf.base
       /\ new.conf.secure = (process.conf.secure /\ process.conf.cert # Unset)
       /\ new.conf.path = process.conf.path
  BY <1>4, <1>11 DEF Options
<1>13. fresh.secure \in BOOLEAN
  BY <1>8 DEF Options
<1> QED
  BY <1>3, <1>4, <1>5, <1>6, <1>8, <1>9, <1>11, <1>12, <1>13 DEF fresh, new, process, loaded


-----------------------------------------------------------------------------
(* The invariant *)

\* After a reload: nothing but the type of the options has changed, or they
\* are those in the environment.
LEMMA ReloadOutcome ==
  ASSUME TypeOK, SettingsProper, Reload
  PROVE  /\ Environment(environ') /\ conf' \in Options
         /\ \A n \in Names : environ[n] # Unset => environ'[n] # Unset
         /\ used'.dir = "." /\ used'.type = LoadType(conf, environ)
         /\ \/ /\ ~used'.ok /\ conf'.env = LoadType(conf, environ)
               /\ conf'.hostname = conf.hostname /\ conf'.base = conf.base
               /\ conf'.storage = conf.storage /\ conf'.port = conf.port
            \/ /\ environ' = Overload(environ, FindConfigs(".", used'.type))
               /\ \E port \in Ports :
                    /\ conf' = LoadFromEnv(conf, environ', port)
                    /\ conf'.env \in (Values \cup {"dev"}) \ {Unset}
                    /\ conf'.storage \in (Values \cup {"fs"}) \ {Unset}
                    /\ conf'.port \in (Ports \cup Values) \ {Unset}
<1>1. PICK port \in Ports : Adopt(Load(conf, ".", environ, port))
  BY DEF Reload
<1> DEFINE loaded == Load(conf, ".", environ, port)
           type == LoadType(conf, environ)
<1>2. conf' = loaded.conf /\ environ' = loaded.environ /\ used' = loaded.used
  BY <1>1 DEF Adopt
<1>3. conf \in Options /\ "." \in Dirs /\ Environment(environ)
  BY DEF TypeOK, SettingsProper, Environment, Dirs
<1>4. Outcome(loaded, conf, ".", environ, port)
  BY <1>3, LoadOutcome
<1>5. type \in Values \cup EnvTypes \cup {Unset}
  BY <1>3, GetvalIsSet DEF LoadType, Vars
<1> HIDE DEF loaded, type
<1>6. /\ Environment(environ') /\ used'.dir = "." /\ used'.type = type
      /\ \A n \in Names : environ[n] # Unset => environ'[n] # Unset
  BY <1>2, <1>4 DEF Outcome, type
<1>7. CASE ~loaded.used.ok /\ loaded.conf = [conf EXCEPT !.env = type]
  <2>1. /\ conf'.env = type /\ conf'.hostname = conf.hostname /\ conf'.base = conf.base
        /\ conf'.storage = conf.storage /\ conf'.port = conf.port /\ conf' \in Options
    BY <1>2, <1>3, <1>5, <1>7 DEF Options
  <2>2. ~used'.ok
    BY <1>2, <1>7
  <2> QED
    BY <1>6, <2>1, <2>2 DEF type
<1>8. CASE /\ loaded.environ = Overload(environ, FindConfigs(".", type))
           /\ loaded.conf = LoadFromEnv(conf, loaded.environ, port)
  <2>1. conf' = LoadFromEnv(conf, environ', port)
    BY <1>2, <1>8
  <2>2. environ' = Overload(environ, FindConfigs(".", used'.type))
    BY <1>2, <1>6, <1>8
  <2>3. /\ conf' \in Options /\ conf'.env \in (Values \cup {"dev"}) \ {Unset}
        /\ conf'.storage \in (Values \cup {"fs"}) \ {Unset}
        /\ conf'.port \in (Ports \cup Values) \ {Unset}
    BY <1>3, <1>6, <2>1, LoadFromEnvIsTyped
  <2> QED
    BY <1>6, <2>1, <2>2, <2>3 DEF type
<1> QED
  BY <1>4, <1>7, <1>8 DEF Outcome, type

\* After a start the options are those in the environment.
LEMMA StartStep ==
  ASSUME TypeOK, SettingsProper, Start
  PROVE  \E port \in Ports :
           LET new == NewServer(port) IN
           /\ Starts(NewProcess(port))
           /\ conf' = new.conf /\ environ' = new.environ /\ used' = new.used /\ begun' = new.conf
           /\ pending' = {} /\ edited' = {} /\ server' = TRUE
           /\ UNCHANGED <<files, broken, launch, cli, edits>>
BY DEF Start, Adopt, operatorVars

\* What Spec starts from
LEMMA InitConfigInv ==
  ASSUME Init
  PROVE  TypeOK /\ ConfigInv
<1>1. server = FALSE /\ broken = {} /\ environ = launch /\ conf = InitControl
  BY DEF Init
<1>2. SettingsProper
  <2>1. Environment(launch) /\ \A f \in Files, n \in Names : Proper(n, files[f][n])
    BY WhatOperatorsSet DEF Init
  <2> QED
    BY <2>1 DEF Init, SettingsProper, Environment
<1>3. TypeOK
  <2>1. files \in [Files -> [Names -> Values \cup {Unset}]]
    BY WhatOperatorsSet DEF Init
  <2>2. environ \in [Names -> Values] /\ conf \in Options
    BY <1>1, <1>2, WhatIsGiven DEF Environment
  <2> QED
    BY <1>1, <2>1, <2>2 DEF TypeOK
<1> QED
  BY <1>1, <1>2, <1>3 DEF ConfigInv, TypeStays, NameStays, LoadIsCurrent

LEMMA StepTypeOK ==
  ASSUME TypeOK, ConfigInv, Next
  PROVE  TypeOK'
<1>0. SettingsProper /\ TypeStays
  BY DEF ConfigInv
<1>1. ASSUME NEW f \in Files, NEW n \in Names, NEW value \in Values \cup {Unset},
             Edit(f, n, value)
      PROVE  TypeOK'
  BY <1>1 DEF Edit, Touch, TypeOK
<1>2. ASSUME NEW s \in Settings
      PROVE  s[1] \in Names /\ s[2] \in Values
  BY WhatOperatorsSet
<1>3. ASSUME NEW f \in Files, Break(f)
      PROVE  TypeOK'
  BY <1>3 DEF Break, Touch, TypeOK
<1>4. CASE Start
  <2>1. PICK port \in Ports : LET new == NewServer(port) IN
           /\ Starts(NewProcess(port))
           /\ conf' = new.conf /\ environ' = new.environ /\ used' = new.used /\ begun' = new.conf
           /\ pending' = {} /\ edited' = {} /\ server' = TRUE
           /\ UNCHANGED <<files, broken, launch, cli, edits>>
    BY <1>0, <1>4, StartStep
  <2>2. /\ environ' \in [Names -> Values] /\ conf' \in Options
        /\ conf'.env \in (Values \cup {"dev"}) \ {Unset}
        /\ conf'.storage \in (Values \cup {"fs"}) \ {Unset}
        /\ conf'.port \in (Ports \cup Values) \ {Unset}
    BY <1>0, <2>1, StartOutcome DEF Environment
  <2> QED
    BY <2>1, <2>2 DEF TypeOK
<1>5. CASE Reload
  <2>1. server /\ server' = server /\ files' = files /\ broken' = broken
    BY <1>5 DEF Reload, Adopt
  <2>2. environ' \in [Names -> Values] /\ conf' \in Options
    BY <1>0, <1>5, ReloadOutcome DEF Environment
  <2>3. LoadType(conf, environ) \in (Values \cup {"dev"}) \ {Unset}
    <3>1. conf.env \in (Values \cup {"dev"}) \ {Unset}
      BY <2>1 DEF TypeOK
    <3>2. Environment(environ) /\ "ENV" \in Vars
      BY <1>0 DEF TypeOK, SettingsProper, Environment, Vars
    <3>3. conf.env \notin EnvTypes => Getval(environ, "ENV", Unset) \in Values \ {Unset}
      BY <1>0, <2>1, <3>2, GetvalIsSet DEF TypeStays
    <3> QED
      BY <3>1, <3>3 DEF LoadType
  <2>4. /\ conf'.env \in (Values \cup {"dev"}) \ {Unset}
        /\ conf'.storage \in (Values \cup {"fs"}) \ {Unset}
        /\ conf'.port \in (Ports \cup Values) \ {Unset}
    <3>1. /\ conf.storage \in (Values \cup {"fs"}) \ {Unset}
          /\ conf.port \in (Ports \cup Values) \ {Unset}
      BY <2>1 DEF TypeOK
    <3> QED
      BY <1>0, <1>5, <2>3, <3>1, ReloadOutcome
  <2> QED
    BY <2>1, <2>2, <2>4 DEF TypeOK
<1>6. CASE Stop
  <2>1. environ' = launch /\ conf' = InitControl' /\ server' = FALSE /\ InitControl' = InitControl
        /\ files' = files /\ broken' = broken
    BY <1>6 DEF Stop, operatorVars, InitControl, Path
  <2>2. environ' \in [Names -> Values] /\ conf' \in Options
    BY <1>0, <2>1, WhatIsGiven DEF Environment
  <2> QED
    BY <2>1, <2>2 DEF TypeOK
<1> QED
  BY <1>1, <1>2, <1>3, <1>4, <1>5, <1>6 DEF Next


\* The steps of operators
LEMMA OperatorSteps ==
  ASSUME Next
  PROVE  \/ \E f \in Files, n \in Names, value \in Values \cup {Unset} :
              Edit(f, n, value) /\ Proper(n, value)
         \/ \E f \in Files : Break(f)
         \/ Start \/ Reload \/ Stop
<1>1. ASSUME NEW f \in Files, NEW s \in Settings, Edit(f, s[1], s[2])
      PROVE  \E n \in Names, value \in Values \cup {Unset} :
               Edit(f, n, value) /\ Proper(n, value)
  BY <1>1, WhatOperatorsSet
<1>2. ASSUME NEW f \in Files, NEW s \in Settings, Edit(f, s[1], Unset)
      PROVE  \E n \in Names, value \in Values \cup {Unset} :
               Edit(f, n, value) /\ Proper(n, value)
  <2>1. s[1] \in Names /\ Proper(s[1], Unset)
    BY WhatOperatorsSet DEF Proper
  <2> QED
    BY <1>2, <2>1
<1> QED
  BY <1>1, <1>2 DEF Next

LEMMA StepSettingsProper ==
  ASSUME TypeOK, ConfigInv, Next
  PROVE  SettingsProper'
<1>0. SettingsProper
  BY DEF ConfigInv
<1>1. ASSUME NEW f \in Files, NEW n \in Names, NEW value, Edit(f, n, value), Proper(n, value)
      PROVE  SettingsProper'
  <2>1. ASSUME NEW m \in Names, NEW g \in Files
        PROVE  Proper(m, files'[g][m])
    <3>1. \/ files'[g][m] = files[g][m]
          \/ m = n /\ files'[g][m] = value
      BY <1>1 DEF Edit, TypeOK
    <3> QED
      BY <1>0, <1>1, <3>1 DEF SettingsProper
  <2>2. launch' = launch /\ cli' = cli /\ environ' = environ
    BY <1>1 DEF Edit, Touch, operatorVars
  <2> QED
    BY <1>0, <2>1, <2>2 DEF SettingsProper, Proper
<1>2. ASSUME NEW f \in Files, Break(f)
      PROVE  SettingsProper'
  <2>1. launch' = launch /\ cli' = cli /\ environ' = environ /\ files' = files
    BY <1>2 DEF Break, Touch, operatorVars
  <2> QED
    BY <1>0, <2>1 DEF SettingsProper, Proper
<1>3. ASSUME Environment(environ'), launch' = launch, cli' = cli, files' = files
      PROVE  SettingsProper'
  BY <1>0, <1>3 DEF SettingsProper, Proper, Environment
<1>4. CASE Start
  <2>1. Environment(environ')
    BY <1>0, <1>4, StartStep, StartOutcome
  <2> QED
    BY <1>3, <1>4, <2>1 DEF Start, Adopt, operatorVars
<1>5. CASE Reload
  <2>1. Environment(environ')
    BY <1>0, <1>5, ReloadOutcome
  <2> QED
    BY <1>3, <1>5, <2>1 DEF Reload, Adopt, operatorVars
<1>6. CASE Stop
  <2>1. Environment(environ')
    BY <1>0, <1>6, WhatIsGiven DEF Stop
  <2> QED
    BY <1>3, <1>6, <2>1 DEF Stop, operatorVars
<1> QED
  BY <1>1, <1>2, <1>4, <1>5, <1>6, OperatorSteps

LEMMA StepTypeStays ==
  ASSUME TypeOK, ConfigInv, Next
  PROVE  TypeStays'
<1>0. SettingsProper /\ TypeStays
  BY DEF ConfigInv
<1>1. ASSUME NEW e, Environment(e), Getval(e, "ENV", "dev") \notin EnvTypes
      PROVE  Getval(e, "ENV", Unset) # Unset
  BY <1>1, GetvalIsSet, TypesAssumption DEF Vars
<1>2. ASSUME NEW f \in Files, NEW n \in Names, NEW value, Edit(f, n, value)
      PROVE  TypeStays'
  BY <1>0, <1>2 DEF Edit, Touch, TypeStays, Getval
<1>3. ASSUME NEW f \in Files, Break(f)
      PROVE  TypeStays'
  BY <1>0, <1>3 DEF Break, Touch, TypeStays, Getval
<1>4. CASE Start
  <2>1. PICK port \in Ports : /\ environ' = Loaded /\ Environment(Loaded)
                              /\ conf'.env = LoadFromEnv(InitControl, Loaded, port).env
    BY <1>0, <1>4, StartStep, StartOutcome
  <2>2. conf'.env = Getval(environ', "ENV", "dev")
    BY <2>1 DEF LoadFromEnv
  <2> QED
    BY <1>1, <2>1, <2>2 DEF TypeStays, Getval
<1>5. CASE Reload
  <2>1. Environment(environ') /\ \A n \in Names : environ[n] # Unset => environ'[n] # Unset
    BY <1>0, <1>5, ReloadOutcome
  <2>2. CASE conf'.env = LoadType(conf, environ)
    <3>1. server
      BY <1>5 DEF Reload
    <3>2. conf'.env \notin EnvTypes => Getval(environ, "ENV", Unset) # Unset
      BY <1>0, <2>2, <3>1 DEF LoadType, TypeStays
    <3>3. Getval(environ, "ENV", Unset) # Unset => Getval(environ', "ENV", Unset) # Unset
      <4>1. "ENV" \in Vars
        BY DEF Vars
      <4> QED
        BY <2>1, <4>1, NamesOfVars DEF Getval
    <3> QED
      BY <3>2, <3>3 DEF TypeStays, Getval
  <2>3. CASE \E port \in Ports : conf' = LoadFromEnv(conf, environ', port)
    <3>1. conf'.env = Getval(environ', "ENV", "dev")
      BY <2>3 DEF LoadFromEnv
    <3> QED
      BY <1>1, <2>1, <3>1 DEF TypeStays, Getval
  <2> QED
    BY <1>0, <1>5, <2>2, <2>3, ReloadOutcome
<1>6. CASE Stop
  BY <1>6 DEF Stop, TypeStays
<1> QED
  BY <1>2, <1>3, <1>4, <1>5, <1>6, OperatorSteps


\* The host name of a start depends on nothing but the host names in the files.
LEMMA SameHostnameAtStart ==
  ASSUME SettingsProper, launch' = launch, cli' = cli,
         \A f \in Files, p \in {Unset, "FEDBOX_"} :
           files'[f][<<p, "HOSTNAME">>] = files[f][<<p, "HOSTNAME">>]
  PROVE  HostnameAtStart' = HostnameAtStart
<1> DEFINE fs == FindConfigs(StartDir, cli.env)
<1>1. InitControl' = InitControl /\ StartDir' = StartDir
  BY DEF InitControl, StartDir, Path
<1>2. fs \in Seq(Files)
  BY WhatIsGiven, FindConfigsFindsFiles
<1>3. FindConfigs(StartDir, cli.env)' = fs
  BY <1>1 DEF FindConfigs
<1> HIDE DEF fs
<1>4. ASSUME NEW p \in {Unset, "FEDBOX_"}
      PROVE  Loaded'[<<p, "HOSTNAME">>] = Loaded[<<p, "HOSTNAME">>]
  <2> DEFINE n == <<p, "HOSTNAME">>
  <2>1. n \in Names
    BY DEF Names, Vars
  <2>2. \A i \in DOMAIN fs : fs[i] \in Files
    BY <1>2
  <2>3. \A i \in DOMAIN fs : files'[fs[i]][n] = files[fs[i]][n]
    BY <2>2
  <2> HIDE DEF n
  <2>4. {i \in DOMAIN fs : files'[fs[i]][n] # Unset} = {i \in DOMAIN fs : files[fs[i]][n] # Unset}
    BY <2>3
  <2> DEFINE sets == {i \in DOMAIN fs : files[fs[i]][n] # Unset}
             sets1 == {i \in DOMAIN fs : files'[fs[i]][n] # Unset}
  <2>5. Loaded[n] = IF sets = {} THEN launch[n] ELSE files[fs[Max(sets)]][n]
    BY <2>1 DEF Loaded, Overload, fs
  <2>6. Loaded'[n] = IF sets1 = {} THEN launch[n] ELSE files'[fs[Max(sets1)]][n]
    BY <1>3, <2>1 DEF Loaded, Overload
  <2>7. sets # {} => Max(sets) \in DOMAIN fs
    <3>1. sets \in SUBSET (1 .. Len(fs)) /\ Len(fs) \in Nat
      BY <1>2
    <3> HIDE DEF sets
    <3>2. sets # {} => Max(sets) \in sets
      BY <3>1, MaxOfPlaces
    <3>3. DOMAIN fs = 1 .. Len(fs)
      BY <1>2
    <3>4. sets \subseteq DOMAIN fs
      BY <3>1, <3>3
    <3> QED
      BY <3>2, <3>4, Zenon
  <2> HIDE DEF sets, sets1
  <2>8. Loaded'[n] = Loaded[n]
    BY <2>3, <2>4, <2>5, <2>6, <2>7 DEF sets, sets1
  <2> QED
    BY <2>8 DEF n
<1>5. Loaded'[<<Unset, "HOSTNAME">>] = Loaded[<<Unset, "HOSTNAME">>]
      /\ Loaded'[<<"FEDBOX_", "HOSTNAME">>] = Loaded[<<"FEDBOX_", "HOSTNAME">>]
  BY <1>4
<1>6. HostnameAtStart = Hostname(InitControl, Loaded)
      /\ HostnameAtStart' = Hostname(InitControl', Loaded')
  BY DEF HostnameAtStart, Loaded
<1> QED
  BY <1>1, <1>5, <1>6 DEF Hostname, Getval

LEMMA StepNameStays ==
  ASSUME TypeOK, ConfigInv, Next
  PROVE  NameStays'
<1>0. SettingsProper /\ NameStays
  BY DEF ConfigInv
<1>1. ASSUME NEW f \in Files, NEW n \in Names, NEW value, Edit(f, n, value)
      PROVE  NameStays'
  <2>1. launch' = launch /\ cli' = cli /\ server' = server /\ conf' = conf /\ begun' = begun
        /\ edited' = IF server THEN edited \cup {n[2]} ELSE {}
    BY <1>1 DEF Edit, Touch, operatorVars
  <2>2. CASE n[2] = "HOSTNAME"
    BY <1>0, <2>1, <2>2 DEF NameStays
  <2>3. CASE n[2] # "HOSTNAME"
    <3>1. \A g \in Files, p \in {Unset, "FEDBOX_"} :
            files'[g][<<p, "HOSTNAME">>] = files[g][<<p, "HOSTNAME">>]
      <4>1. \A p : <<p, "HOSTNAME">> # n
        BY <2>3
      <4> QED
        BY <1>1, <4>1 DEF Edit, TypeOK
    <3>2. HostnameAtStart' = HostnameAtStart
      BY <1>0, <2>1, <3>1, SameHostnameAtStart
    <3> QED
      BY <1>0, <2>1, <3>2 DEF NameStays
  <2> QED
    BY <2>2, <2>3
<1>2. ASSUME NEW f \in Files, Break(f)
      PROVE  NameStays'
  <2>1. launch' = launch /\ cli' = cli /\ server' = server /\ conf' = conf /\ begun' = begun
        /\ edited' = (IF server THEN edited \cup {} ELSE {}) /\ files' = files
    BY <1>2 DEF Break, Touch, operatorVars
  <2>2. HostnameAtStart' = HostnameAtStart
    BY <1>0, <2>1, SameHostnameAtStart
  <2> QED
    BY <1>0, <2>1, <2>2 DEF NameStays
<1>3. CASE Start
  <2>1. /\ conf' = begun' /\ begun'.hostname = HostnameAtStart
        /\ launch' = launch /\ cli' = cli /\ files' = files
    BY <1>0, <1>3, StartStep, StartOutcome
  <2>2. HostnameAtStart' = HostnameAtStart
    BY <1>0, <2>1, SameHostnameAtStart
  <2> QED
    BY <2>1, <2>2 DEF NameStays
<1>4. CASE Reload
  <2>1. /\ launch' = launch /\ cli' = cli /\ files' = files /\ server' = server /\ server
        /\ begun' = begun /\ edited' = edited
    BY <1>4 DEF Reload, Adopt, operatorVars
  <2>2. HostnameAtStart' = HostnameAtStart
    BY <1>0, <2>1, SameHostnameAtStart
  <2>3. conf.hostname # Unset => conf'.hostname = conf.hostname
    <3>1. CASE conf'.hostname = conf.hostname
      BY <3>1
    <3>2. CASE \E port \in Ports : conf' = LoadFromEnv(conf, environ', port)
      BY <3>2 DEF LoadFromEnv, Hostname
    <3> QED
      BY <1>0, <1>4, <3>1, <3>2, ReloadOutcome
  <2> QED
    BY <1>0, <2>1, <2>2, <2>3 DEF NameStays
<1>5. CASE Stop
  BY <1>5 DEF Stop, NameStays
<1> QED
  BY <1>1, <1>2, <1>3, <1>4, <1>5, OperatorSteps


\* The options new are those in the environment e, but perhaps the host name.
Reads(new, e) ==
  LET secure == Getval(e, "HTTPS", "false") = "true" IN
  /\ new.env = Getval(e, "ENV", "dev") /\ new.storage = Getval(e, "STORAGE", "fs")
  /\ new.cert = Getval(e, "CERT_PATH", Unset)
  /\ new.path = Getval(e, "STORAGE_PATH", Unset)
  /\ new.secure = secure
  /\ new.hostname # Unset => new.base = <<secure, new.hostname>>
  /\ Getval(e, "HTTP_PORT", Unset) # Unset => new.port = Getval(e, "HTTP_PORT", Unset)

LEMMA LoadFromEnvReads ==
  ASSUME NEW o, NEW e, NEW port
  PROVE  /\ Reads(LoadFromEnv(o, e, port), e)
         /\ LoadFromEnv(o, e, port).hostname = Hostname(o, e)
         /\ Hostname(o, e) = Unset => LoadFromEnv(o, e, port).base = o.base
<1>1. Getval(e, "HTTP_PORT", Unset) # Unset => HTTPPort(e, port) = Getval(e, "HTTP_PORT", Unset)
  BY DEF HTTPPort, Getval
<1> QED
  BY <1>1 DEF LoadFromEnv, Reads

LEMMA StepLoadIsCurrent ==
  ASSUME TypeOK, ConfigInv, Next
  PROVE  LoadIsCurrent'
<1>0. SettingsProper /\ LoadIsCurrent
  BY DEF ConfigInv
<1>1. ASSUME launch' = launch, cli' = cli, server' = server, conf' = conf, environ' = environ,
             used' = used, ~server \/ pending' # {} \/ (files' = files /\ pending' = pending)
      PROVE  LoadIsCurrent'
  <2>1. InitControl' = InitControl /\ Path' = Path
    BY <1>1 DEF InitControl, Path
  <2>2. FindConfigs(used.dir, used.type)' = FindConfigs(used.dir, used.type)
    BY <1>1 DEF FindConfigs
  <2>3. files' = files => Overload(environ, FindConfigs(used.dir, used.type))'
                            = Overload(environ, FindConfigs(used.dir, used.type))
    BY <1>1, <2>2 DEF Overload
  <2> QED
    BY <1>0, <1>1, <2>1, <2>3 DEF LoadIsCurrent
<1>2. ASSUME NEW f \in Files, NEW n \in Names, NEW value, Edit(f, n, value)
      PROVE  LoadIsCurrent'
  BY <1>1, <1>2 DEF Edit, Touch, operatorVars
<1>3. ASSUME NEW f \in Files, Break(f)
      PROVE  LoadIsCurrent'
  <2>1. pending' = IF server THEN pending \cup {} ELSE {}
    BY <1>3 DEF Break, Touch
  <2> QED
    BY <1>1, <1>3, <2>1 DEF Break, Touch, operatorVars
<1>4. CASE Start
  <2>1. PICK port \in Ports : LET new == NewServer(port) IN
           /\ Starts(NewProcess(port))
           /\ conf' = new.conf /\ environ' = new.environ /\ used' = new.used /\ begun' = new.conf
           /\ pending' = {} /\ edited' = {} /\ server' = TRUE
           /\ UNCHANGED <<files, broken, launch, cli, edits>>
    BY <1>0, <1>4, StartStep
  <2> DEFINE fresh == LoadFromEnv(InitControl, Loaded, port)
             found == FindConfigs(StartDir, cli.env)
  <2>2. /\ Environment(environ') /\ environ' = Loaded
        /\ used'.dir = StartDir /\ used'.type = cli.env
        /\ conf' \in Options /\ fresh.secure \in BOOLEAN
        /\ conf'.secure = (fresh.secure /\ conf'.cert # Unset)
        /\ Path = Unset => conf'.path = fresh.path
        /\ conf'.env = fresh.env /\ conf'.storage = fresh.storage
        /\ conf'.port = fresh.port /\ conf'.cert = fresh.cert
        /\ conf'.base = fresh.base /\ conf'.hostname = fresh.hostname
    BY <1>0, <2>1, StartOutcome
  <2>3. InitControl' = InitControl /\ Path' = Path
    BY <2>1 DEF InitControl, Path
  <2>4. Overload(environ, FindConfigs(used.dir, used.type))' = environ'
    <3>1. found \in Seq(Files)
      BY <1>0, WhatIsGiven, FindConfigsFindsFiles
    <3> HIDE DEF found
    <3>2. Overload(Loaded, found) = Loaded
      BY <3>1, OverloadTwice DEF Loaded, found
    <3>3. Overload(environ, FindConfigs(used.dir, used.type))' = Overload(Loaded, found)
      <4>1. environ' = Loaded /\ FindConfigs(used.dir, used.type)' = found /\ files' = files
        BY <2>1, <2>2 DEF FindConfigs, found
      <4> QED
        BY <4>1 DEF Overload
    <3> QED
      BY <2>2, <3>2, <3>3
  <2>5. Reads(fresh, environ') /\ (fresh.hostname = Unset => fresh.base = InitControl.base)
    BY <2>2, LoadFromEnvReads
  <2> HIDE DEF fresh
  <2> QED
    BY <2>1, <2>2, <2>3, <2>4, <2>5 DEF LoadIsCurrent, Reads, Options
<1>5. CASE Reload
  <2>1. /\ launch' = launch /\ cli' = cli /\ files' = files /\ server' = server /\ server
        /\ pending' = {}
    BY <1>5 DEF Reload, Adopt, operatorVars
  <2>2. InitControl' = InitControl /\ Path' = Path
    BY <2>1 DEF InitControl, Path
  <2>3. CASE ~used'.ok /\ conf'.hostname = conf.hostname /\ conf'.base = conf.base
    BY <1>0, <2>1, <2>2, <2>3 DEF LoadIsCurrent
  <2>4. ASSUME NEW port \in Ports, conf' = LoadFromEnv(conf, environ', port),
               environ' = Overload(environ, FindConfigs(".", used'.type))
        PROVE  LoadIsCurrent'
    <3>1. Environment(environ') /\ used'.dir = "."
      BY <1>0, <1>5, ReloadOutcome
    <3>2. Overload(environ, FindConfigs(used.dir, used.type))' = environ'
      <4> DEFINE found == FindConfigs(".", used'.type)
      <4>1. found \in Seq(Files)
        BY FindConfigsFindsFiles DEF Dirs
      <4> HIDE DEF found
      <4>2. Overload(environ', found) = environ'
        BY <2>4, <4>1, OverloadTwice DEF found
      <4>3. Overload(environ, FindConfigs(used.dir, used.type))' = Overload(environ', found)
        <5>1. FindConfigs(used.dir, used.type)' = found /\ files' = files
          BY <2>1, <3>1 DEF FindConfigs, found
        <5> QED
          BY <5>1 DEF Overload
      <4> QED
        BY <4>2, <4>3
    <3>3. conf'.hostname = Unset => conf.hostname = Unset
      BY <2>4 DEF LoadFromEnv, Hostname
    <3>4. conf'.hostname = Unset => conf'.base = InitControl.base
      BY <1>0, <2>1, <2>4, <3>3 DEF LoadIsCurrent, LoadFromEnv
    <3>5. Reads(conf', environ')
      BY <2>4, LoadFromEnvReads
    <3> QED
      BY <2>1, <2>2, <3>2, <3>4, <3>5 DEF LoadIsCurrent, Reads
  <2> QED
    BY <1>0, <1>5, <2>3, <2>4, ReloadOutcome
<1>6. CASE Stop
  BY <1>6 DEF Stop, LoadIsCurrent
<1> QED
  BY <1>2, <1>3, <1>4, <1>5, <1>6, OperatorSteps


LEMMA StutterConfigInv ==
  ASSUME TypeOK, ConfigInv, UNCHANGED vars
  PROVE  (TypeOK /\ ConfigInv)'
<1>1. UNCHANGED <<files, broken, launch, cli, server, environ, conf, begun, edited, pending, used>>
  BY DEF vars, operatorVars
<1>2. InitControl' = InitControl /\ StartDir' = StartDir /\ Path' = Path
  BY <1>1 DEF InitControl, StartDir, Path
<1>3. TypeOK' /\ SettingsProper' /\ TypeStays'
  BY <1>1 DEF TypeOK, ConfigInv, SettingsProper, Proper, TypeStays, Getval
<1>4. NameStays'
  <2>1. HostnameAtStart' = HostnameAtStart
    BY <1>1, SameHostnameAtStart DEF ConfigInv
  <2> QED
    BY <1>1, <2>1 DEF ConfigInv, NameStays
<1>5. LoadIsCurrent'
  <2>1. FindConfigs(used.dir, used.type)' = FindConfigs(used.dir, used.type)
    BY <1>1 DEF FindConfigs
  <2>2. Overload(environ, FindConfigs(used.dir, used.type))'
          = Overload(environ, FindConfigs(used.dir, used.type))
    BY <1>1, <2>1 DEF Overload
  <2> QED
    BY <1>1, <1>2, <2>2 DEF ConfigInv, LoadIsCurrent
<1> QED
  BY <1>3, <1>4, <1>5 DEF ConfigInv

-----------------------------------------------------------------------------
(* What follows from it *)

LEMMA FindServer ==
  ASSUME TypeOK, ConfigInv
  PROVE  CommandsFindServer
<1> SUFFICES ASSUME NEW port \in Ports, server, begun.hostname # Unset,
                    "HOSTNAME" \notin edited, Starts(NewProcess(port))
             PROVE  NewProcess(port).conf.hostname = conf.hostname
  BY DEF CommandsFindServer
<1>1. NewProcess(port).conf.hostname = HostnameAtStart
  BY StartOutcome DEF ConfigInv
<1> QED
  BY <1>1 DEF ConfigInv, NameStays

\* Loading the files of a start once more, in the running server, sets what a
\* start sets.
LEMMA RunningAsLoaded ==
  ASSUME TypeOK, ConfigInv, Leftovers = {},
         Overload(environ, FindConfigs(StartDir, cli.env)) = environ
  PROVE  environ = Loaded
<1> DEFINE found == FindConfigs(StartDir, cli.env)
<1>1. found \in Seq(Files)
  BY WhatIsGiven, FindConfigsFindsFiles DEF ConfigInv
<1>2. \A n \in Names : environ[n] = launch[n] \/ \E i \in DOMAIN found : files[found[i]][n] # Unset
  BY DEF Leftovers
<1> HIDE DEF found
<1>3. ASSUME NEW n \in Names
      PROVE  environ[n] = Loaded[n]
  <2>1. \/ /\ \A i \in DOMAIN found : files[found[i]][n] = Unset
           /\ Overload(launch, found)[n] = launch[n]
        \/ /\ \E i \in DOMAIN found : files[found[i]][n] # Unset
           /\ \E i \in DOMAIN found : /\ files[found[i]][n] # Unset
                                      /\ \A d : Overload(d, found)[n] = files[found[i]][n]
    BY <1>1, OverloadSets
  <2>2. CASE /\ \A i \in DOMAIN found : files[found[i]][n] = Unset
             /\ Overload(launch, found)[n] = launch[n]
    BY <1>2, <2>2 DEF Loaded, found
  <2>3. CASE \E i \in DOMAIN found : \A d : Overload(d, found)[n] = files[found[i]][n]
    <3>1. Overload(environ, found)[n] = Overload(launch, found)[n]
      BY <2>3
    <3> QED
      BY <3>1 DEF Loaded, found
  <2> QED
    BY <2>1, <2>2, <2>3
<1>4. environ = [n \in Names |-> environ[n]] /\ Loaded = [n \in Names |-> Loaded[n]]
  BY DEF TypeOK, Loaded, Overload
<1> QED
  BY <1>3, <1>4

\* A server starts where a process of the operator does.
LEMMA StartsAlike ==
  ASSUME TypeOK, SettingsProper, NEW port \in Ports, Starts(NewServer(port))
  PROVE  Starts(NewProcess(port))
<1> DEFINE loaded == Load(InitControl, StartDir, launch, port)
           process == NewProcess(port)
           new == NewServer(port)
<1>1. /\ Environment(launch) /\ Path \in Dirs \cup {Unset} /\ StartDir \in Dirs
      /\ cli.env \in EnvTypes /\ InitControl \in Options
  BY WhatIsGiven
<1>2. LoadType(InitControl, launch) = cli.env
  BY <1>1 DEF LoadType, InitControl
<1>3. Outcome(loaded, InitControl, StartDir, launch, port)
  BY <1>1, LoadOutcome
<1>4. /\ process.used = loaded.used
      /\ process.conf = [loaded.conf EXCEPT !.path = IF @ = Unset THEN Path ELSE @]
  BY DEF NewProcess, Load
<1>5. /\ new.used = process.used
      /\ new.conf = [process.conf EXCEPT !.secure = @ /\ process.conf.cert # Unset]
  BY DEF NewServer, InitHttpServer, NewProcess, Load
<1> HIDE DEF loaded, process, new
<1>6. loaded.conf \in Options
  <2>1. CASE loaded.conf = [InitControl EXCEPT !.env = LoadType(InitControl, launch)]
    BY <1>1, <1>2, <2>1 DEF Options
  <2>2. CASE loaded.conf = LoadFromEnv(InitControl, loaded.environ, port)
    BY <1>1, <1>3, <2>2, LoadFromEnvIsTyped DEF Outcome
  <2> QED
    BY <1>3, <2>1, <2>2 DEF Outcome
<1>7. process.conf \in Options
  BY <1>1, <1>4, <1>6 DEF Options
<1>8. new.conf.path = process.conf.path
  BY <1>5, <1>7 DEF Options
<1> QED
  BY <1>5, <1>8 DEF Starts, new, process

LEMMA LikeARestart ==
  ASSUME TypeOK, ConfigInv
  PROVE  ReloadIsRestart
<1> SUFFICES ASSUME NEW port \in Ports, server, pending = {}, Leftovers = {},
                    Starts(NewServer(port)), used = NewServer(port).used
             PROVE  LET new == NewServer(port) IN
                    /\ conf.env = new.conf.env /\ conf.storage = new.conf.storage
                    /\ conf.cert # Unset \/ ~conf.secure => conf.secure = new.conf.secure
                    /\ conf.hostname = new.conf.hostname => conf.base = new.conf.base
                    /\ Getval(environ, "HTTP_PORT", Unset) # Unset => conf.port = new.conf.port
                    /\ Path = Unset => conf.path = new.conf.path
  BY DEF ReloadIsRestart
<1> DEFINE new == NewServer(port)
           fresh == LoadFromEnv(InitControl, Loaded, port)
<1>0. SettingsProper /\ LoadIsCurrent
  BY DEF ConfigInv
<1>1. Starts(NewProcess(port))
  BY <1>0, StartsAlike
<1>2. /\ new.used.dir = StartDir /\ new.used.type = cli.env /\ new.used.ok
      /\ new.conf.secure = (fresh.secure /\ new.conf.cert # Unset)
      /\ Path = Unset => new.conf.path = fresh.path
      /\ new.conf.env = fresh.env /\ new.conf.storage = fresh.storage
      /\ new.conf.port = fresh.port /\ new.conf.cert = fresh.cert
      /\ new.conf.base = fresh.base /\ new.conf.hostname = fresh.hostname
      /\ new.conf \in Options
  BY <1>0, <1>1, StartOutcome
<1> HIDE DEF new, fresh
<1>3. used.ok /\ used.dir = StartDir /\ used.type = cli.env
  BY <1>2 DEF new
<1>4. environ = Loaded
  BY <1>0, <1>3, RunningAsLoaded DEF LoadIsCurrent
<1>5. Reads(fresh, environ) /\ (fresh.hostname = Unset => fresh.base = InitControl.base)
  BY <1>4, LoadFromEnvReads DEF fresh
<1>6. conf \in Options
  BY DEF TypeOK
<1>7. /\ conf.env = new.conf.env /\ conf.storage = new.conf.storage /\ conf.cert = new.conf.cert
      /\ Getval(environ, "HTTP_PORT", Unset) # Unset => conf.port = new.conf.port
      /\ Path = Unset => conf.path = new.conf.path
  BY <1>0, <1>2, <1>3, <1>5 DEF LoadIsCurrent, Reads
<1>8. conf.cert # Unset \/ ~conf.secure => conf.secure = new.conf.secure
  <2>1. conf.secure \in BOOLEAN /\ new.conf.secure \in BOOLEAN
    BY <1>2, <1>6 DEF Options
  <2>2. fresh.secure <=> Getval(environ, "HTTPS", "false") = "true"
    BY <1>5 DEF Reads
  <2>3. /\ conf.secure => Getval(environ, "HTTPS", "false") = "true"
        /\ Getval(environ, "HTTPS", "false") = "true" /\ conf.cert # Unset => conf.secure
    BY <1>0, <1>3 DEF LoadIsCurrent
  <2>4. new.conf.secure <=> fresh.secure /\ conf.cert # Unset
    BY <1>2, <1>7, <2>1
  <2> QED
    BY <2>1, <2>2, <2>3, <2>4
<1>9. conf.hostname = new.conf.hostname => conf.base = new.conf.base
  <2>1. conf.hostname # Unset =>
          conf.base = <<Getval(environ, "HTTPS", "false") = "true", conf.hostname>>
    BY <1>0, <1>3 DEF LoadIsCurrent
  <2>2. conf.hostname = Unset => conf.base = InitControl.base
    BY <1>0 DEF LoadIsCurrent
  <2>3. fresh.hostname # Unset =>
          fresh.base = <<Getval(environ, "HTTPS", "false") = "true", fresh.hostname>>
    BY <1>5 DEF Reads
  <2> QED
    BY <1>2, <1>5, <2>1, <2>2, <2>3
<1> QED
  BY <1>7, <1>8, <1>9 DEF new

LEMMA Apart ==
  ASSUME TypeOK
  PROVE  InstancesApart
BY InstanceNamesApart DEF TypeOK, Options, InstancesApart

-----------------------------------------------------------------------------
(* The theorems *)

LEMMA ConfigInductive == Spec => [](TypeOK /\ ConfigInv)
<1>1. Init => TypeOK /\ ConfigInv
  BY InitConfigInv
<1>2. (TypeOK /\ ConfigInv) /\ [Next]_vars => (TypeOK /\ ConfigInv)'
  BY StepTypeOK, StepSettingsProper, StepTypeStays, StepNameStays, StepLoadIsCurrent,
     StutterConfigInv DEF ConfigInv
<1> QED
  BY <1>1, <1>2, PTL DEF Spec

\* The options of a server keep their types, and the server always has a
\* storage and an environment, whatever files a reload finds.
THEOREM ConfigTypes == Spec => []TypeOK
BY ConfigInductive, PTL

\* A server has the host name it has started with, and the options that the
\* files have put into its environment.
THEOREM ConfigInvariant == Spec => []ConfigInv
BY ConfigInductive, PTL

\* A command that starts beside a running server looks for the pid file where
\* the server has written it, unless the host name was changed in between or
\* the server was started without one.
THEOREM ServerIsFound == Spec => []CommandsFindServer
<1>1. TypeOK /\ ConfigInv => CommandsFindServer
  BY FindServer
<1> QED
  BY <1>1, ConfigTypes, ConfigInvariant, PTL

\* A reload of the files that a start loads leaves the server with the options
\* of a restart, but for those that ReloadIsRestart excepts.
THEOREM ReloadsAreRestarts == Spec => []ReloadIsRestart
<1>1. TypeOK /\ ConfigInv => ReloadIsRestart
  BY LikeARestart
<1> QED
  BY <1>1, ConfigTypes, ConfigInvariant, PTL

\* Servers of different hosts have different pid files and sockets: the sort by
\* which a host name is turned around reverses it and loses nothing.
THEOREM InstancesStayApart == Spec => []InstancesApart
<1>1. TypeOK => InstancesApart
  BY Apart
<1> QED
  BY <1>1, ConfigTypes, PTL

=============================================================================
