-------------------------- MODULE RequestEditProofs --------------------------
(***************************************************************************)
(* What the edits of a request make of its text: it stays a text, whatever *)
(* the request and its length, and with an ordinary request it becomes the *)
(* text that is meant, to the server that reads its lines.                 *)
(***************************************************************************)
EXTENDS RequestEdit, DataLemmas

-----------------------------------------------------------------------------
(* FlattenSeq                                                              *)

\* The recursion of FlattenSeq defines what it says.
LEMMA FlattenSeqUnfolds ==
    ASSUME NEW S, NEW ss \in Seq(Seq(S)), ss # <<>>
    PROVE  \E f : /\ FlattenSeq(ss) = f[Len(ss)]
                  /\ f = [i \in 1 .. Len(ss) |-> IF i = 1 THEN ss[i] ELSE f[i-1] \o ss[i]]
<1> DEFINE n == Len(ss)
           flatten[i \in 1 .. n] == IF i = 1 THEN ss[i] ELSE flatten[i-1] \o ss[i]
<1>1. n \in Nat \ {0}
  OBVIOUS
<1>2. \E f : f = [i \in 1 .. n |-> IF i = 1 THEN ss[i] ELSE f[i-1] \o ss[i]]
  <2> HIDE DEF flatten
  <2> DEFINE V == Seq(S)
             g == [p \in V \X Nat |->
                      IF p[2] + 2 <= n THEN p[1] \o ss[p[2] + 2] ELSE p[1]]
  <2>1. \A v \in V, i \in 2 .. n : ss[i] \in V /\ v \o ss[i] \in V
    OBVIOUS
  <2>2. ss[1] \in V
    BY <1>1
  <2> HIDE DEF V, n
  <2>3. \A p \in V \X Nat : g[p] \in V
    BY <1>1, <2>1
  <2>4. g \in [V \X Nat -> V]
    BY <2>3
  <2>5. ASSUME NEW v \in V, NEW i \in 2 .. n PROVE g[<<v, i-2>>] = v \o ss[i]
    <3>1. i - 2 \in Nat /\ (i - 2) + 2 = i /\ i <= n
      BY <1>1
    <3>2. <<v, i-2>> \in V \X Nat
      BY <3>1
    <3> QED BY <3>1, <3>2
  <2> HIDE DEF g
  <2>6. PICK f \in [Nat -> V] : f[0] = ss[1] /\ \A i \in Nat : f[i+1] = g[<<f[i], i>>]
    <3>1. PICK f : IsRecursion(f, V, ss[1], g)
      BY <2>2, <2>4, Recursion
    <3> QED BY <3>1 DEF IsRecursion
  <2> DEFINE h == [i \in 1 .. n |-> f[i-1]]
  <2>7. ASSUME NEW i \in 1 .. n PROVE f[i-1] = IF i = 1 THEN ss[i] ELSE h[i-1] \o ss[i]
    <3>1. CASE i = 1
      BY <2>6, <3>1
    <3>2. CASE i # 1
      <4>1. /\ i \in 2 .. n /\ i - 2 \in Nat /\ i - 1 = (i - 2) + 1
            /\ i - 1 \in 1 .. n /\ (i - 1) - 1 = i - 2
        BY <1>1, <3>2
      <4>2. f[i-1] = g[<<f[i-2], i-2>>]
        BY <2>6, <4>1
      <4>3. f[i-2] \in V /\ h[i-1] = f[i-2]
        BY <4>1
      <4>4. g[<<f[i-2], i-2>>] = f[i-2] \o ss[i]
        BY <2>5, <4>1, <4>3
      <4> QED BY <3>2, <4>2, <4>3, <4>4
    <3> QED BY <3>1, <3>2
  <2>8. h = [i \in 1 .. n |-> IF i = 1 THEN ss[i] ELSE h[i-1] \o ss[i]]
    <3>1. h = [i \in 1 .. n |-> f[i-1]]
      OBVIOUS
    <3> HIDE DEF h
    <3> QED BY <2>7, <3>1, Zenon
  <2> QED BY <2>8
<1>3. flatten = [i \in 1 .. n |-> IF i = 1 THEN ss[i] ELSE flatten[i-1] \o ss[i]]
  BY <1>2
<1>4. FlattenSeq(ss) = flatten[n]
  BY <1>1 DEF FlattenSeq
<1> QED BY <1>3, <1>4

\* Each of its values is a sequence.
LEMMA FlattenSeqValues ==
    ASSUME NEW S, NEW ss \in Seq(Seq(S)), ss # <<>>
    PROVE  \E f : /\ FlattenSeq(ss) = f[Len(ss)]
                  /\ \A i \in 1 .. Len(ss) :
                        f[i] \in Seq(S) /\ f[i] = IF i = 1 THEN ss[i] ELSE f[i-1] \o ss[i]
<1> DEFINE n == Len(ss)
<1>1. PICK f : /\ FlattenSeq(ss) = f[n]
               /\ f = [i \in 1 .. n |-> IF i = 1 THEN ss[i] ELSE f[i-1] \o ss[i]]
  BY FlattenSeqUnfolds
<1>2. n \in Nat \ {0} /\ \A i \in 1 .. n : ss[i] \in Seq(S)
  OBVIOUS
<1>3. \A i \in 1 .. n : f[i] = IF i = 1 THEN ss[i] ELSE f[i-1] \o ss[i]
  BY <1>1
<1> HIDE DEF n
<1> DEFINE T == {j \in Nat : j + 1 <= n => f[j+1] \in Seq(S)}
<1>4. 0 \in T
  BY <1>2, <1>3
<1>5. ASSUME NEW j \in T PROVE j + 1 \in T
  <2>1. SUFFICES ASSUME (j + 1) + 1 <= n PROVE f[(j+1)+1] \in Seq(S)
    OBVIOUS
  <2>2. /\ (j + 1) + 1 \in 1 .. n /\ (j + 1) + 1 # 1 /\ ((j + 1) + 1) - 1 = j + 1
        /\ j + 1 <= n
    BY <1>2, <2>1
  <2>3. f[(j+1)+1] = f[j+1] \o ss[(j+1)+1]
    BY <1>3, <2>2
  <2>4. f[j+1] \in Seq(S)
    BY <2>2
  <2> QED BY <1>2, <2>2, <2>3, <2>4
<1>6. T = Nat
  <2> HIDE DEF T
  <2> QED BY <1>4, <1>5, SetInduction DEF T
<1>7. ASSUME NEW i \in 1 .. n PROVE f[i] \in Seq(S)
  <2>1. i - 1 \in Nat /\ (i - 1) + 1 = i /\ i <= n
    BY <1>2
  <2>2. i - 1 \in T
    BY <1>6, <2>1
  <2> QED BY <2>1, <2>2
<1> QED BY <1>1, <1>3, <1>7 DEF n

LEMMA FlattenSeqType ==
    ASSUME NEW S, NEW ss \in Seq(Seq(S))
    PROVE  FlattenSeq(ss) \in Seq(S)
<1>1. CASE ss = <<>>
  BY <1>1 DEF FlattenSeq
<1>2. CASE ss # <<>>
  <2>1. Len(ss) \in 1 .. Len(ss)
    BY <1>2
  <2> QED BY <1>2, <2>1, FlattenSeqValues
<1> QED BY <1>1, <1>2

LEMMA LastOfConcat ==
    ASSUME NEW S, NEW s \in Seq(S), NEW t \in Seq(S), t # <<>>
    PROVE  s \o t # <<>> /\ (s \o t)[Len(s \o t)] = t[Len(t)]
  OBVIOUS

\* It ends as the last of the sequences does.
LEMMA FlattenSeqEnd ==
    ASSUME NEW S, NEW ss \in Seq(Seq(S)), ss # <<>>, NEW x,
           ss[Len(ss)] # <<>>, ss[Len(ss)][Len(ss[Len(ss)])] = x
    PROVE  /\ FlattenSeq(ss) # <<>>
           /\ FlattenSeq(ss)[Len(FlattenSeq(ss))] = x
<1> DEFINE n == Len(ss)
<1>1. PICK f : /\ FlattenSeq(ss) = f[n]
               /\ \A i \in 1 .. n :
                     f[i] \in Seq(S) /\ f[i] = IF i = 1 THEN ss[i] ELSE f[i-1] \o ss[i]
  BY FlattenSeqValues
<1>2. /\ n \in Nat \ {0} /\ n \in 1 .. n
      /\ ss[n] \in Seq(S) /\ ss[n] # <<>> /\ ss[n][Len(ss[n])] = x
  OBVIOUS
<1> HIDE DEF n
<1>3. CASE n = 1
  BY <1>1, <1>2, <1>3
<1>4. CASE n # 1
  <2>1. n - 1 \in 1 .. n
    BY <1>2, <1>4
  <2>2. f[n] = f[n-1] \o ss[n] /\ f[n-1] \in Seq(S)
    BY <1>1, <1>2, <1>4, <2>1
  <2>3. f[n] # <<>> /\ f[n][Len(f[n])] = x
    <3>1. PICK s \in Seq(S), t \in Seq(S) : s = f[n-1] /\ t = ss[n]
      BY <1>2, <2>2
    <3>2. s \o t # <<>> /\ (s \o t)[Len(s \o t)] = t[Len(t)]
      <4>1. s \in Seq(S) /\ t \in Seq(S) /\ t # <<>>
        BY <1>2, <3>1
      <4> QED BY ONLY <4>1, LastOfConcat
    <3>3. f[n] = s \o t /\ t[Len(t)] = x
      BY <1>2, <2>2, <3>1
    <3> QED BY <3>2, <3>3
  <2>4. FlattenSeq(ss) = f[n]
    BY <1>1 DEF n
  <2> QED BY <1>2, <2>3, <2>4
<1> QED BY <1>3, <1>4

-----------------------------------------------------------------------------
(* The edits                                                               *)

\* The tokens that the edits look for or write.
Words == {"GET", "HTTP", "CRLF", "LF", "/1.1", "Connection", "clo", "se"}

\* The requests made of the tokens S.
RequestsOf(S) == [url : Seq(S) \ {<<>>}, version : S \cap Versions,
                   headers : Seq(Seq(S))]

\* A text that ends with an empty line, as a request does.
EndsEmpty(S, text) ==
    /\ text \in Seq(S) /\ Len(text) >= 2
    /\ text[Len(text) - 1] = "CRLF" /\ text[Len(text)] = "CRLF"

LEMMA TextEndsEmpty ==
    ASSUME NEW S, Words \subseteq S, NEW q \in RequestsOf(S)
    PROVE  EndsEmpty(S, Text(q))
<1> DEFINE line    == <<"GET">> \o q.url \o <<"HTTP", q.version, "CRLF">>
           headers == [i \in DOMAIN q.headers |-> q.headers[i] \o <<"CRLF">>]
           flat    == FlattenSeq(headers)
<1>1. /\ q.url \in Seq(S) /\ q.version \in S /\ q.headers \in Seq(Seq(S))
      /\ "GET" \in S /\ "HTTP" \in S /\ "CRLF" \in S
  BY DEF RequestsOf, Words
<1>2. line \in Seq(S) /\ line # <<>> /\ line[Len(line)] = "CRLF"
  <2>1. <<"GET">> \o q.url \in Seq(S)
    BY <1>1
  <2>2. <<"HTTP", q.version, "CRLF">> \in Seq(S)
    BY <1>1
  <2> QED BY <2>1, <2>2
<1>3. headers \in Seq(Seq(S)) /\ Len(headers) = Len(q.headers)
      /\ \A i \in 1 .. Len(q.headers) : headers[i] = q.headers[i] \o <<"CRLF">>
  <2>1. PICK hs \in Seq(Seq(S)) : hs = q.headers
    BY <1>1
  <2>2. <<"CRLF">> \in Seq(S)
    BY <1>1
  <2>3. Len(hs) \in Nat /\ DOMAIN hs = 1 .. Len(hs)
    BY LenProperties
  <2>4. \A i \in 1 .. Len(hs) : hs[i] \o <<"CRLF">> \in Seq(S)
    BY <2>2, ElementOfSeq, ConcatProperties
  <2>5. headers = [i \in 1 .. Len(hs) |-> hs[i] \o <<"CRLF">>]
    BY <2>1, <2>3
  <2>6. [i \in 1 .. Len(hs) |-> hs[i] \o <<"CRLF">>] \in Seq(Seq(S))
    BY <2>3, <2>4
  <2> HIDE DEF headers
  <2>7. headers \in Seq(Seq(S)) /\ DOMAIN headers = 1 .. Len(hs)
    BY <2>5, <2>6, Zenon
  <2>8. Len(headers) = Len(hs)
    BY <2>3, <2>7
  <2>9. \A i \in 1 .. Len(hs) : headers[i] = hs[i] \o <<"CRLF">>
    BY <2>5, Zenon
  <2> QED BY <2>1, <2>7, <2>8, <2>9, Zenon
<1>4. flat \in Seq(S)
  BY <1>3, FlattenSeqType
<1>5. flat = <<>> \/ (flat # <<>> /\ flat[Len(flat)] = "CRLF")
  <2>1. CASE headers = <<>>
    BY <2>1 DEF FlattenSeq
  <2>2. CASE headers # <<>>
    <3> HIDE DEF headers
    <3>1. PICK n \in 1 .. Len(q.headers) : n = Len(headers)
      BY <1>3, <2>2
    <3>2. PICK h \in Seq(S) : h = q.headers[n]
      BY <1>1, <3>1
    <3>3. headers[Len(headers)] = h \o <<"CRLF">>
      BY <1>3, <3>1, <3>2
    <3>4. h \o <<"CRLF">> # <<>> /\ (h \o <<"CRLF">>)[Len(h \o <<"CRLF">>)] = "CRLF"
      OBVIOUS
    <3>5. /\ headers[Len(headers)] # <<>>
          /\ headers[Len(headers)][Len(headers[Len(headers)])] = "CRLF"
      BY <3>3, <3>4, Zenon
    <3>6. headers \in Seq(Seq(S))
      BY <1>3
    <3> QED BY <2>2, <3>5, <3>6, FlattenSeqEnd, Zenon
  <2> HIDE DEF headers, flat
  <2> QED BY <2>1, <2>2
<1>6. Text(q) = (line \o flat) \o <<"CRLF">>
  BY DEF Text
<1> HIDE DEF line, flat
<1>7. PICK body \in Seq(S) : body = line \o flat
  <2>1. line \o flat \in Seq(S)
    BY <1>2, <1>4, ConcatProperties
  <2> QED BY <2>1
<1>8. body # <<>> /\ body[Len(body)] = "CRLF"
  <2>1. CASE flat = <<>>
    BY <1>2, <1>7, <2>1
  <2>2. CASE flat # <<>>
    BY <1>2, <1>4, <1>5, <1>7, <2>2, LastOfConcat
  <2> QED BY <2>1, <2>2
<1>9. EndsEmpty(S, body \o <<"CRLF">>)
  BY <1>8 DEF EndsEmpty
<1> QED BY <1>6, <1>7, <1>9

LEMMA FindInText ==
    ASSUME NEW S, NEW text \in Seq(S), NEW i \in Nat \ {0}, NEW ts
    PROVE  LET j == Find(text, i, ts) IN
           j = 0 \/ (j \in i .. Len(text) /\ text[j] \in ts)
<1> DEFINE at == {m \in i .. Len(text) : text[m] \in ts}
<1>1. at \in SUBSET Nat
  OBVIOUS
<1>2. CASE at = {}
  BY <1>2 DEF Find
<1>3. CASE at # {}
  <2>1. Min(at) \in at
    BY <1>1, <1>3, MinOfNaturals
  <2>2. Find(text, i, ts) = Min(at)
    BY <1>3 DEF Find
  <2> HIDE DEF Find
  <2> QED BY <2>1, <2>2
<1> QED BY <1>2, <1>3

LEMMA OverwrittenType ==
    ASSUME NEW S, NEW text \in Seq(S), NEW i \in Nat, NEW s \in Seq(S)
    PROVE  /\ Overwritten(text, i, s) \in Seq(S)
           /\ Len(Overwritten(text, i, s)) = Len(text)
           /\ \A j \in 1 .. Len(text) :
                 j \notin i .. i + Len(s) - 1 => Overwritten(text, i, s)[j] = text[j]
<1>1. DOMAIN text = 1 .. Len(text) /\ Len(text) \in Nat /\ Len(s) \in Nat
  OBVIOUS
<1>2. ASSUME NEW j \in 1 .. Len(text)
      PROVE  (IF j \in i .. i + Len(s) - 1 THEN s[j - i + 1] ELSE text[j]) \in S
  OBVIOUS
<1>3. Overwritten(text, i, s) =
          [j \in 1 .. Len(text) |-> IF j \in i .. i + Len(s) - 1 THEN s[j - i + 1] ELSE text[j]]
  BY <1>1 DEF Overwritten
<1> QED BY <1>1, <1>2, <1>3

LEMMA SetVersionEndsEmpty ==
    ASSUME NEW S, Words \subseteq S, NEW text, EndsEmpty(S, text), NEW v \in Versions
    PROVE  EndsEmpty(S, SetVersion(text, v))
<1> DEFINE old == Find(text, 1, {v})
<1>1. text \in Seq(S) /\ <<"/1.1">> \in Seq(S) /\ Len(<<"/1.1">>) = 1
  BY DEF EndsEmpty, Words
<1>2. old = 0 \/ (old \in 1 .. Len(text) /\ text[old] # "CRLF")
  <2>1. old = 0 \/ (old \in 1 .. Len(text) /\ text[old] \in {v})
    BY <1>1, FindInText
  <2>2. v # "CRLF"
    BY DEF Versions
  <2> QED BY <2>1, <2>2
<1>3. old \in Nat
  BY <1>1, <1>2
<1> HIDE DEF old
<1>4. SetVersion(text, v) = Overwritten(text, old, <<"/1.1">>)
  BY DEF SetVersion, old
<1> DEFINE new == Overwritten(text, old, <<"/1.1">>)
<1>5. /\ new \in Seq(S) /\ Len(new) = Len(text)
      /\ \A j \in 1 .. Len(text) : j \notin old .. old + 1 - 1 => new[j] = text[j]
  <2>1. PICK word \in Seq(S) : word = <<"/1.1">> /\ Len(word) = 1
    BY <1>1
  <2>2. /\ Overwritten(text, old, word) \in Seq(S)
        /\ Len(Overwritten(text, old, word)) = Len(text)
        /\ \A j \in 1 .. Len(text) :
              j \notin old .. old + Len(word) - 1 => Overwritten(text, old, word)[j] = text[j]
    BY <1>1, <1>3, OverwrittenType, Zenon
  <2> QED BY <2>1, <2>2, Zenon
<1> HIDE DEF new
<1>6. \A j \in {Len(text) - 1, Len(text)} : j \in 1 .. Len(text) /\ j # old
  BY <1>2, <1>3 DEF EndsEmpty
<1>7. \A j \in {Len(text) - 1, Len(text)} : new[j] = text[j]
  BY <1>3, <1>5, <1>6
<1>8. EndsEmpty(S, new)
  BY <1>5, <1>7 DEF EndsEmpty
<1> QED BY <1>4, <1>8 DEF new

LEMMA SetConnectionType ==
    ASSUME NEW S, Words \subseteq S, NEW text, EndsEmpty(S, text)
    PROVE  SetConnection(text) \in Seq(S)
<1> DEFINE n     == Len(text)
           at    == {i \in 2 .. n : text[i-1] = "CRLF" /\ text[i] = "Connection"}
           name  == LastConnection(text)
           end   == Find(text, name + 1, {"CRLF"})
           gaps  == {j \in 1 .. n - 1 : SubSeq(text, j, j + 1) = <<"CRLF", "CRLF">>}
           empty == Min(gaps)
           new   == <<"LF", "Connection">>
           line  == <<"CRLF">>
<1>1. /\ text \in Seq(S) /\ n \in Nat /\ n >= 2
      /\ text[n-1] = "CRLF" /\ text[n] = "CRLF"
  BY DEF EndsEmpty
<1>2. Close \in Seq(S) /\ Len(Close) = 2 /\ new \in Seq(S) /\ line \in Seq(S)
  BY DEF Close, Words
<1>3. name \in 0 .. n
  <2>1. name = IF at = {} THEN 0 ELSE Max(at)
    BY DEF LastConnection
  <2>2. at \in SUBSET (0 .. n)
    BY <1>1
  <2>3. at # {} => Max(at) \in at
    BY <1>1, <2>2, MaxOfNaturals
  <2> QED BY <1>1, <2>1, <2>2, <2>3
<1>4. empty \in 1 .. n - 1
  <2>1. SubSeq(text, n - 1, n) = <<"CRLF", "CRLF">>
    <3> DEFINE s == SubSeq(text, n - 1, n)
               t == <<"CRLF", "CRLF">>
    <3>1. s \in Seq(S) /\ Len(s) = 2 /\ s[1] = text[n-1] /\ s[2] = text[n]
      BY <1>1
    <3>2. t \in Seq(S) /\ Len(t) = 2 /\ t[1] = "CRLF" /\ t[2] = "CRLF"
      BY DEF Words
    <3> HIDE DEF s, t
    <3>3. s = t
      BY <1>1, <3>1, <3>2, SeqEqual
    <3> QED BY <3>3 DEF s, t
  <2>2. n - 1 \in gaps
    BY <1>1, <2>1
  <2>3. gaps \in SUBSET Nat
    BY <1>1
  <2>4. empty \in gaps
    BY <2>2, <2>3, MinOfNaturals
  <2> QED BY <2>4
<1>5. SetConnection(text) =
          IF name = 0
          THEN SubSeq(text, 1, empty - 1) \o new \o Close \o line \o SubSeq(text, empty, n)
          ELSE IF end - (name + 1) > Len(Close)
          THEN SubSeq(text, 1, name) \o Close \o SubSeq(text, end, n)
          ELSE Overwritten(text, name + 1, Close)
  BY DEF SetConnection
<1> HIDE DEF n, at, name, end, gaps, empty, new, line
<1>6. end = 0 \/ end \in name + 1 .. n
  BY <1>1, <1>3, FindInText DEF end, n
<1>7. CASE name = 0
  <2>1. SubSeq(text, 1, empty - 1) \in Seq(S) /\ SubSeq(text, empty, n) \in Seq(S)
    BY <1>1, <1>4 DEF n
  <2> QED BY <1>2, <1>5, <1>7, <2>1, ConcatProperties
<1>8. CASE name # 0 /\ end - (name + 1) > Len(Close)
  <2>1. PICK front \in Seq(S), back \in Seq(S) :
           front = SubSeq(text, 1, name) /\ back = SubSeq(text, end, n)
    <3>1. /\ text \in Seq(S) /\ n \in Nat /\ name \in 1 .. n
          /\ Len(Close) \in Nat /\ end \in Nat
      BY <1>1, <1>2, <1>3, <1>6, <1>8
    <3>2. end \in 1 .. n /\ n = Len(text)
      BY <1>6, <1>8, <3>1 DEF n
    <3>3. SubSeq(text, 1, name) \in Seq(S)
      BY ONLY <3>1, <3>2
    <3>4. SubSeq(text, end, n) \in Seq(S)
      BY ONLY <3>1, <3>2
    <3> QED BY <3>3, <3>4
  <2>2. front \o Close \in Seq(S)
    BY <1>2, ConcatProperties
  <2>3. front \o Close \o back \in Seq(S)
    BY <2>2, ConcatProperties
  <2> QED BY <1>5, <1>8, <2>1, <2>3
<1>9. CASE name # 0 /\ ~(end - (name + 1) > Len(Close))
  <2>1. name + 1 \in Nat
    BY <1>1, <1>3
  <2>2. Overwritten(text, name + 1, Close) \in Seq(S)
    BY <1>1, <1>2, <2>1, OverwrittenType
  <2> QED BY <1>5, <1>9, <2>2
<1> QED BY <1>7, <1>8, <1>9

LEMMA MakeRelativeType ==
    ASSUME NEW S, NEW text \in Seq(S)
    PROVE  MakeRelative(text) \in Seq(S)
<1> DEFINE url   == Find(text, 1, {"http://"})
           slash == Find(text, url + 1, Slashed)
<1>1. url = 0 \/ url \in 1 .. Len(text)
  BY FindInText
<1>2. MakeRelative(text) =
          IF url = 0 \/ slash = 0 THEN text
          ELSE SubSeq(text, 1, url - 1) \o SubSeq(text, slash, Len(text))
  BY DEF MakeRelative
<1>3. CASE url = 0 \/ slash = 0
  BY <1>2, <1>3
<1>4. CASE url # 0 /\ slash # 0
  <2>1. url + 1 \in Nat \ {0}
    BY <1>1, <1>4
  <2> HIDE DEF url
  <2>2. slash \in url + 1 .. Len(text)
    BY <1>4, <2>1, FindInText
  <2> HIDE DEF slash
  <2>3. SubSeq(text, 1, url - 1) \in Seq(S) /\ SubSeq(text, slash, Len(text)) \in Seq(S)
    BY <1>1, <1>4, <2>2
  <2> QED BY <1>2, <1>4, <2>3, ConcatProperties
<1> QED BY <1>3, <1>4

\* A request stays a text through all its edits.
LEMMA EditsAreTexts ==
    ASSUME NEW S, Words \subseteq S, NEW q \in RequestsOf(S)
    PROVE  /\ Text(q) \in Seq(S)
           /\ Parsed(q) \in Seq(S)
           /\ Edited(q) \in Seq(S)
<1>1. EndsEmpty(S, Text(q))
  BY TextEndsEmpty
<1>2. Parsed(q) \in Seq(S)
  <2>1. q.version \in Versions
    BY DEF RequestsOf
  <2>2. EndsEmpty(S, SetVersion(Text(q), q.version))
    BY <1>1, <2>1, SetVersionEndsEmpty
  <2> QED BY <2>2, SetConnectionType DEF Parsed
<1>3. Edited(q) \in Seq(S)
  BY <1>2, MakeRelativeType DEF Edited
<1> QED BY <1>1, <1>2, <1>3 DEF EndsEmpty

-----------------------------------------------------------------------------
(* Parts of a text                                                         *)

\* No token of s is one of ts.
Without(s, ts) == \A i \in 1 .. Len(s) : s[i] \notin ts

LEMMA ConcatAt ==
    ASSUME NEW S, NEW s \in Seq(S), NEW t \in Seq(S)
    PROVE  /\ s \o t \in Seq(S) /\ Len(s) \in Nat /\ Len(t) \in Nat
           /\ Len(s \o t) = Len(s) + Len(t)
           /\ \A i \in 1 .. Len(s) : (s \o t)[i] = s[i]
           /\ \A i \in 1 .. Len(t) : (s \o t)[Len(s) + i] = t[i]
<1>1. PICK a \in Nat, b \in Nat : a = Len(s) /\ b = Len(t)
  OBVIOUS
<1>2. ASSUME NEW i \in 1 .. b PROVE (s \o t)[a + i] = t[i]
  <2>1. a + i \in 1 .. a + b /\ ~ (a + i <= a) /\ (a + i) - a = i
    OBVIOUS
  <2> QED BY <1>1, <2>1, ConcatProperties
<1>3. ASSUME NEW i \in 1 .. a PROVE (s \o t)[i] = s[i]
  <2>1. i \in 1 .. a + b /\ i <= a
    OBVIOUS
  <2> QED BY <1>1, <2>1, ConcatProperties
<1>4. s \o t \in Seq(S) /\ Len(s \o t) = Len(s) + Len(t)
  BY ConcatProperties
<1> QED BY <1>1, <1>2, <1>3, <1>4

Associate(x, y, z) == (x \o y) \o z = x \o (y \o z)

LEMMA AllAssociate ==
    ASSUME NEW S, NEW x \in Seq(S), NEW y \in Seq(S), NEW z \in Seq(S)
    PROVE  Associate(x, y, z)
  BY ConcatAssociative DEF Associate

LEMMA WithoutConcat ==
    ASSUME NEW S, NEW s \in Seq(S), NEW t \in Seq(S), NEW ts
    PROVE  Without(s \o t, ts) <=> Without(s, ts) /\ Without(t, ts)
<1> DEFINE a == Len(s)
           b == Len(t)
           w == s \o t
<1>0. /\ w \in Seq(S) /\ a \in Nat /\ b \in Nat /\ Len(w) = a + b
      /\ a = Len(s) /\ b = Len(t) /\ w = s \o t
      /\ \A i \in 1 .. a : w[i] = s[i]
      /\ \A i \in 1 .. b : w[a + i] = t[i]
  BY ConcatAt
<1> HIDE DEF w, a, b
<1> USE <1>0
<1>1. ASSUME Without(w, ts) PROVE Without(s, ts) /\ Without(t, ts)
  <2>1. \A i \in 1 .. a : i \in 1 .. a + b
    OBVIOUS
  <2>2. \A i \in 1 .. b : a + i \in 1 .. a + b
    OBVIOUS
  <2> QED BY <1>0, <1>1, <2>1, <2>2 DEF Without
<1>2. ASSUME Without(s, ts), Without(t, ts), NEW i \in 1 .. a + b PROVE w[i] \notin ts
  <2>1. CASE i \in 1 .. a
    BY <1>0, <1>2, <2>1 DEF Without
  <2>2. CASE i \notin 1 .. a
    <3>1. PICK m \in 1 .. b : i = a + m
      <4>1. i - a \in 1 .. b /\ i = a + (i - a)
        BY <2>2
      <4> QED BY <4>1
    <3> QED BY <1>0, <1>2, <3>1 DEF Without
  <2> QED BY <2>1, <2>2
<1> QED BY <1>0, <1>1, <1>2 DEF Without

\* The first of two parts, and the second.
LEMMA PartsOf ==
    ASSUME NEW S, NEW s \in Seq(S), NEW t \in Seq(S)
    PROVE  /\ s \o t \in Seq(S) /\ Len(s \o t) = Len(s) + Len(t)
           /\ SubSeq(s \o t, 1, Len(s)) = s
           /\ SubSeq(s \o t, Len(s) + 1, Len(s) + Len(t)) = t
<1> DEFINE a == Len(s)
           b == Len(t)
           w == s \o t
<1>0. /\ w \in Seq(S) /\ a \in Nat /\ b \in Nat /\ Len(w) = a + b
      /\ a = Len(s) /\ b = Len(t) /\ w = s \o t
      /\ \A i \in 1 .. a : w[i] = s[i]
      /\ \A i \in 1 .. b : w[a + i] = t[i]
  BY ConcatAt
<1> HIDE DEF w, a, b
<1> USE <1>0
<1>1. PICK x \in Seq(S) : x = SubSeq(w, 1, a) /\ Len(x) = a /\ \A i \in 1 .. a : x[i] = w[i]
  <2>1. 0 + 1 = 1 /\ 0 + a = a /\ \A i \in 1 .. a : 0 + i = i
    OBVIOUS
  <2>2. /\ SubSeq(w, 0 + 1, 0 + a) \in Seq(S) /\ Len(SubSeq(w, 0 + 1, 0 + a)) = a
        /\ \A i \in 1 .. a : SubSeq(w, 0 + 1, 0 + a)[i] = w[0 + i]
    BY <1>0, SubSeqAt
  <2> QED BY <2>1, <2>2
<1>2. PICK y \in Seq(S) : /\ y = SubSeq(w, a + 1, a + b) /\ Len(y) = b
                          /\ \A i \in 1 .. b : y[i] = w[a + i]
  <2>1. w \in Seq(S) /\ a \in Nat /\ b \in Nat /\ a + b <= Len(w)
    BY <1>0
  <2>2. /\ SubSeq(w, a + 1, a + b) \in Seq(S) /\ Len(SubSeq(w, a + 1, a + b)) = b
        /\ \A i \in 1 .. b : SubSeq(w, a + 1, a + b)[i] = w[a + i]
    BY ONLY <2>1, SubSeqAt
  <2> QED BY ONLY <2>2
<1>3. x = s
  BY <1>0, <1>1, SeqEqual
<1>4. y = t
  BY <1>0, <1>2, SeqEqual
<1> QED BY <1>0, <1>1, <1>2, <1>3, <1>4

-----------------------------------------------------------------------------
(* What the searches find                                                  *)

LEMMA FindFirst ==
    ASSUME NEW S, NEW text \in Seq(S), NEW i \in Nat \ {0}, NEW ts,
           NEW j \in i .. Len(text), text[j] \in ts, \A m \in i .. j - 1 : text[m] \notin ts
    PROVE  Find(text, i, ts) = j
<1> DEFINE at == {m \in i .. Len(text) : text[m] \in ts}
<1>1. at \in SUBSET Nat /\ j \in at
  OBVIOUS
<1>2. \A m \in at : m >= j
  OBVIOUS
<1>3. Find(text, i, ts) = Min(at)
  BY <1>1 DEF Find
<1>4. Min(at) \in at /\ Min(at) <= j
  BY <1>1, MinOfNaturals
<1> QED BY <1>2, <1>3, <1>4

LEMMA FindNone ==
    ASSUME NEW S, NEW text \in Seq(S), NEW i \in Nat \ {0}, NEW ts, Without(text, ts)
    PROVE  Find(text, i, ts) = 0
<1>1. {m \in i .. Len(text) : text[m] \in ts} = {}
  BY DEF Without
<1> QED BY <1>1 DEF Find

\* The tokens of three parts.
LEMMA ThreeAt ==
    ASSUME NEW S, NEW s \in Seq(S), NEW t \in Seq(S), NEW u \in Seq(S)
    PROVE  /\ s \o t \o u \in Seq(S)
           /\ Len(s) \in Nat /\ Len(t) \in Nat /\ Len(u) \in Nat
           /\ Len(s \o t \o u) = Len(s) + Len(t) + Len(u)
           /\ \A i \in 1 .. Len(s) : (s \o t \o u)[i] = s[i]
           /\ \A i \in 1 .. Len(t) : (s \o t \o u)[Len(s) + i] = t[i]
           /\ \A i \in 1 .. Len(u) : (s \o t \o u)[Len(s) + Len(t) + i] = u[i]
<1> DEFINE a == Len(s)
           b == Len(t)
           v == s \o t
<1>1. /\ a \in Nat /\ a = Len(s) /\ v = s \o t /\ b \in Nat /\ b = Len(t)
      /\ v \in Seq(S) /\ Len(v) = a + b
      /\ \A i \in 1 .. a : v[i] = s[i]
      /\ \A i \in 1 .. b : v[a + i] = t[i]
  BY ConcatAt
<1> HIDE DEF a, b, v
<1>2. /\ v \o u \in Seq(S) /\ Len(u) \in Nat /\ Len(v \o u) = a + b + Len(u)
      /\ \A i \in 1 .. a + b : (v \o u)[i] = v[i]
      /\ \A i \in 1 .. Len(u) : (v \o u)[a + b + i] = u[i]
  BY <1>1, ConcatAt
<1>3. /\ \A i \in 1 .. b : a + i \in 1 .. a + b
      /\ \A i \in 1 .. a : i \in 1 .. a + b
  BY <1>1
<1>4. /\ \A i \in 1 .. a : (v \o u)[i] = s[i]
      /\ \A i \in 1 .. b : (v \o u)[a + i] = t[i]
  BY <1>1, <1>2, <1>3
<1> QED BY <1>1, <1>2, <1>4

\* A token between two parts.
LEMMA TokenAt ==
    ASSUME NEW S, NEW s \in Seq(S), NEW x \in S, NEW t \in Seq(S)
    PROVE  /\ s \o <<x>> \o t \in Seq(S)
           /\ Len(s) \in Nat /\ Len(t) \in Nat
           /\ Len(s \o <<x>> \o t) = Len(s) + 1 + Len(t)
           /\ \A i \in 1 .. Len(s) : (s \o <<x>> \o t)[i] = s[i]
           /\ (s \o <<x>> \o t)[Len(s) + 1] = x
           /\ \A i \in 1 .. Len(t) : (s \o <<x>> \o t)[Len(s) + 1 + i] = t[i]
<1>1. <<x>> \in Seq(S) /\ Len(<<x>>) = 1 /\ <<x>>[1] = x /\ 1 \in 1 .. 1
  OBVIOUS
<1> QED BY <1>1, ThreeAt

\* The token behind the first of three parts, when that part has none of the kind.
LEMMA FindBehind ==
    ASSUME NEW S, NEW s \in Seq(S), NEW x \in S, NEW t \in Seq(S), NEW ts, x \in ts,
           Without(s, ts)
    PROVE  Find(s \o <<x>> \o t, 1, ts) = Len(s) + 1
<1> DEFINE a == Len(s)
           w == s \o <<x>> \o t
<1>0. /\ w \in Seq(S) /\ a \in Nat /\ a = Len(s) /\ w = s \o <<x>> \o t
      /\ Len(w) = a + 1 + Len(t) /\ Len(t) \in Nat
      /\ \A i \in 1 .. a : w[i] = s[i]
      /\ w[a + 1] = x
  BY TokenAt
<1> HIDE DEF a, w
<1>1. PICK j \in 1 .. Len(w) : j = a + 1
  BY <1>0
<1>2. w[j] \in ts /\ \A m \in 1 .. j - 1 : w[m] \notin ts
  BY <1>0, <1>1 DEF Without
<1>3. Find(w, 1, ts) = j
  <2>1. 1 \in Nat \ {0}
    OBVIOUS
  <2> QED BY <1>0, <1>2, <2>1, FindFirst
<1> QED BY <1>0, <1>1, <1>3

EndsLine(s) == s # <<>> /\ s[Len(s)] = "CRLF"

\* The last Connection header is the one with no such word behind its name.
LEMMA LastConnectionIs ==
    ASSUME NEW S, "Connection" \in S, NEW s \in Seq(S), EndsLine(s), NEW t \in Seq(S),
           Without(t, {"Connection"})
    PROVE  LastConnection(s \o <<"Connection">> \o t) = Len(s) + 1
<1> DEFINE a == Len(s)
           b == Len(t)
           w == s \o <<"Connection">> \o t
<1>0. /\ w \in Seq(S) /\ a \in Nat /\ b \in Nat /\ b = Len(t) /\ a = Len(s)
      /\ w = s \o <<"Connection">> \o t
      /\ Len(w) = a + 1 + b
      /\ \A i \in 1 .. a : w[i] = s[i]
      /\ w[a + 1] = "Connection"
      /\ \A i \in 1 .. b : w[a + 1 + i] = t[i]
  BY TokenAt
<1> HIDE DEF a, b, w
<1> DEFINE at == {i \in 2 .. Len(w) : w[i-1] = "CRLF" /\ w[i] = "Connection"}
<1>1. at \in SUBSET (0 .. Len(w)) /\ Len(w) \in Nat /\ a + 1 \in at
  <2>1. a >= 1 /\ s[a] = "CRLF"
    <3>1. s # <<>> /\ s[Len(s)] = "CRLF"
      BY DEF EndsLine
    <3> QED BY <1>0, <3>1
  <2>2. w[a] = "CRLF" /\ (a + 1) - 1 = a /\ a + 1 \in 2 .. Len(w)
    BY <1>0, <2>1
  <2>3. at \in SUBSET (0 .. Len(w)) /\ Len(w) \in Nat
    BY <1>0
  <2> QED BY <1>0, <2>2, <2>3
<1>2. ASSUME NEW m \in at PROVE m <= a + 1
  <2>1. SUFFICES ASSUME m > a + 1 PROVE FALSE
    BY <1>0
  <2>2. PICK i \in 1 .. b : m = a + 1 + i
    <3>1. m - (a + 1) \in 1 .. b /\ m = a + 1 + (m - (a + 1))
      BY <1>0, <2>1
    <3> QED BY <3>1
  <2> QED BY <1>0, <2>2 DEF Without
<1>3. Max(at) \in at /\ Max(at) >= a + 1
  BY <1>1, MaxOfNaturals
<1>4. LastConnection(w) = Max(at)
  BY <1>1 DEF LastConnection
<1>5. Max(at) = a + 1
  BY <1>1, <1>2, <1>3
<1> QED BY <1>0, <1>4, <1>5

\* What is written over a part of the same length takes its place.
TakesPlace(s, t, u, v) == Overwritten(s \o t \o u, Len(s) + 1, v) = s \o v \o u

LEMMA OverwrittenPart ==
    ASSUME NEW S, NEW s \in Seq(S), NEW t \in Seq(S), NEW u \in Seq(S), NEW v \in Seq(S),
           Len(v) = Len(t)
    PROVE  TakesPlace(s, t, u, v)
<1> DEFINE a == Len(s)
           b == Len(t)
           c == Len(u)
           w == s \o t \o u
           y == s \o v \o u
<1>1. /\ w \in Seq(S) /\ a \in Nat /\ b \in Nat /\ c \in Nat /\ Len(w) = a + b + c
      /\ \A i \in 1 .. a : w[i] = s[i]
      /\ \A i \in 1 .. c : w[a + b + i] = u[i]
  BY ThreeAt
<1>2. /\ y \in Seq(S) /\ Len(y) = a + b + c
      /\ \A i \in 1 .. a : y[i] = s[i]
      /\ \A i \in 1 .. b : y[a + i] = v[i]
      /\ \A i \in 1 .. c : y[a + b + i] = u[i]
  <2>1. /\ s \o v \o u \in Seq(S) /\ Len(s \o v \o u) = Len(s) + Len(v) + Len(u)
        /\ \A i \in 1 .. Len(s) : (s \o v \o u)[i] = s[i]
        /\ \A i \in 1 .. Len(v) : (s \o v \o u)[Len(s) + i] = v[i]
        /\ \A i \in 1 .. Len(u) : (s \o v \o u)[Len(s) + Len(v) + i] = u[i]
    BY ONLY ThreeAt, s \in Seq(S), v \in Seq(S), u \in Seq(S)
  <2> QED BY <2>1, Zenon
<1>0. a = Len(s) /\ b = Len(v) /\ w = s \o t \o u /\ y = s \o v \o u
  OBVIOUS
<1> HIDE DEF a, b, c, w, y
<1>3. Overwritten(w, a + 1, v) =
         [j \in 1 .. a + b + c |-> IF j \in a + 1 .. a + b THEN v[j - a] ELSE w[j]]
  <2>1. /\ DOMAIN w = 1 .. a + b + c
        /\ a + 1 + Len(v) - 1 = a + b /\ \A j \in 1 .. a + b + c : j - (a + 1) + 1 = j - a
    BY <1>0, <1>1
  <2> QED BY <2>1 DEF Overwritten
<1>4. ASSUME NEW j \in 1 .. a + b + c
      PROVE  (IF j \in a + 1 .. a + b THEN v[j - a] ELSE w[j]) = y[j]
  <2>1. CASE j \in 1 .. a
    <3>1. j \notin a + 1 .. a + b
      BY <1>1, <2>1
    <3> QED BY <1>1, <1>2, <2>1, <3>1
  <2>2. CASE j \in a + 1 .. a + b
    <3>1. j - a \in 1 .. b /\ j = a + (j - a)
      BY <1>1, <2>2
    <3> QED BY <1>2, <2>2, <3>1
  <2>3. CASE j \in a + b + 1 .. a + b + c
    <3>1. j - (a + b) \in 1 .. c /\ j = a + b + (j - (a + b)) /\ j \notin a + 1 .. a + b
      BY <1>1, <2>3
    <3>2. PICK i \in 1 .. c : j = a + b + i
      BY <3>1
    <3>3. w[j] = u[i] /\ y[j] = u[i]
      BY <1>1, <1>2, <3>2
    <3> QED BY <3>1, <3>3
  <2> QED BY <1>1, <2>1, <2>2, <2>3
<1>5. y = [j \in 1 .. a + b + c |-> y[j]]
  BY <1>2
<1>6. Overwritten(w, a + 1, v) = y
  BY <1>3, <1>4, <1>5
<1> QED BY <1>0, <1>6 DEF TakesPlace

-----------------------------------------------------------------------------
(* FlattenSeq of a longer sequence                                          *)

LEMMA FlattenAppend ==
    ASSUME NEW S, NEW ss \in Seq(Seq(S)), NEW x \in Seq(S)
    PROVE  FlattenSeq(Append(ss, x)) = FlattenSeq(ss) \o x
<1> DEFINE tt == Append(ss, x)
           n  == Len(ss)
<1>1. /\ tt \in Seq(Seq(S)) /\ tt # <<>> /\ n \in Nat /\ Len(tt) = n + 1
      /\ tt[n+1] = x /\ \A i \in 1 .. n : tt[i] = ss[i]
  BY AppendProperties
<1>2. PICK f : /\ FlattenSeq(tt) = f[Len(tt)]
               /\ \A i \in 1 .. Len(tt) :
                     f[i] \in Seq(S) /\ f[i] = IF i = 1 THEN tt[i] ELSE f[i-1] \o tt[i]
  <2> HIDE DEF tt, n
  <2>1. tt \in Seq(Seq(S)) /\ tt # <<>>
    BY <1>1
  <2> QED BY ONLY <2>1, FlattenSeqValues
<1>3. CASE ss = <<>>
  <2>1. n = 0
    BY <1>3
  <2> HIDE DEF tt, n
  <2>2. 1 \in 1 .. Len(tt) /\ Len(tt) = 1 /\ tt[1] = x
    BY <1>1, <2>1
  <2>3. FlattenSeq(tt) = x
    BY <1>2, <2>2
  <2>4. FlattenSeq(ss) = <<>> /\ <<>> \o x = x
    BY <1>3, ConcatEmptySeq DEF FlattenSeq
  <2> QED BY <2>3, <2>4 DEF tt
<1>4. CASE ss # <<>>
  <2>1. PICK g : /\ FlattenSeq(ss) = g[n]
                 /\ \A i \in 1 .. n :
                       g[i] \in Seq(S) /\ g[i] = IF i = 1 THEN ss[i] ELSE g[i-1] \o ss[i]
    BY <1>4, FlattenSeqValues
  <2>2. n \in Nat \ {0}
    BY <1>1, <1>4
  <2> HIDE DEF tt, n
  <2> DEFINE T == {j \in Nat : j + 1 <= n => f[j+1] = g[j+1]}
  <2>3. 0 \in T
    <3>1. 1 \in 1 .. n /\ 1 \in 1 .. Len(tt) /\ 0 + 1 = 1
      BY <1>1, <2>2
    <3> QED BY <1>1, <1>2, <2>1, <3>1
  <2>4. ASSUME NEW j \in T PROVE j + 1 \in T
    <3>1. SUFFICES ASSUME (j + 1) + 1 <= n PROVE f[(j+1)+1] = g[(j+1)+1]
      OBVIOUS
    <3>2. PICK i \in 2 .. n : i = (j + 1) + 1
      BY <2>2, <3>1
    <3>3. /\ i \in 1 .. n /\ i \in 1 .. Len(tt) /\ i # 1 /\ i - 1 = j + 1 /\ j + 1 <= n
      BY <1>1, <2>2, <3>2
    <3>4. f[i-1] = g[i-1]
      BY <3>3
    <3>5. f[i] = f[i-1] \o tt[i] /\ g[i] = g[i-1] \o ss[i] /\ tt[i] = ss[i]
      BY <1>1, <1>2, <2>1, <3>3
    <3> QED BY <3>2, <3>4, <3>5
  <2>5. T = Nat
    <3> HIDE DEF T
    <3> QED BY <2>3, <2>4, SetInduction DEF T
  <2>6. f[n] = g[n]
    <3>1. n - 1 \in Nat /\ (n - 1) + 1 = n /\ n <= n
      BY <2>2
    <3>2. n - 1 \in T
      BY <2>5, <3>1
    <3> QED BY <3>1, <3>2
  <2>7. n + 1 \in 1 .. Len(tt) /\ n + 1 # 1 /\ (n + 1) - 1 = n
    BY <1>1, <2>2
  <2>8. f[n+1] = f[n] \o x
    BY <1>1, <1>2, <2>7
  <2> QED BY <1>1, <1>2, <2>1, <2>6, <2>8 DEF tt
<1> QED BY <1>3, <1>4

\* Every sequence of sequences is made by appending one after the other.
LEMMA FrontAndLast ==
    ASSUME NEW V, NEW n \in Nat, NEW ss \in Seq(V), Len(ss) = n + 1
    PROVE  \E front \in Seq(V), x \in V :
              /\ ss = Append(front, x) /\ Len(front) = n
              /\ x = ss[n+1] /\ \A i \in 1 .. n : front[i] = ss[i]
<1> DEFINE front == [i \in 1 .. n |-> ss[i]]
<1>1. \A i \in 1 .. n + 1 : ss[i] \in V
  OBVIOUS
<1>2. front \in Seq(V) /\ Len(front) = n /\ \A i \in 1 .. n : front[i] = ss[i]
  BY <1>1
<1>3. n + 1 \in 1 .. n + 1
  OBVIOUS
<1> HIDE DEF front
<1>4. /\ Append(front, ss[n+1]) \in Seq(V)
      /\ Len(Append(front, ss[n+1])) = n + 1
      /\ \A i \in 1 .. n : Append(front, ss[n+1])[i] = ss[i]
      /\ Append(front, ss[n+1])[n+1] = ss[n+1]
  BY <1>1, <1>2, <1>3, AppendProperties
<1>5. ss = Append(front, ss[n+1])
  <2>1. ASSUME NEW i \in 1 .. n + 1 PROVE ss[i] = Append(front, ss[n+1])[i]
    <3>1. i \in 1 .. n \/ i = n + 1
      OBVIOUS
    <3> QED BY <1>4, <3>1
  <2> QED BY <1>4, <2>1, SeqEqual
<1> QED BY <1>1, <1>2, <1>3, <1>5

\* None of ts is in the whole if none is in a part.
LEMMA FlattenWithout ==
    ASSUME NEW S, NEW ts, NEW ss \in Seq(Seq(S)),
           \A i \in 1 .. Len(ss) : Without(ss[i], ts)
    PROVE  Without(FlattenSeq(ss), ts)
<1> DEFINE V == Seq(S)
           Parts(uu) == \A i \in 1 .. Len(uu) : Without(uu[i], ts)
           T == {n \in Nat : \A uu \in Seq(V) :
                    Len(uu) = n /\ Parts(uu) => Without(FlattenSeq(uu), ts)}
<1>1. 0 \in T
  <2>1. ASSUME NEW uu \in Seq(V), Len(uu) = 0 PROVE Without(FlattenSeq(uu), ts)
    BY <2>1 DEF FlattenSeq, Without
  <2> QED BY <2>1
<1>2. ASSUME NEW n \in T PROVE n + 1 \in T
  <2>1. SUFFICES ASSUME NEW uu \in Seq(V), Len(uu) = n + 1, Parts(uu)
                 PROVE  Without(FlattenSeq(uu), ts)
    OBVIOUS
  <2>2. PICK front \in Seq(V), x \in V :
           /\ uu = Append(front, x) /\ Len(front) = n
           /\ x = uu[n+1] /\ \A i \in 1 .. n : front[i] = uu[i]
    <3> HIDE DEF V
    <3> QED BY <2>1, FrontAndLast
  <2>3. Parts(front) /\ Without(x, ts)
    <3>1. n + 1 \in 1 .. n + 1 /\ \A i \in 1 .. n : i \in 1 .. n + 1
      OBVIOUS
    <3> HIDE DEF V
    <3> QED BY <2>1, <2>2, <3>1
  <2>4. Without(FlattenSeq(front), ts)
    BY <2>2, <2>3
  <2>5. FlattenSeq(uu) = FlattenSeq(front) \o x
    BY <2>2, FlattenAppend
  <2>6. FlattenSeq(front) \in Seq(S)
    BY FlattenSeqType
  <2>7. Without(FlattenSeq(front) \o x, ts)
    BY ONLY <2>3, <2>4, <2>6, x \in Seq(S), WithoutConcat
  <2> QED BY <2>5, <2>7
<1>3. T = Nat
  <2> HIDE DEF T
  <2> QED BY <1>1, <1>2, SetInduction DEF T
<1>4. Len(ss) \in T
  BY <1>3
<1> QED BY <1>4

-----------------------------------------------------------------------------
(* The lines of a request's headers                                        *)

HeaderLines(headers) == [i \in DOMAIN headers |-> headers[i] \o <<"CRLF">>]
Body(headers)        == FlattenSeq(HeaderLines(headers))

LEMMA HeaderLinesType ==
    ASSUME NEW S, "CRLF" \in S, NEW hs \in Seq(Seq(S))
    PROVE  /\ HeaderLines(hs) \in Seq(Seq(S)) /\ Len(HeaderLines(hs)) = Len(hs)
           /\ \A i \in 1 .. Len(hs) : HeaderLines(hs)[i] = hs[i] \o <<"CRLF">>
<1>1. <<"CRLF">> \in Seq(S)
  OBVIOUS
<1>2. Len(hs) \in Nat /\ DOMAIN hs = 1 .. Len(hs)
  BY LenProperties
<1>3. \A i \in 1 .. Len(hs) : hs[i] \o <<"CRLF">> \in Seq(S)
  BY <1>1, ElementOfSeq, ConcatProperties
<1>4. HeaderLines(hs) = [i \in 1 .. Len(hs) |-> hs[i] \o <<"CRLF">>]
  BY <1>2 DEF HeaderLines
<1>5. [i \in 1 .. Len(hs) |-> hs[i] \o <<"CRLF">>] \in Seq(Seq(S))
  BY <1>2, <1>3
<1>6. HeaderLines(hs) \in Seq(Seq(S)) /\ DOMAIN HeaderLines(hs) = 1 .. Len(hs)
  BY <1>4, <1>5, Zenon
<1>7. Len(HeaderLines(hs)) = Len(hs)
  BY <1>2, <1>6
<1>8. \A i \in 1 .. Len(hs) : HeaderLines(hs)[i] = hs[i] \o <<"CRLF">>
  BY <1>4, Zenon
<1> QED BY <1>6, <1>7, <1>8, Zenon

LEMMA BodyType ==
    ASSUME NEW S, "CRLF" \in S, NEW hs \in Seq(Seq(S))
    PROVE  Body(hs) \in Seq(S)
  BY HeaderLinesType, FlattenSeqType DEF Body

\* Headers end a line, if there are any.
LEMMA BodyEnds ==
    ASSUME NEW S, "CRLF" \in S, NEW hs \in Seq(Seq(S))
    PROVE  Body(hs) = <<>> \/ EndsLine(Body(hs))
<1> DEFINE ss == HeaderLines(hs)
<1>1. ss \in Seq(Seq(S)) /\ Len(ss) = Len(hs)
      /\ \A i \in 1 .. Len(hs) : ss[i] = hs[i] \o <<"CRLF">>
  BY HeaderLinesType
<1>2. Body(hs) = FlattenSeq(ss)
  BY DEF Body
<1> HIDE DEF ss
<1>3. CASE ss = <<>>
  BY <1>2, <1>3 DEF FlattenSeq
<1>4. CASE ss # <<>>
  <2>1. PICK n \in 1 .. Len(hs) : n = Len(ss)
    BY <1>1, <1>4
  <2>2. PICK h \in Seq(S) : h = hs[n]
    BY <2>1, ElementOfSeq
  <2>3. ss[Len(ss)] = h \o <<"CRLF">>
    BY <1>1, <2>1, <2>2
  <2>4. h \o <<"CRLF">> # <<>> /\ (h \o <<"CRLF">>)[Len(h \o <<"CRLF">>)] = "CRLF"
    OBVIOUS
  <2>5. ss[Len(ss)] # <<>> /\ ss[Len(ss)][Len(ss[Len(ss)])] = "CRLF"
    BY <2>3, <2>4, Zenon
  <2>6. FlattenSeq(ss) # <<>> /\ FlattenSeq(ss)[Len(FlattenSeq(ss))] = "CRLF"
    BY <1>1, <1>4, <2>5, FlattenSeqEnd, Zenon
  <2> QED BY <1>2, <2>6 DEF EndsLine
<1> QED BY <1>3, <1>4

LEMMA BodyEmpty == Body(<<>>) = <<>>
<1>1. HeaderLines(<<>>) = <<>>
  BY DEF HeaderLines
<1> QED BY <1>1 DEF Body, FlattenSeq

AppendsLine(hs, h) == Body(Append(hs, h)) = Body(hs) \o (h \o <<"CRLF">>)

LEMMA BodyAppend ==
    ASSUME NEW S, "CRLF" \in S, NEW hs \in Seq(Seq(S)), NEW h \in Seq(S)
    PROVE  AppendsLine(hs, h)
<1> DEFINE n  == Len(hs)
           V  == Seq(S)
           l  == h \o <<"CRLF">>
           gs == Append(hs, h)
           ss == HeaderLines(hs)
           tt == HeaderLines(gs)
<1>1. l \in V /\ n \in Nat
  OBVIOUS
<1>2. /\ gs \in Seq(V) /\ Len(gs) = n + 1 /\ gs[n+1] = h /\ \A i \in 1 .. n : gs[i] = hs[i]
  BY AppendProperties
<1>3. /\ ss \in Seq(V) /\ Len(ss) = n /\ \A i \in 1 .. n : ss[i] = hs[i] \o <<"CRLF">>
  BY HeaderLinesType
<1>4. /\ tt \in Seq(V) /\ Len(tt) = n + 1
      /\ \A i \in 1 .. n + 1 : tt[i] = gs[i] \o <<"CRLF">>
  <2> HIDE DEF gs
  <2> QED BY <1>2, HeaderLinesType
<1>5. /\ Append(ss, l) \in Seq(V) /\ Len(Append(ss, l)) = n + 1
      /\ Append(ss, l)[n+1] = l /\ \A i \in 1 .. n : Append(ss, l)[i] = ss[i]
  <2> HIDE DEF ss, l, V, n
  <2> QED BY <1>1, <1>3, AppendProperties
<1>6. ASSUME NEW i \in 1 .. n + 1 PROVE tt[i] = Append(ss, l)[i]
  <2>1. i \in 1 .. n \/ i = n + 1
    BY <1>1
  <2>2. n + 1 \in 1 .. n + 1 /\ l = h \o <<"CRLF">>
    BY <1>1
  <2> HIDE DEF ss, l, V, n, gs, tt
  <2> QED BY <1>2, <1>3, <1>4, <1>5, <2>1, <2>2
<1>7. tt = Append(ss, l)
  <2> HIDE DEF ss, l, V, n, gs, tt
  <2> QED BY <1>4, <1>5, <1>6, SeqEqual
<1>8. FlattenSeq(Append(ss, l)) = FlattenSeq(ss) \o l
  <2> HIDE DEF ss, l
  <2> QED BY <1>1, <1>3, FlattenAppend
<1> QED BY <1>7, <1>8, Zenon DEF Body, AppendsLine

LEMMA BodyConcat ==
    ASSUME NEW S, "CRLF" \in S, NEW hs \in Seq(Seq(S)), NEW gs \in Seq(Seq(S))
    PROVE  Body(hs \o gs) = Body(hs) \o Body(gs)
<1>0. \A b, c, d \in Seq(S) : (b \o c) \o d = b \o (c \o d)
  <2> SUFFICES ASSUME NEW b \in Seq(S), NEW c \in Seq(S), NEW d \in Seq(S)
               PROVE  (b \o c) \o d = b \o (c \o d)
    OBVIOUS
  <2>1. Associate(b, c, d)
    BY AllAssociate
  <2> QED BY <2>1 DEF Associate
<1> DEFINE V == Seq(S)
           T == {n \in Nat : \A uu \in Seq(V) : Len(uu) = n => Body(hs \o uu) = Body(hs) \o Body(uu)}
<1>1. 0 \in T
  <2>1. ASSUME NEW uu \in Seq(V), Len(uu) = 0 PROVE Body(hs \o uu) = Body(hs) \o Body(uu)
    <3>1. uu = <<>> /\ hs \o uu = hs
      BY <2>1, ConcatEmptySeq
    <3>2. Body(hs) \o <<>> = Body(hs)
      BY BodyType, ConcatEmptySeq
    <3> QED BY <3>1, <3>2, BodyEmpty
  <2> QED BY <2>1
<1>2. ASSUME NEW n \in T PROVE n + 1 \in T
  <2>1. SUFFICES ASSUME NEW uu \in Seq(V), Len(uu) = n + 1
                 PROVE  Body(hs \o uu) = Body(hs) \o Body(uu)
    OBVIOUS
  <2>2. PICK front \in Seq(V), x \in V :
           /\ uu = Append(front, x) /\ Len(front) = n
           /\ x = uu[n+1] /\ \A i \in 1 .. n : front[i] = uu[i]
    <3> HIDE DEF V, T
    <3>1. n \in Nat
      BY DEF T
    <3> QED BY <2>1, <3>1, FrontAndLast
  <2>3. Body(hs \o front) = Body(hs) \o Body(front)
    BY <2>2
  <2>4. hs \o uu = Append(hs \o front, x)
    <3>1. <<x>> \in Seq(V)
      OBVIOUS
    <3>2. uu = front \o <<x>> /\ Append(hs \o front, x) = (hs \o front) \o <<x>>
      <4>1. hs \o front \in Seq(V)
        BY ConcatProperties
      <4> HIDE DEF V
      <4> QED BY <2>2, <4>1, AppendIsConcat
    <3> HIDE DEF V
    <3>3. hs \in Seq(V)
      BY DEF V
    <3> QED BY <3>1, <3>2, <3>3, ConcatAssociative
  <2>5. PICK b \in Seq(S), c \in Seq(S), l \in Seq(S) :
           b = Body(hs) /\ c = Body(front) /\ l = x \o <<"CRLF">>
    <3>1. x \o <<"CRLF">> \in Seq(S)
      OBVIOUS
    <3> QED BY <3>1, BodyType
  <2>6. Body(Append(hs \o front, x)) = (b \o c) \o l
    <3>1. hs \o front \in Seq(Seq(S))
      BY ConcatProperties
    <3>2. AppendsLine(hs \o front, x)
      BY <3>1, BodyAppend
    <3> QED BY <2>3, <2>5, <3>2 DEF AppendsLine
  <2>7. Body(uu) = c \o l
    <3>1. AppendsLine(front, x)
      BY BodyAppend
    <3> QED BY <2>2, <2>5, <3>1 DEF AppendsLine
  <2>8. (b \o c) \o l = b \o (c \o l)
    <3> HIDE DEF V, T
    <3> QED BY <1>0
  <2> QED BY <2>4, <2>5, <2>6, <2>7, <2>8, Zenon
<1>3. T = Nat
  <2> HIDE DEF T
  <2> QED BY <1>1, <1>2, SetInduction DEF T
<1>4. Len(gs) \in T
  BY <1>3
<1> QED BY <1>4

LEMMA BodyWithout ==
    ASSUME NEW S, "CRLF" \in S, NEW hs \in Seq(Seq(S)), NEW ts, "CRLF" \notin ts,
           \A i \in 1 .. Len(hs) : Without(hs[i], ts)
    PROVE  Without(Body(hs), ts)
<1>1. Without(<<"CRLF">>, ts) /\ <<"CRLF">> \in Seq(S)
  BY DEF Without
<1>2. ASSUME NEW i \in 1 .. Len(hs) PROVE Without(HeaderLines(hs)[i], ts)
  <2>1. HeaderLines(hs)[i] = hs[i] \o <<"CRLF">> /\ hs[i] \in Seq(S)
    BY HeaderLinesType, ElementOfSeq
  <2>2. PICK h \in Seq(S), l \in Seq(S) : h = hs[i] /\ l = <<"CRLF">>
    BY <1>1, <2>1
  <2>3. Without(h, ts) /\ Without(l, ts)
    BY <1>1, <2>2
  <2>4. Without(h \o l, ts)
    BY <2>3, WithoutConcat
  <2> QED BY <2>1, <2>2, <2>4
<1>3. HeaderLines(hs) \in Seq(Seq(S)) /\ Len(HeaderLines(hs)) = Len(hs)
  BY HeaderLinesType
<1> QED BY <1>2, <1>3, FlattenWithout DEF Body

-----------------------------------------------------------------------------
(* Lines                                                                   *)

LineEnds == {"CRLF", "LF"}

Ends(text)         == {0} \cup {i \in DOMAIN text : text[i] \in LineEnds}
EmptyLines(text)   == {i \in Ends(text) : i + 1 \in Ends(text)}
NextEnd(text, i)   == Min({j \in Ends(text) : j > i})
LineAfter(text, i) == SubSeq(text, i + 1, NextEnd(text, i) - 1)

LEMMA LinesAre ==
    ASSUME NEW text, EmptyLines(text) # {}
    PROVE  Lines(text) = {LineAfter(text, i) : i \in {e \in Ends(text) : e < Min(EmptyLines(text))}}
  BY Zenon DEF Lines, LineEnds, Ends, EmptyLines, NextEnd, LineAfter

\* Nothing is read behind an empty line.
LEMMA NoLines ==
    ASSUME NEW S, "CRLF" \in S, NEW t \in Seq(S)
    PROVE  EmptyLines(<<"CRLF">> \o t) # {} /\ Lines(<<"CRLF">> \o t) = {}
<1> DEFINE w == <<"CRLF">> \o t
<1>1. w \in Seq(S) /\ Len(w) = 1 + Len(t) /\ w[1] = "CRLF"
  OBVIOUS
<1> HIDE DEF w
<1>2. 1 \in DOMAIN w /\ Ends(w) \in SUBSET Nat
  BY <1>1 DEF Ends
<1>3. 0 \in Ends(w) /\ 0 + 1 \in Ends(w)
  BY <1>1, <1>2 DEF Ends, LineEnds
<1>4. 0 \in EmptyLines(w) /\ EmptyLines(w) \in SUBSET Nat
  BY <1>2, <1>3 DEF EmptyLines
<1>5. Min(EmptyLines(w)) = 0
  BY <1>4, MinOfNaturals
<1>6. {e \in Ends(w) : e < 0} = {}
  BY <1>2
<1>7. Lines(w) = {}
  BY <1>4, <1>5, <1>6, LinesAre
<1> QED BY <1>4, <1>7 DEF w

\* The part of a sequence is that of the longer one it ends.
Shifted(w, t, a, i, n) == SubSeq(w, a + i + 1, a + i + n) = SubSeq(t, i + 1, i + n)

LEMMA SubSeqShift ==
    ASSUME NEW S, NEW w \in Seq(S), NEW t \in Seq(S), NEW a \in Nat, Len(w) = a + Len(t),
           \A i \in 1 .. Len(t) : w[a + i] = t[i],
           NEW i \in Nat, NEW n \in Nat, i + n <= Len(t)
    PROVE  Shifted(w, t, a, i, n)
<1>1. PICK k \in Nat : k = a + i /\ k + n <= Len(w)
  OBVIOUS
<1>2. PICK x : x = SubSeq(w, a + i + 1, a + i + n)
  OBVIOUS
<1>3. PICK y : y = SubSeq(t, i + 1, i + n)
  OBVIOUS
<1>4. x \in Seq(S) /\ Len(x) = n /\ \A m \in 1 .. n : x[m] = w[a + i + m]
  <2>1. /\ SubSeq(w, k + 1, k + n) \in Seq(S) /\ Len(SubSeq(w, k + 1, k + n)) = n
        /\ \A m \in 1 .. n : SubSeq(w, k + 1, k + n)[m] = w[k + m]
    BY <1>1, SubSeqAt
  <2> QED BY <1>1, <1>2, <2>1
<1>5. y \in Seq(S) /\ Len(y) = n /\ \A m \in 1 .. n : y[m] = t[i + m]
  BY <1>3, SubSeqAt
<1>6. ASSUME NEW m \in 1 .. n PROVE w[a + i + m] = t[i + m]
  <2>1. i + m \in 1 .. Len(t) /\ a + i + m = a + (i + m)
    OBVIOUS
  <2> QED BY <2>1
<1>7. x = y
  BY <1>4, <1>5, <1>6, SeqEqual
<1> QED BY <1>2, <1>3, <1>7 DEF Shifted

\* A text with a line more at its front is read as that line and the rest.
LEMMA LineFirst ==
    ASSUME NEW S, NEW l \in Seq(S), l # <<>>, Without(l, LineEnds),
           NEW e \in S, e \in LineEnds,
           NEW t \in Seq(S), EmptyLines(t) # {}
    PROVE  /\ EmptyLines(l \o <<e>> \o t) # {}
           /\ Lines(l \o <<e>> \o t) = {l} \cup Lines(t)
<1> DEFINE a == Len(l) + 1
           w == l \o <<e>> \o t
<1>0. /\ w \in Seq(S) /\ a \in Nat /\ a >= 2 /\ Len(t) \in Nat /\ Len(w) = a + Len(t)
      /\ Len(l) = a - 1
      /\ \A i \in 1 .. a - 1 : w[i] = l[i]
      /\ w[a] = e
      /\ \A i \in 1 .. Len(t) : w[a + i] = t[i]
  <2>1. /\ w \in Seq(S) /\ Len(l) \in Nat /\ Len(t) \in Nat
        /\ Len(w) = Len(l) + 1 + Len(t)
        /\ \A i \in 1 .. Len(l) : w[i] = l[i]
        /\ w[Len(l) + 1] = e
        /\ \A i \in 1 .. Len(t) : w[Len(l) + 1 + i] = t[i]
    BY TokenAt
  <2>2. Len(l) >= 1
    OBVIOUS
  <2>3. a = Len(l) + 1
    OBVIOUS
  <2> HIDE DEF a, w
  <2> QED BY <2>1, <2>2, <2>3
<1>w. w = l \o <<e>> \o t
  OBVIOUS
<1> HIDE DEF a, w
<1>s. ASSUME NEW i \in Nat, NEW r \in Nat, i + r <= Len(t)
      PROVE  SubSeq(w, a + i + 1, a + i + r) = SubSeq(t, i + 1, i + r)
  <2>1. /\ w \in Seq(S) /\ t \in Seq(S) /\ a \in Nat /\ Len(w) = a + Len(t)
        /\ \A m \in 1 .. Len(t) : w[a + m] = t[m]
        /\ i \in Nat /\ r \in Nat /\ i + r <= Len(t)
    BY <1>0, <1>s
  <2>2. Shifted(w, t, a, i, r)
    BY ONLY <2>1, SubSeqShift
  <2> QED BY <2>2 DEF Shifted
<1>1. /\ Ends(w) \in SUBSET Nat /\ Ends(t) \in SUBSET Nat
      /\ DOMAIN w = 1 .. a + Len(t) /\ DOMAIN t = 1 .. Len(t)
      /\ \A i \in Ends(t) : i <= Len(t)
  BY <1>0 DEF Ends
<1>2. /\ 0 \in Ends(w) /\ 0 \in Ends(t)
      /\ \A i \in 1 .. a - 1 : i \notin Ends(w)
  <2>1. 0 \in Ends(w) /\ 0 \in Ends(t)
    BY DEF Ends
  <2>2. ASSUME NEW i \in 1 .. a - 1 PROVE i \notin Ends(w)
    <3>1. w[i] \notin LineEnds
      BY <1>0 DEF Without
    <3>2. i # 0
      BY <1>0
    <3> QED BY <3>1, <3>2 DEF Ends
  <2> QED BY <2>1, <2>2
<1>3. ASSUME NEW i \in Nat PROVE a + i \in Ends(w) <=> i \in Ends(t)
  <2>1. CASE i = 0
    BY <1>0, <1>1, <1>2, <2>1 DEF Ends
  <2>2. CASE i \in 1 .. Len(t)
    <3>1. a + i \in DOMAIN w /\ i \in DOMAIN t /\ w[a+i] = t[i] /\ a + i # 0 /\ i # 0
      BY <1>0, <1>1, <2>2
    <3> QED BY <3>1 DEF Ends
  <2>3. CASE i > Len(t)
    <3>1. a + i \notin DOMAIN w /\ i \notin DOMAIN t /\ a + i # 0 /\ i # 0
      BY <1>0, <1>1, <2>3
    <3> QED BY <3>1 DEF Ends
  <2> QED BY <1>0, <2>1, <2>2, <2>3
<1>4. ASSUME NEW j \in Ends(w) PROVE j = 0 \/ \E i \in Ends(t) : j = a + i
  <2>1. SUFFICES ASSUME j # 0 PROVE \E i \in Ends(t) : j = a + i
    OBVIOUS
  <2>2. j - a \in Nat /\ j = a + (j - a)
    BY <1>0, <1>1, <1>2, <2>1
  <2> QED BY <1>3, <2>2
<1>5. /\ EmptyLines(w) = {a + i : i \in EmptyLines(t)}
      /\ EmptyLines(t) \in SUBSET Nat
  <2>1. ASSUME NEW j \in EmptyLines(w) PROVE \E i \in EmptyLines(t) : j = a + i
    <3>1. j \in Ends(w) /\ j + 1 \in Ends(w)
      BY DEF EmptyLines
    <3>2. j # 0
      BY <1>0, <1>2, <3>1
    <3>3. PICK i \in Ends(t) : j = a + i
      BY <1>4, <3>1, <3>2
    <3>4. i + 1 \in Nat /\ j + 1 = a + (i + 1)
      BY <1>0, <1>1, <3>3
    <3> QED BY <1>3, <3>1, <3>3, <3>4 DEF EmptyLines
  <2>2. ASSUME NEW i \in EmptyLines(t) PROVE a + i \in EmptyLines(w)
    <3>1. i \in Ends(t) /\ i + 1 \in Ends(t) /\ i \in Nat /\ i + 1 \in Nat
      BY <1>1 DEF EmptyLines
    <3>2. (a + i) + 1 = a + (i + 1)
      BY <1>0, <3>1
    <3> QED BY <1>3, <3>1, <3>2 DEF EmptyLines
  <2> QED BY <1>1, <2>1, <2>2 DEF EmptyLines
<1> DEFINE m == Min(EmptyLines(t))
<1>6. /\ m \in EmptyLines(t) /\ m \in Nat /\ m + 1 \in Ends(t)
      /\ \A i \in EmptyLines(t) : m <= i
  BY <1>1, <1>5, MinOfNaturals DEF EmptyLines
<1> HIDE DEF m
<1>7. EmptyLines(w) # {} /\ Min(EmptyLines(w)) = a + m
  <2>1. a + m \in EmptyLines(w) /\ EmptyLines(w) \in SUBSET Nat
    BY <1>0, <1>5, <1>6
  <2>2. \A j \in EmptyLines(w) : a + m <= j
    BY <1>0, <1>5, <1>6
  <2>3. Min(EmptyLines(w)) \in EmptyLines(w) /\ Min(EmptyLines(w)) <= a + m
    BY <2>1, MinOfNaturals
  <2> QED BY <1>0, <1>6, <2>1, <2>2, <2>3
<1>8. LineAfter(w, 0) = l
  <2>1. NextEnd(w, 0) = a
    <3> DEFINE next == {j \in Ends(w) : j > 0}
    <3>1. a \in next /\ next \in SUBSET Nat
      <4>1. a + 0 \in Ends(w) /\ a + 0 = a
        BY <1>0, <1>2, <1>3
      <4> QED BY <1>0, <1>1, <4>1
    <3>2. \A j \in next : j >= a
      BY <1>0, <1>1, <1>2
    <3>3. Min(next) \in next /\ Min(next) <= a
      BY <3>1, MinOfNaturals
    <3>4. Min(next) = a
      BY <1>0, <3>1, <3>2, <3>3
    <3> QED BY <3>4 DEF NextEnd
  <2>2. PICK x : x = SubSeq(w, 1, a - 1)
    OBVIOUS
  <2>3. x \in Seq(S) /\ Len(x) = a - 1 /\ \A i \in 1 .. a - 1 : x[i] = w[i]
    BY <1>0, <2>2
  <2>4. x = l
    BY <1>0, <2>3, SeqEqual
  <2> QED BY <2>1, <2>2, <2>4 DEF LineAfter
<1>9. ASSUME NEW i \in Ends(t), i < m PROVE LineAfter(w, a + i) = LineAfter(t, i)
  <2> DEFINE here == {j \in Ends(t) : j > i}
             there == {j \in Ends(w) : j > a + i}
             n == Min(here)
  <2>0. a \in Nat /\ Len(t) \in Nat
    BY <1>0
  <2>1. m + 1 \in here /\ here \in SUBSET Nat /\ i \in Nat
    BY <1>1, <1>6, <1>9
  <2>2. n \in here /\ \A j \in here : n <= j
    BY <2>1, MinOfNaturals
  <2>3. n \in Nat /\ n > i /\ n <= Len(t) /\ n \in Ends(t) /\ n = NextEnd(t, i)
    BY <1>1, <2>1, <2>2 DEF NextEnd
  <2> HIDE DEF n
  <2>4. a + n \in there /\ there \in SUBSET Nat
    <3>1. a + n > a + i
      BY <2>0, <2>1, <2>3
    <3>2. a + n \in Ends(w)
      BY <1>3, <2>3
    <3> QED BY <1>1, <3>1, <3>2
  <2>5. ASSUME NEW j \in there PROVE a + n <= j
    <3>1. PICK p \in Ends(t) : j = a + p
      BY <1>0, <1>4, <2>1
    <3>2. p \in here
      BY <1>0, <1>1, <2>1, <3>1
    <3> QED BY <1>0, <1>1, <2>2, <2>3, <3>1, <3>2
  <2>6. Min(there) \in there /\ Min(there) <= a + n
    BY <2>4, MinOfNaturals
  <2>7. Min(there) = a + n
    BY <1>0, <2>3, <2>4, <2>5, <2>6
  <2>8. NextEnd(w, a + i) = a + n
    BY <2>7 DEF NextEnd
  <2>9. PICK r \in Nat : r = n - i - 1 /\ i + r <= Len(t)
    BY <2>0, <2>1, <2>3
  <2>10. SubSeq(w, a + i + 1, a + i + r) = SubSeq(t, i + 1, i + r)
    <3> HIDE DEF here, there
    <3> QED BY <1>s, <2>1, <2>9
  <2>11. a + i + r = (a + n) - 1 /\ i + r = n - 1
    <3>1. a \in Nat /\ i \in Nat /\ n \in Nat /\ r \in Nat /\ r = n - i - 1
      BY <2>0, <2>1, <2>3, <2>9
    <3> QED BY ONLY <3>1
  <2> HIDE DEF here, there
  <2>12. LineAfter(w, a + i) = SubSeq(w, a + i + 1, (a + n) - 1)
    BY <2>8, Zenon DEF LineAfter
  <2>13. LineAfter(t, i) = SubSeq(t, i + 1, n - 1)
    BY <2>3, Zenon DEF LineAfter
  <2> QED BY <2>10, <2>11, <2>12, <2>13, Zenon
<1>10. Lines(w) = {l} \cup Lines(t)
  <2> DEFINE from  == {j \in Ends(t) : j < m}
             fromW == {j \in Ends(w) : j < a + m}
  <2>1. Lines(w) = {LineAfter(w, j) : j \in fromW} /\ Lines(t) = {LineAfter(t, j) : j \in from}
    BY <1>7, LinesAre DEF m
  <2>2. 0 \in fromW /\ \A i \in from : a + i \in fromW
    <3>1. a \in Nat /\ a > 0 /\ m \in Nat /\ Ends(t) \in SUBSET Nat
      BY <1>0, <1>1, <1>6
    <3>2. ASSUME NEW i \in from PROVE a + i \in fromW
      <4>1. i \in Ends(t) /\ i \in Nat /\ a + i < a + m
        BY <3>1
      <4> QED BY <1>3, <4>1
    <3>3. 0 < a + m
      BY <3>1
    <3> QED BY <1>2, <3>2, <3>3
  <2>3. ASSUME NEW j \in fromW PROVE j = 0 \/ \E i \in from : j = a + i
    BY <1>0, <1>1, <1>4, <1>6
  <2>4. \A i \in from : LineAfter(w, a + i) = LineAfter(t, i)
    BY <1>9
  <2> HIDE DEF from, fromW
  <2> QED BY <1>8, <2>1, <2>2, <2>3, <2>4
<1> QED BY <1>7, <1>10, <1>w

FirstLine(l, e, t) == /\ EmptyLines(l \o <<e>> \o t) # {}
                      /\ Lines(l \o <<e>> \o t) = {l} \cup Lines(t)

LEMMA FirstLineRead ==
    ASSUME NEW S, NEW l \in Seq(S), l # <<>>, Without(l, LineEnds),
           NEW e \in S, e \in LineEnds,
           NEW t \in Seq(S), EmptyLines(t) # {}
    PROVE  FirstLine(l, e, t)
  BY LineFirst DEF FirstLine

\* Header by header, a text is read as the headers and what comes behind them.
LEMMA HeadersRead ==
    ASSUME NEW S, "CRLF" \in S, NEW hs \in Seq(Seq(S)),
           \A i \in 1 .. Len(hs) : hs[i] # <<>> /\ Without(hs[i], LineEnds),
           NEW t \in Seq(S), EmptyLines(t) # {}
    PROVE  /\ EmptyLines(Body(hs) \o t) # {}
           /\ Lines(Body(hs) \o t) = ToSet(hs) \cup Lines(t)
<1> DEFINE V == Seq(S)
           Lined(uu) == \A i \in 1 .. Len(uu) : uu[i] # <<>> /\ Without(uu[i], LineEnds)
           Read(uu, r) == /\ EmptyLines(Body(uu) \o r) # {}
                          /\ Lines(Body(uu) \o r) = ToSet(uu) \cup Lines(r)
           T == {n \in Nat : \A uu \in Seq(V), r \in Seq(S) :
                    Len(uu) = n /\ Lined(uu) /\ EmptyLines(r) # {} => Read(uu, r)}
<1>0. \A b, c, d \in Seq(S) : (b \o c) \o d = b \o (c \o d)
  <2> SUFFICES ASSUME NEW b \in Seq(S), NEW c \in Seq(S), NEW d \in Seq(S)
               PROVE  (b \o c) \o d = b \o (c \o d)
    OBVIOUS
  <2>1. Associate(b, c, d)
    BY AllAssociate
  <2> QED BY <2>1 DEF Associate
<1>1. 0 \in T
  <2>1. ASSUME NEW uu \in Seq(V), NEW r \in Seq(S), Len(uu) = 0, EmptyLines(r) # {}
        PROVE  Read(uu, r)
    <3>1. uu = <<>> /\ ToSet(uu) = {}
      BY <2>1 DEF ToSet
    <3>2. <<>> \o r = r
      BY ConcatEmptySeq
    <3>3. Body(uu) \o r = r
      BY <3>1, <3>2, BodyEmpty, Zenon
    <3> QED BY <2>1, <3>1, <3>3, Zenon
  <2> QED BY <2>1
<1>2. ASSUME NEW n \in T PROVE n + 1 \in T
  <2>1. SUFFICES ASSUME NEW uu \in Seq(V), NEW r \in Seq(S),
                        Len(uu) = n + 1, Lined(uu), EmptyLines(r) # {}
                 PROVE  Read(uu, r)
    <3> HIDE DEF V, Lined, Read
    <3>1. n + 1 \in Nat
      OBVIOUS
    <3> QED BY <3>1
  <2>2. PICK front \in Seq(V), x \in V :
           /\ uu = Append(front, x) /\ Len(front) = n
           /\ x = uu[n+1] /\ \A i \in 1 .. n : front[i] = uu[i]
    <3> HIDE DEF V, T, Lined, Read
    <3>1. n \in Nat
      BY DEF T
    <3> QED BY <2>1, <3>1, FrontAndLast
  <2>3. Lined(front) /\ x # <<>> /\ Without(x, LineEnds)
    <3>1. n + 1 \in 1 .. n + 1 /\ \A i \in 1 .. n : i \in 1 .. n + 1
      OBVIOUS
    <3> HIDE DEF V, T, Read
    <3> QED BY <2>1, <2>2, <3>1
  <2> DEFINE rest == x \o <<"CRLF">> \o r
  <2>4. rest \in Seq(S) /\ EmptyLines(rest) # {} /\ Lines(rest) = {x} \cup Lines(r)
    <3>1. x \in Seq(S) /\ "CRLF" \in LineEnds /\ x \o <<"CRLF">> \o r \in Seq(S)
      BY DEF LineEnds
    <3> HIDE DEF T, V, Lined, Read
    <3> QED BY <2>1, <2>3, <3>1, LineFirst
  <2>5. Read(front, rest)
    <3> HIDE DEF rest, Read, Lined
    <3> QED BY <2>2, <2>3, <2>4
  <2>6. Body(uu) \o r = Body(front) \o rest
    <3>1. PICK b \in Seq(S), c \in Seq(S) : b = Body(front) /\ c = x \o <<"CRLF">>
      <4>1. x \o <<"CRLF">> \in Seq(S)
        OBVIOUS
      <4> QED BY <4>1, BodyType
    <3>2. Body(uu) = b \o c
      <4>1. AppendsLine(front, x)
        BY BodyAppend
      <4> QED BY <2>2, <3>1, <4>1 DEF AppendsLine
    <3>3. (b \o c) \o r = b \o (c \o r)
      <4> HIDE DEF T, V
      <4> QED BY <1>0
    <3> QED BY <3>1, <3>2, <3>3, Zenon
  <2>7. ToSet(uu) = ToSet(front) \cup {x}
    <3>1. DOMAIN uu = 1 .. n + 1 /\ DOMAIN front = 1 .. n /\ n \in Nat
      BY <2>1, <2>2
    <3>2. 1 .. n + 1 = (1 .. n) \cup {n + 1}
      BY <3>1
    <3> HIDE DEF T, V
    <3> QED BY <2>2, <3>1, <3>2 DEF ToSet
  <2>8. EmptyLines(Body(uu) \o r) # {}
    BY <2>5, <2>6, Zenon
  <2>9. Lines(Body(uu) \o r) = ToSet(front) \cup ({x} \cup Lines(r))
    BY <2>4, <2>5, <2>6, Zenon
  <2> HIDE DEF T, V
  <2> QED BY <2>7, <2>8, <2>9
<1>3. T = Nat
  <2> HIDE DEF T
  <2> QED BY <1>1, <1>2, SetInduction DEF T
<1>4. Len(hs) \in T
  <2>1. Len(hs) \in Nat
    OBVIOUS
  <2> HIDE DEF T
  <2> QED BY <1>3, <2>1
<1>5. Read(hs, t)
  <2>1. hs \in Seq(V) /\ Lined(hs)
    OBVIOUS
  <2> HIDE DEF V, Lined, Read
  <2> QED BY <1>4, <2>1
<1> QED BY <1>5

\* The headers of a request, each of them a line.
Proper(hs) == \A i \in 1 .. Len(hs) : hs[i] # <<>> /\ Without(hs[i], LineEnds)

FirstHeaders(hs, t) == /\ EmptyLines(Body(hs) \o t) # {}
                       /\ Lines(Body(hs) \o t) = ToSet(hs) \cup Lines(t)

LEMMA FirstHeadersRead ==
    ASSUME NEW S, "CRLF" \in S, NEW hs \in Seq(Seq(S)), Proper(hs),
           NEW t \in Seq(S), EmptyLines(t) # {}
    PROVE  FirstHeaders(hs, t)
  BY HeadersRead DEF Proper, FirstHeaders

-----------------------------------------------------------------------------
(* The edits of a text made of parts                                       *)

\* Four parts, in the two ways in which the edits see them.
Regrouped(S, p, v, c, t) ==
    /\ p \o (v \o c \o t) = p \o v \o (c \o t)
    /\ p \o v \in Seq(S) /\ c \o t \in Seq(S) /\ v \o c \o t \in Seq(S)
    /\ p \o v \o (c \o t) \in Seq(S)

LEMMA Regroup ==
    ASSUME NEW S, NEW p \in Seq(S), NEW v \in Seq(S), NEW c \in Seq(S), NEW t \in Seq(S)
    PROVE  Regrouped(S, p, v, c, t)
<1>2. ASSUME NEW x \in Seq(S), NEW y \in Seq(S) PROVE x \o y \in Seq(S)
  BY ConcatProperties
<1>3. PICK d \in Seq(S) : d = c \o t
  BY <1>2
<1>1. Associate(v, c, t) /\ Associate(p, v, d)
  BY AllAssociate
<1>4. v \o c \o t = v \o d
  BY <1>1, <1>3 DEF Associate
<1>5. (p \o v) \o d = p \o (v \o d)
  BY <1>1 DEF Associate
<1>6. p \o v \in Seq(S) /\ v \o d \in Seq(S)
  BY <1>2
<1>7. (p \o v) \o d \in Seq(S)
  BY <1>2, <1>6
<1> QED BY <1>3, <1>4, <1>5, <1>6, <1>7 DEF Regrouped

LEMMA FindLater ==
    ASSUME NEW S, NEW s \in Seq(S), NEW x \in S, NEW v \in Seq(S), NEW y \in S, NEW t \in Seq(S),
           NEW ts, y \in ts, Without(v, ts)
    PROVE  Find(s \o <<x>> \o (v \o <<y>> \o t), Len(s) + 2, ts) = Len(s) + Len(v) + 2
<1> DEFINE a == Len(s)
           b == Len(v)
           u == v \o <<y>> \o t
           w == s \o <<x>> \o u
<1>1. /\ u \in Seq(S) /\ b \in Nat /\ Len(u) = b + 1 + Len(t) /\ Len(t) \in Nat
      /\ \A i \in 1 .. b : u[i] = v[i]
      /\ u[b+1] = y
  BY TokenAt
<1>2. /\ w \in Seq(S) /\ a \in Nat /\ Len(w) = a + 1 + Len(u)
      /\ \A i \in 1 .. Len(u) : w[a + 1 + i] = u[i]
  <2>1. u \in Seq(S)
    BY <1>1
  <2> HIDE DEF u
  <2> QED BY ONLY <2>1, TokenAt
<1>3. a = Len(s) /\ b = Len(v) /\ w = s \o <<x>> \o (v \o <<y>> \o t)
  OBVIOUS
<1> HIDE DEF a, b, u, w
<1>4. PICK i \in Nat \ {0}, j \in Nat : i = a + 2 /\ j = a + b + 2
  BY <1>1, <1>2
<1>5. j \in i .. Len(w) /\ w[j] \in ts
  <2>1. b + 1 \in 1 .. Len(u) /\ j = a + 1 + (b + 1)
    BY <1>1, <1>2, <1>4
  <2>2. j \in i .. Len(w)
    BY <1>1, <1>2, <1>4
  <2> QED BY <1>1, <1>2, <2>1, <2>2
<1>6. ASSUME NEW m \in i .. j - 1 PROVE w[m] \notin ts
  <2>1. PICK n \in 1 .. b : m = a + 1 + n
    <3>1. m - (a + 1) \in 1 .. b /\ m = a + 1 + (m - (a + 1))
      BY <1>1, <1>2, <1>4
    <3> QED BY <3>1
  <2>2. n \in 1 .. Len(u)
    BY <1>1
  <2>3. w[m] = v[n]
    BY <1>1, <1>2, <2>1, <2>2
  <2> QED BY <1>3, <2>3 DEF Without
<1>7. Find(w, i, ts) = j
  BY <1>2, <1>5, <1>6, FindFirst
<1> QED BY <1>3, <1>4, <1>7

LEMMA OverwrittenSame ==
    ASSUME NEW S, NEW text \in Seq(S), NEW x, NEW i \in Nat,
           i \in 1 .. Len(text) => text[i] = x
    PROVE  Overwritten(text, i, <<x>>) = text
<1>1. Len(<<x>>) = 1 /\ <<x>>[1] = x /\ DOMAIN text = 1 .. Len(text)
  OBVIOUS
<1>2. \A j \in 1 .. Len(text) : j \in i .. i + 1 - 1 => j = i /\ j - i + 1 = 1
  OBVIOUS
<1>3. Overwritten(text, i, <<x>>) = [j \in DOMAIN text |-> text[j]]
  BY <1>1, <1>2 DEF Overwritten
<1>4. text = [j \in DOMAIN text |-> text[j]]
  OBVIOUS
<1> QED BY <1>3, <1>4

\* The version becomes 1.1, if what is before it does not look like 1.0.
SetsVersion(s, v, t) == SetVersion(s \o <<v>> \o t, v) = s \o <<"/1.1">> \o t

LEMMA VersionSet ==
    ASSUME NEW S, "/1.1" \in S, NEW s \in Seq(S), NEW v \in S \cap Versions, NEW t \in Seq(S),
           Without(s, {"/1.0"})
    PROVE  SetsVersion(s, v, t)
<1> DEFINE w   == s \o <<v>> \o t
           old == Find(w, 1, {v})
<1> SUFFICES SetVersion(w, v) = s \o <<"/1.1">> \o t
  BY DEF SetsVersion
<1>1. SetVersion(w, v) = Overwritten(w, old, <<"/1.1">>)
  BY DEF SetVersion
<1>2. <<"/1.1">> \in Seq(S) /\ <<v>> \in Seq(S) /\ Len(<<v>>) = 1 /\ Len(<<"/1.1">>) = 1
  OBVIOUS
<1>3. CASE v = "/1.0"
  <2>1. old = Len(s) + 1
    BY <1>3, FindBehind
  <2>2. Overwritten(w, Len(s) + 1, <<"/1.1">>) = s \o <<"/1.1">> \o t
    <3>1. PICK x \in Seq(S), y \in Seq(S) : x = <<v>> /\ y = <<"/1.1">> /\ Len(x) = Len(y)
      BY <1>2
    <3>2. TakesPlace(s, x, t, y)
      <4>1. Len(y) = Len(x)
        BY <3>1
      <4> QED BY <4>1, OverwrittenPart
    <3> QED BY <3>1, <3>2 DEF TakesPlace
  <2> QED BY <1>1, <2>1, <2>2
<1>4. CASE v = "/1.1"
  <2>1. w \in Seq(S)
    BY TokenAt
  <2>2. w = s \o <<"/1.1">> \o t
    BY <1>4
  <2> HIDE DEF w
  <2>3. old = 0 \/ (old \in 1 .. Len(w) /\ w[old] \in {v})
    BY <2>1, FindInText
  <2> HIDE DEF old
  <2>4. old \in Nat /\ (old \in 1 .. Len(w) => w[old] = "/1.1")
    BY <1>4, <2>1, <2>3
  <2>5. Overwritten(w, old, <<"/1.1">>) = w
    BY <2>1, <2>4, OverwrittenSame
  <2> QED BY <1>1, <2>2, <2>5
<1> QED BY <1>3, <1>4 DEF Versions

\* The value of the last Connection header becomes close, if it is as long.
Closes(s, v, t) ==
    SetConnection(s \o <<"Connection">> \o (v \o <<"CRLF">> \o t))
        = s \o <<"Connection">> \o (Close \o <<"CRLF">> \o t)

LEMMA ConnectionSet ==
    ASSUME NEW S, Words \subseteq S, NEW s \in Seq(S), NEW v \in Seq(S), NEW t \in Seq(S),
           EndsLine(s), Len(v) >= Len(Close), Without(v, {"CRLF"}),
           Without(v, {"Connection"}), Without(t, {"Connection"})
    PROVE  Closes(s, v, t)
<1> DEFINE a == Len(s)
           b == Len(v)
           p == s \o <<"Connection">>
           u == v \o <<"CRLF">> \o t
           d == <<"CRLF">> \o t
           w == p \o u
           name == LastConnection(w)
           end  == Find(w, name + 1, {"CRLF"})
<1>1. /\ "Connection" \in S /\ "CRLF" \in S /\ Close \in Seq(S) /\ Len(Close) = 2
      /\ a \in Nat /\ b \in Nat /\ b >= 2
      /\ <<"CRLF">> \in Seq(S) /\ <<"Connection">> \in Seq(S)
  BY DEF Words, Close
<1>2. /\ p \in Seq(S) /\ Len(p) = a + 1 /\ u \in Seq(S) /\ d \in Seq(S)
      /\ Len(u) = b + Len(d)
  <2>1. u = v \o d
    <3>1. Associate(v, <<"CRLF">>, t)
      BY ONLY <1>1, AllAssociate, v \in Seq(S), t \in Seq(S)
    <3> QED BY <3>1 DEF Associate
  <2>2. p \in Seq(S) /\ Len(p) = a + 1
    <3> HIDE DEF u, d, w, name, end
    <3> QED BY <1>1
  <2>3. d \in Seq(S)
    BY <1>1
  <2>4. v \o d \in Seq(S) /\ Len(v \o d) = b + Len(d)
    <3> HIDE DEF d, p, u, w, name, end
    <3> QED BY <2>3, ConcatProperties
  <2> QED BY <2>1, <2>2, <2>3, <2>4, Zenon
<1>3. name = a + 1
  <2>1. Without(u, {"Connection"})
    <3>1. Without(<<"CRLF">>, {"Connection"})
      BY DEF Without
    <3>2. v \o <<"CRLF">> \in Seq(S) /\ Without(v \o <<"CRLF">>, {"Connection"})
      <4>1. PICK l \in Seq(S) : l = <<"CRLF">>
        BY <1>1
      <4> HIDE DEF u, d, p, w, name, end
      <4> QED BY <3>1, <4>1, WithoutConcat, ConcatProperties
    <3>3. PICK l \in Seq(S) : l = v \o <<"CRLF">>
      BY <3>2
    <3>4. Without(l \o t, {"Connection"})
      BY <3>2, <3>3, WithoutConcat
    <3> QED BY <3>3, <3>4
  <2>2. LastConnection(s \o <<"Connection">> \o u) = Len(s) + 1
    <3> HIDE DEF a, b, p, u, d, w, name, end
    <3> QED BY <1>1, <1>2, <2>1, LastConnectionIs
  <2> QED BY <2>2
<1>4. end = a + b + 2
  <2>1. name + 1 = a + 2
    BY <1>1, <1>3
  <2>2. Find(s \o <<"Connection">> \o (v \o <<"CRLF">> \o t), Len(s) + 2, {"CRLF"})
           = Len(s) + Len(v) + 2
    <3> HIDE DEF a, b, p, u, d, w, name, end
    <3> QED BY <1>1, FindLater
  <2> HIDE DEF name
  <2> QED BY <2>1, <2>2
<1>5. w = p \o v \o d /\ p \o v \in Seq(S) /\ w \in Seq(S) /\ Len(p \o v) = a + 1 + b
  <2>1. PICK l \in Seq(S), q \in Seq(S) : l = <<"CRLF">> /\ q = p
    BY <1>1, <1>2
  <2>2. Regrouped(S, q, v, l, t)
    BY Regroup
  <2>3. Len(q \o v) = Len(q) + Len(v)
    <3> HIDE DEF a, b, p, u, d, w, name, end
    <3> QED BY ConcatProperties
  <2> HIDE DEF name, end
  <2> QED BY <1>2, <2>1, <2>2, <2>3 DEF Regrouped
<1>0. a = Len(s) /\ b = Len(v)
  OBVIOUS
<1>6. SetConnection(w) = IF end - (name + 1) > Len(Close)
                         THEN SubSeq(w, 1, name) \o Close \o SubSeq(w, end, Len(w))
                         ELSE Overwritten(w, name + 1, Close)
  <2>1. name # 0
    BY <1>1, <1>3
  <2> QED BY <2>1 DEF SetConnection
<1> HIDE DEF name, end, a, b
<1>7. end - (name + 1) = b /\ name + 1 = a + 2
  BY <1>1, <1>3, <1>4
<1>8. SetConnection(w) = p \o Close \o d
  <2>1. CASE b > Len(Close)
    <3>1. SubSeq(w, 1, name) = p
      <4>1. w = p \o u /\ name = Len(p)
        BY <1>2, <1>3
      <4>2. SubSeq(p \o u, 1, Len(p)) = p
        <5> HIDE DEF p, u, d, w
        <5> QED BY <1>2, PartsOf
      <4> QED BY <4>1, <4>2
    <3>2. SubSeq(w, end, Len(w)) = d
      <4>1. PICK r \in Seq(S) : r = p \o v /\ w = r \o d /\ Len(r) = a + 1 + b
        BY <1>5
      <4>2. Len(w) = Len(r) + Len(d) /\ SubSeq(w, Len(r) + 1, Len(r) + Len(d)) = d
        <5>1. r \in Seq(S) /\ d \in Seq(S) /\ w = r \o d
          BY <1>2, <4>1
        <5> HIDE DEF p, u, d, w
        <5>2. /\ Len(r \o d) = Len(r) + Len(d)
              /\ SubSeq(r \o d, Len(r) + 1, Len(r) + Len(d)) = d
          BY ONLY <5>1, PartsOf
        <5> QED BY <5>1, <5>2
      <4> HIDE DEF p, u, d, w
      <4>3. end = Len(r) + 1
        BY <1>1, <1>4, <4>1
      <4> QED BY <4>2, <4>3
    <3> HIDE DEF p, u, d, w
    <3> QED BY <1>6, <1>7, <2>1, <3>1, <3>2
  <2>2. CASE ~ (b > Len(Close))
    <3>1. Len(Close) = Len(v)
      BY <1>0, <1>1, <2>2
    <3>2. TakesPlace(p, v, d, Close)
      <4> HIDE DEF p, u, d, w
      <4> QED BY <1>1, <1>2, <3>1, OverwrittenPart
    <3>3. a + 2 = Len(p) + 1
      BY <1>1, <1>2
    <3> HIDE DEF p, u, d, w
    <3> QED BY <1>5, <1>6, <1>7, <2>2, <3>2, <3>3 DEF TakesPlace
  <2> QED BY <2>1, <2>2
<1>9. p \o Close \o d = p \o (Close \o <<"CRLF">> \o t)
  <2>1. PICK l \in Seq(S), q \in Seq(S) : l = <<"CRLF">> /\ q = p
    BY <1>1, <1>2
  <2>2. Regrouped(S, q, Close, l, t)
    BY <1>1, Regroup
  <2> QED BY <2>1, <2>2 DEF Regrouped
<1> QED BY <1>8, <1>9 DEF Closes

\* An absolute URL becomes a path.
MakesPath(s, h, t) ==
    MakeRelative(s \o <<"http://">> \o (h \o <<"/page">> \o t)) = s \o (<<"/page">> \o t)

LEMMA RelativeMade ==
    ASSUME NEW S, "http://" \in S, "/page" \in S,
           NEW s \in Seq(S), NEW h \in Seq(S), NEW t \in Seq(S),
           Without(s, {"http://"}), Without(h, Slashed)
    PROVE  MakesPath(s, h, t)
<1> DEFINE a == Len(s)
           b == Len(h)
           p == s \o <<"http://">>
           u == h \o <<"/page">> \o t
           d == <<"/page">> \o t
           w == p \o u
           url   == Find(w, 1, {"http://"})
           slash == Find(w, url + 1, Slashed)
<1>0. a = Len(s) /\ b = Len(h) /\ w = s \o <<"http://">> \o u /\ w = p \o u
  OBVIOUS
<1>1. /\ a \in Nat /\ b \in Nat /\ "/page" \in Slashed
      /\ <<"/page">> \in Seq(S) /\ <<"http://">> \in Seq(S) /\ Len(<<"http://">>) = 1
  BY DEF Slashed
<1>2. u \in Seq(S) /\ d \in Seq(S) /\ p \in Seq(S) /\ Len(p) = a + 1
  <2>1. u \in Seq(S)
    BY TokenAt
  <2>2. d \in Seq(S)
    BY <1>1
  <2> HIDE DEF u, d, w, url, slash
  <2>3. p \in Seq(S) /\ Len(p) = a + 1
    BY <1>1
  <2> QED BY <2>1, <2>2, <2>3
<1>3. url = a + 1
  <2>1. Find(s \o <<"http://">> \o u, 1, {"http://"}) = Len(s) + 1
    <3> HIDE DEF u
    <3> QED BY <1>2, FindBehind
  <2> QED BY <2>1
<1>4. slash = a + b + 2
  <2>1. url + 1 = a + 2
    BY <1>1, <1>3
  <2>2. Find(s \o <<"http://">> \o (h \o <<"/page">> \o t), Len(s) + 2, Slashed)
           = Len(s) + Len(h) + 2
    <3> HIDE DEF a, b, p, u, d, w, url, slash
    <3> QED BY <1>1, FindLater
  <2> HIDE DEF url
  <2> QED BY <2>1, <2>2
<1>5. MakeRelative(w) = IF url = 0 \/ slash = 0 THEN w
                        ELSE SubSeq(w, 1, url - 1) \o SubSeq(w, slash, Len(w))
  BY DEF MakeRelative
<1>6. w = p \o h \o d /\ p \o h \in Seq(S) /\ w \in Seq(S) /\ Len(p \o h) = a + 1 + b
  <2>1. PICK l \in Seq(S), q \in Seq(S) : l = <<"/page">> /\ q = p
    BY <1>1, <1>2
  <2>2. Regrouped(S, q, h, l, t)
    BY Regroup
  <2>3. Len(q \o h) = Len(q) + Len(h)
    <3> HIDE DEF a, b, p, u, d, w, url, slash
    <3> QED BY ConcatProperties
  <2> HIDE DEF url, slash
  <2> QED BY <1>2, <2>1, <2>2, <2>3 DEF Regrouped
<1> HIDE DEF url, slash, a, b
<1>7. SubSeq(w, 1, url - 1) = s
  <2>1. url - 1 = a /\ Associate(s, <<"http://">>, u)
    <3>1. Associate(s, <<"http://">>, u)
      <4> HIDE DEF u, p, d, w
      <4> QED BY <1>1, <1>2, AllAssociate
    <3> QED BY <1>1, <1>3, <3>1
  <2>2. PICK r \in Seq(S) : r = <<"http://">> \o u
    <3> HIDE DEF u, d, w
    <3> QED BY <1>1, <1>2, ConcatProperties
  <2>3. w = s \o r
    BY <1>0, <2>1, <2>2 DEF Associate
  <2>4. SubSeq(s \o r, 1, Len(s)) = s
    <3> HIDE DEF u, p, d, w
    <3> QED BY PartsOf
  <2> HIDE DEF u, p, d, w
  <2> QED BY <1>0, <2>1, <2>3, <2>4
<1>8. SubSeq(w, slash, Len(w)) = d
  <2>1. PICK r \in Seq(S) : r = p \o h /\ w = r \o d /\ Len(r) = a + 1 + b
    BY <1>6
  <2> HIDE DEF p, u, d, w
  <2>2. Len(w) = Len(r) + Len(d) /\ SubSeq(w, Len(r) + 1, Len(r) + Len(d)) = d
    <3>1. /\ Len(r \o d) = Len(r) + Len(d)
          /\ SubSeq(r \o d, Len(r) + 1, Len(r) + Len(d)) = d
      BY <1>2, PartsOf
    <3> QED BY <2>1, <3>1
  <2>3. slash = Len(r) + 1
    BY <1>1, <1>4, <2>1
  <2> QED BY <2>2, <2>3
<1>9. url # 0 /\ slash # 0
  BY <1>1, <1>3, <1>4
<1> HIDE DEF p, w
<1> QED BY <1>0, <1>5, <1>7, <1>8, <1>9 DEF MakesPath

LEMMA RelativeKept ==
    ASSUME NEW S, NEW text \in Seq(S), Without(text, {"http://"})
    PROVE  MakeRelative(text) = text
<1>1. 1 \in Nat \ {0}
  OBVIOUS
<1>2. Find(text, 1, {"http://"}) = 0
  BY <1>1, FindNone
<1> QED BY <1>2 DEF MakeRelative

-----------------------------------------------------------------------------
(* Where the empty line is                                                 *)

\* No line is empty, the first one neither.
Spaced(t) == /\ Len(t) > 0 => t[1] # "CRLF"
             /\ \A i \in 1 .. Len(t) - 1 : t[i] = "CRLF" => t[i+1] # "CRLF"

LEMMA SpacedConcat ==
    ASSUME NEW S, NEW s \in Seq(S), NEW t \in Seq(S), Spaced(s), Spaced(t)
    PROVE  Spaced(s \o t)
<1> DEFINE a == Len(s)
           b == Len(t)
           w == s \o t
<1>0. /\ w \in Seq(S) /\ a \in Nat /\ b \in Nat /\ Len(w) = a + b
      /\ a = Len(s) /\ b = Len(t) /\ w = s \o t
      /\ \A i \in 1 .. a : w[i] = s[i]
      /\ \A i \in 1 .. b : w[a + i] = t[i]
  BY ConcatAt
<1>s. /\ a > 0 => s[1] # "CRLF"
      /\ \A i \in 1 .. a - 1 : s[i] = "CRLF" => s[i+1] # "CRLF"
      /\ b > 0 => t[1] # "CRLF"
      /\ \A i \in 1 .. b - 1 : t[i] = "CRLF" => t[i+1] # "CRLF"
  BY DEF Spaced
<1> HIDE DEF w, a, b
<1>1. a + b > 0 => w[1] # "CRLF"
  <2>1. CASE a > 0
    BY <1>0, <1>s, <2>1
  <2>2. CASE a = 0 /\ b > 0
    <3>1. 1 \in 1 .. b /\ a + 1 = 1
      BY <1>0, <2>2
    <3> QED BY <1>0, <1>s, <2>2, <3>1
  <2> QED BY <1>0, <2>1, <2>2
<1>2. ASSUME NEW i \in 1 .. a + b - 1, w[i] = "CRLF" PROVE w[i+1] # "CRLF"
  <2>1. CASE i < a
    <3>1. i \in 1 .. a - 1 /\ i \in 1 .. a /\ i + 1 \in 1 .. a
      BY <1>0, <2>1
    <3> QED BY <1>0, <1>2, <1>s, <3>1
  <2>2. CASE i = a
    <3>1. 1 \in 1 .. b /\ b > 0 /\ i + 1 = a + 1
      BY <1>0, <2>2
    <3> QED BY <1>0, <1>s, <3>1
  <2>3. CASE i > a
    <3>1. PICK m \in 1 .. b - 1 : i = a + m
      <4>1. i - a \in 1 .. b - 1 /\ i = a + (i - a)
        BY <1>0, <2>3
      <4> QED BY <4>1
    <3>2. m \in 1 .. b /\ m + 1 \in 1 .. b /\ i + 1 = a + (m + 1)
      BY <1>0, <3>1
    <3>3. w[i] = t[m] /\ w[i+1] = t[m+1]
      BY <1>0, <3>1, <3>2
    <3> QED BY <1>2, <1>s, <3>1, <3>3
  <2> QED BY <1>0, <2>1, <2>2, <2>3
<1>3. Spaced(w)
  BY <1>0, <1>1, <1>2 DEF Spaced
<1> QED BY <1>0, <1>3

LEMMA LineSpaced ==
    ASSUME NEW S, "CRLF" \in S, NEW h \in Seq(S), h # <<>>, Without(h, {"CRLF"})
    PROVE  Spaced(h \o <<"CRLF">>)
<1> DEFINE a == Len(h)
           w == h \o <<"CRLF">>
<1>1. /\ a \in Nat \ {0} /\ Len(w) = a + 1 /\ w = h \o <<"CRLF">>
      /\ \A i \in 1 .. a : w[i] = h[i]
  OBVIOUS
<1>2. \A i \in 1 .. a : h[i] # "CRLF"
  BY DEF Without
<1> HIDE DEF a, w
<1>3. 1 \in 1 .. a /\ Len(w) - 1 = a
  BY <1>1
<1>4. Spaced(w)
  BY <1>1, <1>2, <1>3 DEF Spaced
<1> QED BY <1>1, <1>4

LEMMA FlattenSpaced ==
    ASSUME NEW S, NEW ss \in Seq(Seq(S)), \A i \in 1 .. Len(ss) : Spaced(ss[i])
    PROVE  Spaced(FlattenSeq(ss))
<1> DEFINE V == Seq(S)
           Parts(uu) == \A i \in 1 .. Len(uu) : Spaced(uu[i])
           T == {n \in Nat : \A uu \in Seq(V) :
                    Len(uu) = n /\ Parts(uu) => Spaced(FlattenSeq(uu))}
<1>1. 0 \in T
  <2>1. ASSUME NEW uu \in Seq(V), Len(uu) = 0 PROVE Spaced(FlattenSeq(uu))
    BY <2>1 DEF FlattenSeq, Spaced
  <2> QED BY <2>1
<1>2. ASSUME NEW n \in T PROVE n + 1 \in T
  <2>1. SUFFICES ASSUME NEW uu \in Seq(V), Len(uu) = n + 1, Parts(uu)
                 PROVE  Spaced(FlattenSeq(uu))
    OBVIOUS
  <2>2. PICK front \in Seq(V), x \in V :
           /\ uu = Append(front, x) /\ Len(front) = n
           /\ x = uu[n+1] /\ \A i \in 1 .. n : front[i] = uu[i]
    <3>1. n \in Nat
      OBVIOUS
    <3> HIDE DEF V, T, Parts
    <3> QED BY <2>1, <3>1, FrontAndLast
  <2>3. Parts(front) /\ Spaced(x)
    <3>1. n + 1 \in 1 .. n + 1 /\ \A i \in 1 .. n : i \in 1 .. n + 1
      OBVIOUS
    <3> HIDE DEF V, T
    <3> QED BY <2>1, <2>2, <3>1
  <2>4. Spaced(FlattenSeq(front))
    <3> HIDE DEF V, Parts
    <3> QED BY <2>2, <2>3
  <2>5. FlattenSeq(uu) = FlattenSeq(front) \o x
    BY <2>2, FlattenAppend
  <2>6. FlattenSeq(front) \in Seq(S)
    BY FlattenSeqType
  <2>7. Spaced(FlattenSeq(front) \o x)
    BY ONLY <2>3, <2>4, <2>6, x \in Seq(S), SpacedConcat
  <2> QED BY <2>5, <2>7
<1>3. T = Nat
  <2> HIDE DEF T
  <2> QED BY <1>1, <1>2, SetInduction DEF T
<1>4. Len(ss) \in T
  BY <1>3
<1> QED BY <1>4

LEMMA BodySpaced ==
    ASSUME NEW S, "CRLF" \in S, NEW hs \in Seq(Seq(S)),
           \A i \in 1 .. Len(hs) : hs[i] # <<>> /\ Without(hs[i], LineEnds)
    PROVE  Spaced(Body(hs))
<1>1. ASSUME NEW i \in 1 .. Len(hs) PROVE Spaced(HeaderLines(hs)[i])
  <2>1. PICK h \in Seq(S) : h = hs[i]
    BY ElementOfSeq
  <2>2. HeaderLines(hs)[i] = h \o <<"CRLF">>
    BY <2>1, HeaderLinesType
  <2>3. h # <<>> /\ Without(h, {"CRLF"})
    BY <2>1 DEF Without, LineEnds
  <2> QED BY <2>2, <2>3, LineSpaced
<1>2. HeaderLines(hs) \in Seq(Seq(S)) /\ Len(HeaderLines(hs)) = Len(hs)
  BY HeaderLinesType
<1> QED BY <1>1, <1>2, FlattenSpaced DEF Body

\* Without a Connection header, one is inserted before the empty line.
Inserts(s) ==
    SetConnection(s \o <<"CRLF", "CRLF">>)
        = s \o <<"LF", "Connection">> \o Close \o <<"CRLF">> \o <<"CRLF", "CRLF">>

LEMMA ConnectionInserted ==
    ASSUME NEW S, Words \subseteq S, NEW s \in Seq(S),
           Spaced(s \o <<"CRLF">>), Without(s, {"Connection"})
    PROVE  Inserts(s)
<1> DEFINE a == Len(s)
           y == s \o <<"CRLF">>
           w == s \o <<"CRLF", "CRLF">>
           name  == LastConnection(w)
           gaps  == {j \in 1 .. Len(w) - 1 : SubSeq(w, j, j + 1) = <<"CRLF", "CRLF">>}
           empty == Min(gaps)
<1>1. /\ "CRLF" \in S /\ a \in Nat
      /\ w \in Seq(S) /\ Len(w) = a + 2 /\ y \in Seq(S) /\ Len(y) = a + 1
      /\ \A j \in 1 .. a : w[j] = s[j] /\ y[j] = s[j]
      /\ w[a+1] = "CRLF" /\ w[a+2] = "CRLF" /\ y[a+1] = "CRLF"
  <2>1. "CRLF" \in S
    BY DEF Words
  <2>2. a \in Nat /\ w \in Seq(S) /\ Len(w) = a + 2 /\ y \in Seq(S) /\ Len(y) = a + 1
    BY <2>1
  <2>3. \A j \in 1 .. a : w[j] = s[j] /\ y[j] = s[j]
    OBVIOUS
  <2>4. w[a+1] = "CRLF" /\ w[a+2] = "CRLF" /\ y[a+1] = "CRLF"
    OBVIOUS
  <2> QED BY <2>1, <2>2, <2>3, <2>4
<1>2. \A j \in 1 .. a : y[j] = "CRLF" => y[j+1] # "CRLF"
  <2>1. Len(y) - 1 = a
    BY <1>1
  <2> HIDE DEF a, y
  <2> QED BY <2>1 DEF Spaced, y
<1>0. w = s \o <<"CRLF", "CRLF">> /\ a = Len(s)
  OBVIOUS
<1>3. SetConnection(w) =
         IF name = 0
         THEN SubSeq(w, 1, empty - 1) \o <<"LF", "Connection">> \o Close
                \o <<"CRLF">> \o SubSeq(w, empty, Len(w))
         ELSE SetConnection(w)
  BY DEF SetConnection
<1>4. name = 0
  <2>1. {j \in 2 .. Len(w) : w[j-1] = "CRLF" /\ w[j] = "Connection"} = {}
    <3>1. ASSUME NEW j \in 1 .. a + 2 PROVE w[j] # "Connection"
      <4>1. j \in 1 .. a \/ j = a + 1 \/ j = a + 2
        BY <1>1
      <4>2. \A i \in 1 .. a : s[i] # "Connection"
        BY DEF Without
      <4> HIDE DEF a, w
      <4> QED BY <1>1, <4>1, <4>2
    <3> HIDE DEF a, w
    <3> QED BY <1>1, <3>1
  <2> QED BY <2>1 DEF LastConnection
<1> HIDE DEF a, y, w, name
<1>5. ASSUME NEW j \in 1 .. a + 1
      PROVE  /\ SubSeq(w, j, j + 1) = <<"CRLF", "CRLF">>
                   <=> w[j] = "CRLF" /\ w[j+1] = "CRLF"
  <2> DEFINE x == SubSeq(w, j, j + 1)
             t == <<"CRLF", "CRLF">>
  <2>1. x \in Seq(S) /\ Len(x) = 2 /\ x[1] = w[j] /\ x[2] = w[j+1]
    BY <1>1
  <2>2. t \in Seq(S) /\ Len(t) = 2 /\ t[1] = "CRLF" /\ t[2] = "CRLF"
    BY <1>1
  <2> HIDE DEF x, t
  <2>3. x = t <=> w[j] = "CRLF" /\ w[j+1] = "CRLF"
    BY <2>1, <2>2, SeqEqual
  <2> QED BY <2>3 DEF x, t
<1>6. empty = a + 1
  <2>1. Len(w) - 1 = a + 1 /\ a + 1 \in 1 .. a + 1 /\ a + 1 + 1 = a + 2
    BY <1>1
  <2>2. a + 1 \in gaps /\ gaps \in SUBSET Nat
    BY <1>1, <1>5, <2>1
  <2>3. ASSUME NEW j \in 1 .. a PROVE j \notin gaps
    <3>1. j \in 1 .. a + 1 /\ (j + 1 \in 1 .. a \/ j + 1 = a + 1)
      BY <1>1
    <3>2. w[j] = y[j] /\ w[j+1] = y[j+1]
      BY <1>1, <3>1
    <3> QED BY <1>2, <1>5, <3>1, <3>2
  <2>4. \A j \in gaps : j >= a + 1
    BY <1>1, <2>1, <2>3
  <2>5. empty \in gaps /\ empty <= a + 1
    BY <2>2, MinOfNaturals
  <2>6. empty \in Nat /\ empty >= a + 1
    BY <2>2, <2>4, <2>5
  <2> HIDE DEF gaps, empty
  <2>7. a \in Nat
    BY <1>1
  <2> QED BY <2>5, <2>6, <2>7
<1> HIDE DEF empty
<1>7. SubSeq(w, 1, empty - 1) = s /\ SubSeq(w, empty, Len(w)) = <<"CRLF", "CRLF">>
  <2>1. PICK l \in Seq(S) : l = <<"CRLF", "CRLF">> /\ Len(l) = 2
    <3>1. "CRLF" \in S
      BY <1>1
    <3>2. <<"CRLF", "CRLF">> \in Seq(S) /\ Len(<<"CRLF", "CRLF">>) = 2
      BY ONLY <3>1
    <3> QED BY <3>2
  <2>2. SubSeq(s \o l, 1, Len(s)) = s /\ SubSeq(s \o l, Len(s) + 1, Len(s) + Len(l)) = l
    BY PartsOf
  <2>3. empty - 1 = Len(s) /\ empty = Len(s) + 1 /\ Len(w) = Len(s) + Len(l)
    BY <1>0, <1>1, <1>6, <2>1
  <2> QED BY <1>0, <2>1, <2>2, <2>3
<1> QED BY <1>0, <1>3, <1>4, <1>7 DEF Inserts

-----------------------------------------------------------------------------
(* The text of a request, part by part                                     *)

\* Texts of two, three and four tokens.
LEMMA OneMore ==
    ASSUME NEW S, NEW s \in Seq(S), NEW z \in S, NEW u \in Seq(S), Len(u) = Len(s) + 1,
           \A m \in 1 .. Len(s) : s[m] = u[m], u[Len(s) + 1] = z
    PROVE  s \o <<z>> = u
<1>1. <<z>> \in Seq(S) /\ Len(<<z>>) = 1 /\ <<z>>[1] = z
  OBVIOUS
<1>2. PICK t \in Seq(S) : t = <<z>> /\ Len(t) = 1 /\ t[1] = z
  BY <1>1
<1>3. \A m \in 1 .. Len(t) : t[m] = u[Len(s) + m]
  BY <1>2
<1>4. s \o t = u
  BY <1>2, <1>3, ConcatIs
<1> QED BY <1>2, <1>4

Short(w, x, y, z) == /\ <<w>> \o <<x>> = <<w, x>>
                     /\ <<w, x>> \o <<y>> = <<w, x, y>>
                     /\ <<w, x, y>> \o <<z>> = <<w, x, y, z>>

LEMMA ShortTexts ==
    ASSUME NEW S, NEW w \in S, NEW x \in S, NEW y \in S, NEW z \in S
    PROVE  Short(w, x, y, z)
<1> DEFINE a == <<w>>
           b == <<w, x>>
           c == <<w, x, y>>
           d == <<w, x, y, z>>
<1>1. /\ a \in Seq(S) /\ b \in Seq(S) /\ c \in Seq(S) /\ d \in Seq(S)
      /\ Len(a) = 1 /\ Len(b) = 2 /\ Len(c) = 3 /\ Len(d) = 4
  OBVIOUS
<1>2. /\ \A m \in 1 .. 1 : a[m] = b[m]
      /\ \A m \in 1 .. 2 : b[m] = c[m]
      /\ \A m \in 1 .. 3 : c[m] = d[m]
      /\ b[2] = x /\ c[3] = y /\ d[4] = z
  OBVIOUS
<1> HIDE DEF a, b, c, d
<1>3. a \o <<x>> = b /\ b \o <<y>> = c /\ c \o <<z>> = d
  <2>1. a \o <<x>> = b
    <3>1. Len(b) = Len(a) + 1 /\ (\A m \in 1 .. Len(a) : a[m] = b[m]) /\ b[Len(a) + 1] = x
      BY <1>1, <1>2
    <3> QED BY <1>1, <3>1, OneMore
  <2>2. b \o <<y>> = c
    <3>1. Len(c) = Len(b) + 1 /\ (\A m \in 1 .. Len(b) : b[m] = c[m]) /\ c[Len(b) + 1] = y
      BY <1>1, <1>2
    <3> QED BY <1>1, <3>1, OneMore
  <2>3. c \o <<z>> = d
    <3>1. Len(d) = Len(c) + 1 /\ (\A m \in 1 .. Len(c) : c[m] = d[m]) /\ d[Len(c) + 1] = z
      BY <1>1, <1>2
    <3> QED BY <1>1, <3>1, OneMore
  <2> QED BY <2>1, <2>2, <2>3
<1> QED BY <1>3 DEF Short, a, b, c, d

\* The tokens with a meaning of their own.
Vocabulary == Words \cup {"/page", "/1.0", "http://"}

RequestHead(version) == <<"HTTP", version, "CRLF">>

LEMMA OneConcat ==
    ASSUME NEW S, NEW x \in Seq(S), NEW y \in Seq(S)
    PROVE  x \o y \in Seq(S)
  BY ConcatProperties

\* The version, with what lies before and behind it.
VersionBetween(g, v, r) ==
    (g \o <<"HTTP">>) \o <<v>> \o (<<"CRLF">> \o r) = g \o (RequestHead(v) \o r)

LEMMA VersionParts ==
    ASSUME NEW S, Vocabulary \subseteq S, NEW g \in Seq(S), NEW v \in S, NEW r \in Seq(S)
    PROVE  VersionBetween(g, v, r) /\ RequestHead(v) \in Seq(S)
<1>1. "HTTP" \in S /\ "CRLF" \in S
  BY DEF Vocabulary, Words
<1>2. PICK b \in Seq(S), w \in Seq(S), l \in Seq(S), h \in Seq(S) :
         /\ b = <<"HTTP">> /\ w = <<v>> /\ l = <<"CRLF">> /\ h = RequestHead(v)
         /\ (b \o w) \o l = h
  <2>1. /\ <<"HTTP">> \in Seq(S) /\ <<v>> \in Seq(S) /\ <<"CRLF">> \in Seq(S)
        /\ RequestHead(v) \in Seq(S)
    BY <1>1 DEF RequestHead
  <2>2. (<<"HTTP">> \o <<v>>) \o <<"CRLF">> = RequestHead(v)
    <3>1. Short("HTTP", v, "CRLF", v)
      BY <1>1, ShortTexts
    <3> QED BY <3>1 DEF Short, RequestHead
  <2> QED BY <2>1, <2>2
<1>3. PICK bw \in Seq(S), gb \in Seq(S) : bw = b \o w /\ gb = g \o b
  BY OneConcat
<1>4. PICK gbw \in Seq(S) : gbw = gb \o w
  BY OneConcat
<1>5. /\ Associate(gbw, l, r)
      /\ Associate(g, b, w)
      /\ Associate(g, bw, l)
      /\ Associate(g, h, r)
  BY AllAssociate
<1>6. gbw = g \o bw
  BY <1>3, <1>4, <1>5 DEF Associate
<1>7. gbw \o l = g \o h
  BY <1>2, <1>3, <1>5, <1>6 DEF Associate
<1>8. gbw \o (l \o r) = g \o (h \o r)
  BY <1>5, <1>7 DEF Associate
<1> QED BY <1>2, <1>3, <1>4, <1>8 DEF VersionBetween

\* A text as a request line and what follows it.
TextParts(q) ==
    Text(q) = (<<"GET">> \o q.url) \o (RequestHead(q.version) \o (Body(q.headers) \o <<"CRLF">>))

LEMMA TextHasParts ==
    ASSUME NEW S, Vocabulary \subseteq S, NEW q \in RequestsOf(S)
    PROVE  /\ TextParts(q)
           /\ q.url \in Seq(S) /\ q.version \in S \cap Versions /\ q.headers \in Seq(Seq(S))
           /\ <<"GET">> \o q.url \in Seq(S)
           /\ Body(q.headers) \in Seq(S) /\ Body(q.headers) \o <<"CRLF">> \in Seq(S)
<1>1. q.url \in Seq(S) /\ q.version \in S \cap Versions /\ q.headers \in Seq(Seq(S))
  BY DEF RequestsOf
<1>2. "GET" \in S /\ "CRLF" \in S
  BY DEF Vocabulary, Words
<1>3. PICK a \in Seq(S), l \in Seq(S), u \in Seq(S), b \in Seq(S), h \in Seq(S) :
         /\ a = <<"GET">> /\ l = <<"CRLF">> /\ u = q.url /\ b = Body(q.headers)
         /\ h = RequestHead(q.version)
  <2>1. <<"GET">> \in Seq(S) /\ <<"CRLF">> \in Seq(S)
    BY <1>2
  <2>2. Body(q.headers) \in Seq(S)
    BY <1>1, <1>2, BodyType
  <2>3. RequestHead(q.version) \in Seq(S)
    BY <1>1, VersionParts
  <2> QED BY <1>1, <2>1, <2>2, <2>3
<1>4. PICK g \in Seq(S), r \in Seq(S) : g = a \o u /\ r = b \o l
  BY OneConcat
<1>5. PICK gh \in Seq(S) : gh = g \o h
  BY OneConcat
<1>6. Associate(gh, b, l) /\ Associate(g, h, r)
  BY AllAssociate
<1>7. Text(q) = (gh \o b) \o l
  BY <1>3, <1>4, <1>5 DEF Text, Body, HeaderLines, RequestHead
<1>8. Text(q) = g \o (h \o r)
  BY <1>4, <1>5, <1>6, <1>7 DEF Associate
<1> QED BY <1>1, <1>3, <1>4, <1>8 DEF TextParts

\* The first edit.
HeadSet(g, v, r) ==
    SetVersion(g \o (RequestHead(v) \o r), v) = g \o (RequestHead("/1.1") \o r)

LEMMA VersionOfText ==
    ASSUME NEW S, Vocabulary \subseteq S, NEW g \in Seq(S), NEW v \in S \cap Versions,
           NEW r \in Seq(S), Without(g, {"/1.0"})
    PROVE  HeadSet(g, v, r)
<1>1. "HTTP" \in S /\ "CRLF" \in S /\ "/1.1" \in S
  BY DEF Vocabulary, Words
<1>2. PICK b \in Seq(S), l \in Seq(S) : b = <<"HTTP">> /\ l = <<"CRLF">>
  <2>1. <<"HTTP">> \in Seq(S) /\ <<"CRLF">> \in Seq(S)
    BY <1>1
  <2> QED BY <2>1
<1>3. Without(b, {"/1.0"})
  BY <1>2 DEF Without
<1>4. PICK s \in Seq(S), t \in Seq(S) : s = g \o b /\ t = l \o r
  BY OneConcat
<1>5. Without(s, {"/1.0"})
  BY <1>3, <1>4, WithoutConcat
<1>6. SetVersion(s \o <<v>> \o t, v) = s \o <<"/1.1">> \o t
  <2>1. SetsVersion(s, v, t)
    BY <1>1, <1>5, VersionSet
  <2> QED BY <2>1 DEF SetsVersion
<1>7. VersionBetween(g, v, r) /\ VersionBetween(g, "/1.1", r)
  BY <1>1, VersionParts
<1> QED BY <1>2, <1>4, <1>6, <1>7 DEF VersionBetween, HeadSet

\* The headers with one of them singled out.
SplitAt(front, x, back) ==
    Body(front \o <<x>> \o back) = (Body(front) \o (x \o <<"CRLF">>)) \o Body(back)

LEMMA BodySplit ==
    ASSUME NEW S, "CRLF" \in S, NEW front \in Seq(Seq(S)), NEW x \in Seq(S),
           NEW back \in Seq(Seq(S))
    PROVE  SplitAt(front, x, back)
<1> DEFINE V == Seq(S)
<1>1. PICK one \in Seq(V) : one = <<x>> /\ front \o one = Append(front, x)
  <2>1. <<x>> \in Seq(V)
    OBVIOUS
  <2>2. front \o <<x>> = Append(front, x)
    <3>1. front \in Seq(V) /\ x \in V
      OBVIOUS
    <3> HIDE DEF V
    <3> QED BY <3>1, AppendIsConcat
  <2> QED BY <2>1, <2>2
<1>2. PICK most \in Seq(V) : most = front \o one
  <2>1. front \in Seq(V)
    OBVIOUS
  <2> HIDE DEF V
  <2> QED BY <2>1, OneConcat
<1>3. Body(most) = Body(front) \o (x \o <<"CRLF">>)
  <2>1. AppendsLine(front, x)
    BY BodyAppend
  <2> QED BY <1>1, <1>2, <2>1 DEF AppendsLine
<1>4. Body(most \o back) = Body(most) \o Body(back)
  BY BodyConcat
<1> QED BY <1>1, <1>2, <1>3, <1>4 DEF SplitAt

\* A header's value, with what lies before and behind it.
ValueBetween(g, h, f, v, t) ==
    g \o (h \o (f \o (((<<"Connection">> \o v) \o <<"CRLF">>) \o t)))
        = ((g \o h) \o f) \o <<"Connection">> \o (v \o <<"CRLF">> \o t)

LEMMA ValueParts ==
    ASSUME NEW S, Words \subseteq S, NEW g \in Seq(S), NEW h \in Seq(S), NEW f \in Seq(S),
           NEW v \in Seq(S), NEW t \in Seq(S)
    PROVE  ValueBetween(g, h, f, v, t)
<1>1. PICK c \in Seq(S), l \in Seq(S) : c = <<"Connection">> /\ l = <<"CRLF">>
  <2>1. <<"Connection">> \in Seq(S) /\ <<"CRLF">> \in Seq(S)
    BY DEF Words
  <2> QED BY <2>1
<1>2. PICK vl \in Seq(S), gh \in Seq(S), hf \in Seq(S) : vl = v \o l /\ gh = g \o h /\ hf = h \o f
  BY OneConcat
<1>3. PICK m \in Seq(S), s \in Seq(S) : m = vl \o t /\ s = gh \o f
  BY OneConcat
<1>4. PICK e \in Seq(S) : e = c \o m
  BY OneConcat
<1>5. Associate(c, v, l) /\ Associate(c, vl, t) /\ Associate(h, f, e)
  BY AllAssociate
<1>6. Associate(g, hf, e) /\ Associate(g, h, f) /\ Associate(s, c, m)
  BY AllAssociate
<1>7. ((c \o v) \o l) \o t = e
  BY <1>2, <1>3, <1>4, <1>5 DEF Associate
<1>8. h \o (f \o e) = hf \o e
  BY <1>2, <1>5 DEF Associate
<1>9. g \o (hf \o e) = s \o e
  BY <1>2, <1>3, <1>6 DEF Associate
<1>10. s \o e = (s \o c) \o m
  BY <1>4, <1>6 DEF Associate
<1>11. g \o (h \o (f \o (((c \o v) \o l) \o t))) = (s \o c) \o m
  BY <1>7, <1>8, <1>9, <1>10
<1> QED BY <1>1, <1>2, <1>3, <1>11 DEF ValueBetween

Closing == <<"Connection">> \o Close

\* The second edit, of a text with one Connection header.
ClosesOne(g, h, front, v, back) ==
    SetConnection(g \o (h \o (Body(front \o <<<<"Connection">> \o v>> \o back) \o <<"CRLF">>)))
        = g \o (h \o (Body(front) \o ((Closing \o <<"CRLF">>) \o (Body(back) \o <<"CRLF">>))))

LEMMA ConnectionOfHeaders ==
    ASSUME NEW S, Words \subseteq S, NEW g \in Seq(S), NEW h \in Seq(S), NEW v \in Seq(S),
           NEW front \in Seq(Seq(S)), NEW back \in Seq(Seq(S)), EndsLine(h),
           Len(v) >= Len(Close), Without(v, {"CRLF"}), Without(v, {"Connection"}),
           \A i \in 1 .. Len(back) : Without(back[i], {"Connection"})
    PROVE  ClosesOne(g, h, front, v, back)
<1>1. "Connection" \in S /\ "CRLF" \in S /\ Close \in Seq(S)
  BY DEF Words, Close
<1>2. PICK f \in Seq(S), k \in Seq(S), l \in Seq(S), c \in Seq(S) :
         f = Body(front) /\ k = Body(back) /\ l = <<"CRLF">> /\ c = <<"Connection">>
  <2>1. Body(front) \in Seq(S) /\ Body(back) \in Seq(S)
    BY <1>1, BodyType
  <2>2. <<"CRLF">> \in Seq(S) /\ <<"Connection">> \in Seq(S)
    BY <1>1
  <2> QED BY <2>1, <2>2
<1>3. PICK t \in Seq(S), x \in Seq(S), gh \in Seq(S) : t = k \o l /\ x = c \o v /\ gh = g \o h
  BY OneConcat
<1>4. PICK xl \in Seq(S), s \in Seq(S) : xl = x \o l /\ s = gh \o f
  BY OneConcat
<1>5. PICK fx \in Seq(S) : fx = f \o xl
  BY OneConcat
<1>6. Body(front \o <<x>> \o back) = fx \o k
  <2>1. SplitAt(front, x, back)
    BY <1>1, BodySplit
  <2> QED BY <1>2, <1>4, <1>5, <2>1 DEF SplitAt
<1>7. Associate(fx, k, l) /\ Associate(f, xl, t)
  BY AllAssociate
<1>8. (fx \o k) \o l = f \o (xl \o t)
  BY <1>3, <1>5, <1>7 DEF Associate
<1>9. Without(t, {"Connection"})
  <2>1. Without(k, {"Connection"})
    BY <1>1, <1>2, BodyWithout
  <2>2. Without(l, {"Connection"})
    BY <1>2 DEF Without
  <2> QED BY <1>3, <2>1, <2>2, WithoutConcat
<1>10. Closes(s, v, t)
  <2>1. EndsLine(gh)
    BY <1>3, LastOfConcat DEF EndsLine
  <2>2. f = <<>> \/ EndsLine(f)
    BY <1>1, <1>2, BodyEnds
  <2>3. EndsLine(s)
    <3>1. CASE f = <<>>
      BY <1>4, <2>1, <3>1, ConcatEmptySeq
    <3>2. CASE EndsLine(f)
      BY <1>4, <3>2, LastOfConcat DEF EndsLine
    <3> QED BY <2>2, <3>1, <3>2
  <2> QED BY <1>9, <2>3, ConnectionSet
<1>11. ValueBetween(g, h, f, v, t) /\ ValueBetween(g, h, f, Close, t)
  BY <1>1, ValueParts
<1>12. SetConnection(g \o (h \o (f \o (xl \o t)))) = g \o (h \o (f \o ((Closing \o l) \o t)))
  BY <1>2, <1>3, <1>4, <1>10, <1>11 DEF ValueBetween, Closing, Closes
<1> QED BY <1>2, <1>3, <1>6, <1>8, <1>12 DEF ClosesOne

\* What follows the first three parts of a text.
Behind(g, h, f, e) == g \o (h \o (f \o e)) = ((g \o h) \o f) \o e

LEMMA FourParts ==
    ASSUME NEW S, NEW g \in Seq(S), NEW h \in Seq(S), NEW f \in Seq(S), NEW e \in Seq(S)
    PROVE  Behind(g, h, f, e)
<1>1. PICK gh \in Seq(S), fe \in Seq(S) : gh = g \o h /\ fe = f \o e
  BY OneConcat
<1>2. Associate(g, h, fe) /\ Associate(gh, f, e)
  BY AllAssociate
<1> QED BY <1>1, <1>2 DEF Associate, Behind

\* The inserted header, with what lies before and behind it.
InsertedBetween(s0, x) ==
    (s0 \o x) \o <<"LF", "Connection">> \o Close \o <<"CRLF">> \o <<"CRLF", "CRLF">>
        = s0 \o ((x \o <<"LF">>) \o ((Closing \o <<"CRLF">>) \o <<"CRLF", "CRLF">>))

LEMMA InsertedParts ==
    ASSUME NEW S, Words \subseteq S, NEW s0 \in Seq(S), NEW x \in Seq(S)
    PROVE  InsertedBetween(s0, x)
<1>1. PICK c \in Seq(S), l \in Seq(S), lf \in Seq(S), lc \in Seq(S), ll \in Seq(S), cl \in Seq(S) :
         /\ c = <<"Connection">> /\ l = <<"CRLF">> /\ lf = <<"LF">> /\ cl = Close
         /\ lc = <<"LF", "Connection">> /\ ll = <<"CRLF", "CRLF">> /\ lc = lf \o c
  <2>1. "Connection" \in S /\ "CRLF" \in S /\ "LF" \in S
    BY DEF Words
  <2>2. /\ <<"Connection">> \in Seq(S) /\ <<"CRLF">> \in Seq(S) /\ <<"LF">> \in Seq(S)
        /\ <<"LF", "Connection">> \in Seq(S) /\ <<"CRLF", "CRLF">> \in Seq(S)
    BY <2>1
  <2>3. Close \in Seq(S)
    BY DEF Words, Close
  <2>4. Short("LF", "Connection", "LF", "LF")
    BY <2>1, ShortTexts
  <2> QED BY <2>2, <2>3, <2>4 DEF Short
<1>2. PICK s \in Seq(S), xlf \in Seq(S), cll \in Seq(S), ccl \in Seq(S) :
         s = s0 \o x /\ xlf = x \o lf /\ cll = cl \o l /\ ccl = c \o cl
  BY OneConcat
<1>3. PICK m \in Seq(S), slf \in Seq(S), slc \in Seq(S) :
         m = cll \o ll /\ slf = s \o lf /\ slc = s \o lc
  BY OneConcat
<1>4. PICK z \in Seq(S) : z = c \o m
  BY OneConcat
<1>5. /\ Associate(c, cl, l) /\ Associate(c, cll, ll) /\ Associate(s0, xlf, z)
      /\ Associate(s0, x, lf) /\ Associate(slf, c, m)
  BY AllAssociate
<1>6. Associate(s, lf, c) /\ Associate(slc, cll, ll) /\ Associate(slc, cl, l)
  BY AllAssociate
<1>7. (ccl \o l) \o ll = z
  BY <1>2, <1>3, <1>4, <1>5 DEF Associate
<1>8. s0 \o (xlf \o z) = slf \o z
  BY <1>2, <1>3, <1>5 DEF Associate
<1>9. slf \o z = slc \o m
  BY <1>1, <1>3, <1>4, <1>5, <1>6 DEF Associate
<1>10. slc \o m = ((slc \o cl) \o l) \o ll
  BY <1>2, <1>3, <1>6 DEF Associate
<1>11. s0 \o (xlf \o ((ccl \o l) \o ll)) = ((slc \o cl) \o l) \o ll
  BY <1>7, <1>8, <1>9, <1>10
<1> QED BY <1>1, <1>2, <1>3, <1>11 DEF InsertedBetween, Closing

\* The second edit, of a text without a Connection header.
ClosesNone(g, h, front, x) ==
    SetConnection(g \o (h \o (Body(Append(front, x)) \o <<"CRLF">>)))
        = g \o (h \o (Body(front) \o
              ((x \o <<"LF">>) \o ((Closing \o <<"CRLF">>) \o <<"CRLF", "CRLF">>))))

LEMMA ConnectionOfNone ==
    ASSUME NEW S, Words \subseteq S, NEW g \in Seq(S), NEW h \in Seq(S),
           NEW front \in Seq(Seq(S)), NEW x \in Seq(S),
           Spaced(g \o h), Spaced(Body(Append(front, x))),
           Without(g, {"Connection"}), Without(h, {"Connection"}),
           Without(x, {"Connection"}),
           \A i \in 1 .. Len(front) : Without(front[i], {"Connection"})
    PROVE  ClosesNone(g, h, front, x)
<1>1. "CRLF" \in S /\ "LF" \in S /\ Closing \in Seq(S)
  <2>1. "CRLF" \in S /\ "LF" \in S /\ <<"Connection">> \in Seq(S) /\ Close \in Seq(S)
    BY DEF Words, Close
  <2> QED BY <2>1, OneConcat DEF Closing
<1>2. PICK f \in Seq(S), l \in Seq(S), ll \in Seq(S), lf \in Seq(S) :
         f = Body(front) /\ l = <<"CRLF">> /\ ll = <<"CRLF", "CRLF">> /\ ll = l \o l /\ lf = <<"LF">>
  <2>1. Body(front) \in Seq(S)
    BY <1>1, BodyType
  <2>2. <<"CRLF">> \in Seq(S) /\ <<"CRLF", "CRLF">> \in Seq(S) /\ <<"LF">> \in Seq(S)
    BY <1>1
  <2>3. Short("CRLF", "CRLF", "CRLF", "CRLF")
    BY <1>1, ShortTexts
  <2> QED BY <2>1, <2>2, <2>3 DEF Short
<1>3. PICK xl \in Seq(S), gh \in Seq(S), e \in Seq(S), xlf \in Seq(S) :
         xl = x \o l /\ gh = g \o h /\ e = x \o ll /\ xlf = x \o lf
  BY OneConcat
<1>4. PICK s0 \in Seq(S), b \in Seq(S), cl \in Seq(S) :
         s0 = gh \o f /\ b = f \o xl /\ cl = Closing \o l
  BY <1>1, OneConcat
<1>5. PICK s \in Seq(S), z \in Seq(S) : s = s0 \o x /\ z = cl \o ll
  BY OneConcat
<1>6. PICK after \in Seq(S) : after = xlf \o z
  BY OneConcat
<1>7. Body(Append(front, x)) = b
  <2>1. AppendsLine(front, x)
    BY <1>1, BodyAppend
  <2> QED BY <1>2, <1>3, <1>4, <2>1 DEF AppendsLine
<1>8. g \o (h \o (b \o l)) = s \o ll
  <2>1. Associate(f, xl, l) /\ Associate(x, l, l) /\ Associate(s0, x, ll) /\ Behind(g, h, f, e)
    BY AllAssociate, FourParts
  <2>2. b \o l = f \o e
    BY <1>2, <1>3, <1>4, <2>1 DEF Associate
  <2>3. s0 \o e = s \o ll
    BY <1>3, <1>5, <2>1 DEF Associate
  <2> QED BY <1>3, <1>4, <2>1, <2>2, <2>3 DEF Behind
<1>9. Spaced(s \o l)
  <2>1. Spaced(gh \o b)
    BY <1>3, <1>7, SpacedConcat
  <2>2. Associate(s0, x, l) /\ Associate(gh, f, xl)
    BY AllAssociate
  <2>3. s \o l = gh \o b
    BY <1>3, <1>4, <1>5, <2>2 DEF Associate
  <2> QED BY <2>1, <2>3
<1>10. Without(s, {"Connection"})
  <2>1. Without(f, {"Connection"})
    BY <1>1, <1>2, BodyWithout
  <2>2. Without(gh, {"Connection"})
    BY <1>3, WithoutConcat
  <2>3. Without(s0, {"Connection"})
    BY <1>4, <2>1, <2>2, WithoutConcat
  <2> QED BY <1>5, <2>3, WithoutConcat
<1>11. Inserts(s)
  BY <1>2, <1>9, <1>10, ConnectionInserted
<1>12. InsertedBetween(s0, x) /\ Behind(g, h, f, after)
  BY InsertedParts, FourParts
<1>13. SetConnection(s \o ll) = s0 \o after
  BY <1>2, <1>3, <1>4, <1>5, <1>6, <1>11, <1>12 DEF Inserts, InsertedBetween
<1>14. s0 \o after = g \o (h \o (f \o after))
  BY <1>3, <1>4, <1>12 DEF Behind
<1> QED BY <1>2, <1>3, <1>4, <1>5, <1>6, <1>7, <1>8, <1>13, <1>14 DEF ClosesNone

-----------------------------------------------------------------------------
(* The URL                                                                 *)

\* A path, or a host of tokens without a slash, and a path.
OrdinaryURL(url) ==
    \/ url = <<"/page">>
    \/ /\ Len(url) >= 2 /\ url[1] = "http://" /\ url[Len(url)] = "/page"
       /\ \A i \in 2 .. Len(url) - 1 : url[i] \notin Slashed \cup {"CRLF", "Connection"}

LEMMA URLParts ==
    ASSUME NEW S, Vocabulary \subseteq S, NEW url \in Seq(S),
           OrdinaryURL(url), url # <<"/page">>
    PROVE  \E h \in Seq(S) : /\ url = (<<"http://">> \o h) \o <<"/page">>
                             /\ Without(h, Slashed \cup {"CRLF", "Connection"})
<1> DEFINE bad == Slashed \cup {"CRLF", "Connection"}
           n   == Len(url)
<1>1. /\ n \in Nat /\ n >= 2 /\ url[1] = "http://" /\ url[n] = "/page" /\ n = Len(url)
      /\ \A i \in 2 .. n - 1 : url[i] \notin bad
  BY DEF OrdinaryURL
<1> HIDE DEF bad, n
<1>2. PICK m \in Nat : n = m + 2
  BY <1>1, n - 2 \in Nat, n = (n - 2) + 2
<1>3. PICK h : h = SubSeq(url, 1 + 1, 1 + m)
  OBVIOUS
<1>4. h \in Seq(S) /\ Len(h) = m /\ \A i \in 1 .. m : h[i] = url[1 + i]
  <2>1. 1 \in Nat /\ 1 + m <= Len(url)
    BY <1>1, <1>2
  <2> QED BY <1>3, <2>1, SubSeqAt
<1>5. Without(h, bad)
  <2>1. ASSUME NEW i \in 1 .. m PROVE h[i] \notin bad
    <3>1. 1 + i \in 2 .. n - 1
      BY <1>2
    <3> QED BY <1>1, <1>4, <3>1
  <2> QED BY <1>4, <2>1 DEF Without
<1>6. PICK p \in Seq(S), t \in Seq(S) :
         /\ p = <<"http://">> /\ Len(p) = 1 /\ p[1] = "http://"
         /\ t = <<"/page">> /\ Len(t) = 1 /\ t[1] = "/page"
  <2>1. "http://" \in S /\ "/page" \in S
    BY DEF Vocabulary
  <2>2. /\ <<"http://">> \in Seq(S) /\ Len(<<"http://">>) = 1
        /\ <<"/page">> \in Seq(S) /\ Len(<<"/page">>) = 1
    BY <2>1
  <2> QED BY <2>2
<1>7. /\ p \o h \o t \in Seq(S) /\ Len(p \o h \o t) = Len(p) + Len(h) + Len(t)
      /\ \A i \in 1 .. Len(p) : (p \o h \o t)[i] = p[i]
      /\ \A i \in 1 .. Len(h) : (p \o h \o t)[Len(p) + i] = h[i]
      /\ \A i \in 1 .. Len(t) : (p \o h \o t)[Len(p) + Len(h) + i] = t[i]
  <2>1. h \in Seq(S)
    BY <1>4
  <2> QED BY ONLY <2>1, ThreeAt
<1>8. PICK w \in Seq(S) : w = p \o h \o t
  BY <1>7
<1>9. /\ Len(w) = n /\ w[1] = url[1] /\ w[n] = url[n]
      /\ \A i \in 1 .. m : w[1 + i] = url[1 + i]
  <2>1. 1 \in 1 .. Len(p) /\ 1 \in 1 .. Len(t) /\ Len(p) + Len(h) + 1 = n
    BY <1>2, <1>4, <1>6
  <2> QED BY <1>1, <1>2, <1>4, <1>6, <1>7, <1>8, <2>1
<1>10. ASSUME NEW i \in 1 .. n PROVE w[i] = url[i]
  <2>1. CASE i \in 2 .. n - 1
    <3>1. PICK j \in 1 .. m : i = 1 + j
      <4>1. i - 1 \in 1 .. m /\ i = 1 + (i - 1)
        BY <1>2, <2>1
      <4> QED BY <4>1
    <3> QED BY <1>9, <3>1
  <2>2. CASE i \notin 2 .. n - 1
    <3>1. i = 1 \/ i = n
      BY <1>1, <2>2
    <3> QED BY <1>9, <3>1
  <2> QED BY <2>1, <2>2
<1>11. w = url
  BY <1>1, <1>9, <1>10, SeqEqual
<1> QED BY <1>4, <1>5, <1>6, <1>8, <1>11 DEF bad

\* The last edit.
LEMMA PathOfURL ==
    ASSUME NEW S, Vocabulary \subseteq S, NEW url \in Seq(S), OrdinaryURL(url),
           NEW r \in Seq(S), url = <<"/page">> => Without(r, {"http://"})
    PROVE  MakeRelative((<<"GET">> \o url) \o r) = <<"GET">> \o (<<"/page">> \o r)
<1>1. "GET" \in S /\ "http://" \in S /\ "/page" \in S
  BY DEF Vocabulary, Words
<1>2. PICK a \in Seq(S), n \in Seq(S), p \in Seq(S) :
         a = <<"GET">> /\ n = <<"http://">> /\ p = <<"/page">>
  <2>1. <<"GET">> \in Seq(S) /\ <<"http://">> \in Seq(S) /\ <<"/page">> \in Seq(S)
    BY <1>1
  <2> QED BY <2>1
<1>3. Without(a, {"http://"}) /\ Without(p, {"http://"})
  BY <1>2 DEF Without
<1>4. CASE url = <<"/page">>
  <2>1. PICK ap \in Seq(S) : ap = a \o p
    BY OneConcat
  <2>2. PICK w \in Seq(S) : w = ap \o r
    BY OneConcat
  <2>3. Without(ap, {"http://"})
    BY <1>3, <2>1, WithoutConcat
  <2>4. Without(w, {"http://"})
    BY <1>4, <2>2, <2>3, WithoutConcat
  <2>5. MakeRelative(w) = w
    BY <2>4, RelativeKept
  <2>6. Associate(a, p, r)
    BY AllAssociate
  <2> QED BY <1>2, <1>4, <2>1, <2>2, <2>5, <2>6 DEF Associate
<1>5. CASE url # <<"/page">>
  <2>1. PICK h \in Seq(S) : /\ url = (n \o h) \o p
                            /\ Without(h, Slashed \cup {"CRLF", "Connection"})
    BY <1>2, <1>5, URLParts
  <2>2. Without(h, Slashed)
    BY <2>1 DEF Without
  <2>3. PICK nh \in Seq(S), hp \in Seq(S), pr \in Seq(S) : nh = n \o h /\ hp = h \o p /\ pr = p \o r
    BY OneConcat
  <2>4. PICK m \in Seq(S) : m = hp \o r
    BY OneConcat
  <2>5. PICK e \in Seq(S) : e = n \o m
    BY OneConcat
  <2>6. /\ Associate(a, url, r) /\ Associate(nh, p, r) /\ Associate(n, h, pr)
        /\ Associate(h, p, r) /\ Associate(a, n, m)
    BY AllAssociate
  <2>7. url \o r = e
    BY <2>1, <2>3, <2>4, <2>5, <2>6 DEF Associate
  <2>8. (a \o url) \o r = (a \o n) \o m
    BY <2>5, <2>6, <2>7 DEF Associate
  <2>9. MakesPath(a, h, r)
    BY <1>1, <1>3, <2>2, RelativeMade
  <2> QED BY <1>2, <2>3, <2>4, <2>8, <2>9 DEF MakesPath
<1> QED BY <1>4, <1>5

LEMMA URLWithout ==
    ASSUME NEW S, NEW url \in Seq(S), OrdinaryURL(url)
    PROVE  Without(url, {"/1.0"}) /\ Without(url, {"CRLF"}) /\ Without(url, {"Connection"})
<1>1. ASSUME NEW i \in 1 .. Len(url) PROVE url[i] \notin {"/1.0", "CRLF", "Connection"}
  <2>1. CASE url = <<"/page">>
    BY <2>1
  <2>2. CASE url # <<"/page">>
    <3>1. /\ Len(url) >= 2 /\ url[1] = "http://" /\ url[Len(url)] = "/page"
          /\ \A m \in 2 .. Len(url) - 1 : url[m] \notin Slashed \cup {"CRLF", "Connection"}
      BY <2>2 DEF OrdinaryURL
    <3>2. i = 1 \/ i = Len(url) \/ i \in 2 .. Len(url) - 1
      OBVIOUS
    <3> QED BY <3>1, <3>2 DEF Slashed
  <2> QED BY <2>1, <2>2
<1> QED BY <1>1 DEF Without

-----------------------------------------------------------------------------
(* The edited text as a server reads it                                    *)

PathLine == <<"GET", "/page", "HTTP", "/1.1">>

Reads(r, junk, lines) == EmptyLines(r \o junk) # {} /\ Lines(r \o junk) = lines

PathText(r) == <<"GET">> \o (<<"/page">> \o (RequestHead("/1.1") \o r))

LEMMA RequestRead ==
    ASSUME NEW S, Vocabulary \subseteq S, NEW r \in Seq(S), NEW junk \in Seq(S), NEW lines,
           Reads(r, junk, lines)
    PROVE  Lines(PathText(r) \o junk) = {PathLine} \cup lines
<1>1. "GET" \in S /\ "/page" \in S /\ "HTTP" \in S /\ "/1.1" \in S /\ "CRLF" \in S
  BY DEF Vocabulary, Words
<1>2. Short("GET", "/page", "HTTP", "/1.1")
  BY <1>1, ShortTexts
<1>3. PICK a \in Seq(S), p \in Seq(S), l \in Seq(S), h \in Seq(S) :
         a = <<"GET">> /\ p = <<"/page">> /\ l = <<"CRLF">> /\ h = RequestHead("/1.1")
  <2>1. <<"GET">> \in Seq(S) /\ <<"/page">> \in Seq(S) /\ <<"CRLF">> \in Seq(S)
    BY <1>1
  <2>2. RequestHead("/1.1") \in Seq(S)
    BY <1>1, VersionParts
  <2> QED BY <2>1, <2>2
<1>4. PICK line \in Seq(S) : line = PathLine /\ line # <<>> /\ Without(line, LineEnds)
  <2>1. PathLine \in Seq(S) /\ PathLine # <<>>
    BY <1>1 DEF PathLine
  <2>2. Len(PathLine) = 4 /\ \A i \in 1 .. 4 : PathLine[i] \notin LineEnds
    BY DEF PathLine, LineEnds
  <2> QED BY <2>1, <2>2 DEF Without
<1>5. PICK ap \in Seq(S), hr \in Seq(S), lr \in Seq(S), rj \in Seq(S) :
         ap = a \o p /\ hr = h \o r /\ lr = l \o r /\ rj = r \o junk
  BY OneConcat
<1>6. Associate(a, p, hr) /\ VersionBetween(ap, "/1.1", r)
  BY <1>1, AllAssociate, VersionParts
<1>7. PathText(r) = line \o lr
  BY <1>2, <1>3, <1>4, <1>5, <1>6 DEF PathText, PathLine, Associate, VersionBetween, Short
<1>8. Associate(line, lr, junk) /\ Associate(l, r, junk) /\ Associate(line, l, rj)
  BY AllAssociate
<1>9. PathText(r) \o junk = line \o l \o rj
  BY <1>5, <1>7, <1>8 DEF Associate
<1>10. Lines(line \o <<"CRLF">> \o rj) = {line} \cup Lines(rj)
  <2>1. EmptyLines(rj) # {}
    BY <1>5 DEF Reads
  <2>2. "CRLF" \in LineEnds
    BY DEF LineEnds
  <2>3. FirstLine(line, "CRLF", rj)
    BY <1>1, <1>4, <2>1, <2>2, FirstLineRead
  <2> QED BY <2>3 DEF FirstLine
<1> QED BY <1>3, <1>4, <1>5, <1>9, <1>10 DEF Reads

LEMMA ClosingIsLine ==
    ASSUME NEW S, Words \subseteq S
    PROVE  Closing \in Seq(S) /\ Closing # <<>> /\ Without(Closing, LineEnds)
           /\ Without(Closing, {"http://"})
<1>1. "Connection" \in S /\ "clo" \in S /\ "se" \in S
  BY DEF Words
<1>2. Closing = <<"Connection", "clo", "se">>
  <2>1. /\ <<"Connection">> \in Seq(S) /\ <<"clo">> \in Seq(S) /\ <<"se">> \in Seq(S)
    BY <1>1
  <2>2. Short("Connection", "clo", "se", "se") /\ Short("clo", "se", "se", "se")
    BY <1>1, ShortTexts
  <2>3. Associate(<<"Connection">>, <<"clo">>, <<"se">>)
    BY <2>1, AllAssociate
  <2> QED BY <2>2, <2>3 DEF Short, Associate, Closing, Close
<1>3. Closing \in Seq(S) /\ Closing # <<>> /\ Len(Closing) = 3
  BY <1>1, <1>2
<1>4. \A i \in 1 .. 3 : Closing[i] \notin LineEnds /\ Closing[i] # "http://"
  BY <1>2 DEF LineEnds
<1> QED BY <1>3, <1>4 DEF Without

\* The headers as they are when one of them has been set, and when one has been
\* inserted behind the last.
OneSet(front, back) ==
    Body(front) \o ((Closing \o <<"CRLF">>) \o (Body(back) \o <<"CRLF">>))
OneMoreLine(front, x) ==
    Body(front) \o ((x \o <<"LF">>) \o ((Closing \o <<"CRLF">>) \o <<"CRLF", "CRLF">>))

LEMMA OneSetRead ==
    ASSUME NEW S, Words \subseteq S, NEW front \in Seq(Seq(S)), NEW back \in Seq(Seq(S)),
           Proper(front), Proper(back), NEW junk \in Seq(S)
    PROVE  Reads(OneSet(front, back), junk, ToSet(front) \cup {Closing} \cup ToSet(back))
<1>1. "CRLF" \in S /\ "CRLF" \in LineEnds
  BY DEF Words, LineEnds
<1>2. PICK f \in Seq(S), k \in Seq(S), l \in Seq(S), c \in Seq(S) :
         f = Body(front) /\ k = Body(back) /\ l = <<"CRLF">> /\ c = Closing
  <2>1. Body(front) \in Seq(S) /\ Body(back) \in Seq(S) /\ Closing \in Seq(S)
    BY <1>1, BodyType, ClosingIsLine
  <2>2. <<"CRLF">> \in Seq(S)
    BY <1>1
  <2> QED BY <2>1, <2>2
<1>3. PICK kl \in Seq(S), cl \in Seq(S), t0 \in Seq(S) : kl = k \o l /\ cl = c \o l /\ t0 = l \o junk
  BY OneConcat
<1>4. PICK ckl \in Seq(S), t1 \in Seq(S) : ckl = cl \o kl /\ t1 = k \o t0
  BY OneConcat
<1>5. PICK t2 \in Seq(S) : t2 = cl \o t1
  BY OneConcat
<1>6. Associate(f, ckl, junk) /\ Associate(cl, kl, junk) /\ Associate(k, l, junk)
  BY AllAssociate
<1>7. (f \o ckl) \o junk = f \o t2
  BY <1>3, <1>4, <1>5, <1>6 DEF Associate
<1>8. EmptyLines(t0) # {} /\ Lines(t0) = {}
  BY <1>1, <1>2, <1>3, NoLines
<1>9. EmptyLines(t1) # {} /\ Lines(t1) = ToSet(back) \cup {}
  <2>1. FirstHeaders(back, t0)
    BY <1>1, <1>8, FirstHeadersRead
  <2> QED BY <1>2, <1>4, <1>8, <2>1 DEF FirstHeaders
<1>10. EmptyLines(t2) # {} /\ Lines(t2) = {c} \cup Lines(t1)
  <2>1. c # <<>> /\ Without(c, LineEnds)
    BY <1>2, ClosingIsLine
  <2>2. /\ EmptyLines(c \o <<"CRLF">> \o t1) # {}
        /\ Lines(c \o <<"CRLF">> \o t1) = {c} \cup Lines(t1)
    <3>1. FirstLine(c, "CRLF", t1)
      BY <1>1, <1>9, <2>1, FirstLineRead
    <3> QED BY <3>1 DEF FirstLine
  <2> QED BY <1>2, <1>3, <1>5, <2>2
<1>11. EmptyLines(f \o t2) # {} /\ Lines(f \o t2) = ToSet(front) \cup Lines(t2)
  <2>1. FirstHeaders(front, t2)
    BY <1>1, <1>10, FirstHeadersRead
  <2> QED BY <1>2, <2>1 DEF FirstHeaders
<1>12. OneSet(front, back) = f \o ckl
  BY <1>2, <1>3, <1>4 DEF OneSet
<1>13. Lines(f \o t2) = ToSet(front) \cup {Closing} \cup ToSet(back)
  BY <1>2, <1>9, <1>10, <1>11
<1> QED BY <1>7, <1>11, <1>12, <1>13 DEF Reads

LEMMA OneMoreLineRead ==
    ASSUME NEW S, Words \subseteq S, NEW front \in Seq(Seq(S)), NEW x \in Seq(S),
           Proper(front), x # <<>>, Without(x, LineEnds), NEW junk \in Seq(S)
    PROVE  Reads(OneMoreLine(front, x), junk, ToSet(front) \cup {x} \cup {Closing})
<1>1. "CRLF" \in S /\ "CRLF" \in LineEnds /\ "LF" \in S /\ "LF" \in LineEnds
  BY DEF Words, LineEnds
<1>2. PICK f \in Seq(S), l \in Seq(S), lf \in Seq(S), c \in Seq(S), ll \in Seq(S) :
         /\ f = Body(front) /\ l = <<"CRLF">> /\ lf = <<"LF">> /\ c = Closing
         /\ ll = <<"CRLF", "CRLF">> /\ ll = l \o l
  <2>1. Body(front) \in Seq(S) /\ Closing \in Seq(S)
    BY <1>1, BodyType, ClosingIsLine
  <2>2. <<"CRLF">> \in Seq(S) /\ <<"LF">> \in Seq(S) /\ <<"CRLF", "CRLF">> \in Seq(S)
    BY <1>1
  <2>3. Short("CRLF", "CRLF", "CRLF", "CRLF")
    BY <1>1, ShortTexts
  <2> QED BY <2>1, <2>2, <2>3 DEF Short
<1>3. PICK xlf \in Seq(S), cl \in Seq(S), lj \in Seq(S) :
         xlf = x \o lf /\ cl = c \o l /\ lj = l \o junk
  BY OneConcat
<1>4. PICK z \in Seq(S), t1 \in Seq(S) : z = cl \o ll /\ t1 = l \o lj
  BY OneConcat
<1>5. PICK xz \in Seq(S), t2 \in Seq(S) : xz = xlf \o z /\ t2 = cl \o t1
  BY OneConcat
<1>6. PICK t3 \in Seq(S) : t3 = xlf \o t2
  BY OneConcat
<1>7. /\ Associate(f, xz, junk) /\ Associate(xlf, z, junk) /\ Associate(cl, ll, junk)
      /\ Associate(l, l, junk)
  BY AllAssociate
<1>8. (f \o xz) \o junk = f \o t3
  <2>1. ll \o junk = t1
    BY <1>2, <1>3, <1>4, <1>7 DEF Associate
  <2>2. z \o junk = t2
    BY <1>4, <1>5, <1>7, <2>1 DEF Associate
  <2>3. xz \o junk = t3
    BY <1>5, <1>6, <1>7, <2>2 DEF Associate
  <2> QED BY <1>7, <2>3 DEF Associate
<1>9. EmptyLines(t1) # {} /\ Lines(t1) = {}
  BY <1>1, <1>2, <1>3, <1>4, NoLines
<1>10. EmptyLines(t2) # {} /\ Lines(t2) = {c} \cup Lines(t1)
  <2>1. c # <<>> /\ Without(c, LineEnds)
    BY <1>2, ClosingIsLine
  <2>2. FirstLine(c, "CRLF", t1)
    BY <1>1, <1>9, <2>1, FirstLineRead
  <2> QED BY <1>2, <1>3, <1>5, <2>2 DEF FirstLine
<1>11. EmptyLines(t3) # {} /\ Lines(t3) = {x} \cup Lines(t2)
  <2>1. FirstLine(x, "LF", t2)
    BY <1>1, <1>10, FirstLineRead
  <2> QED BY <1>2, <1>3, <1>6, <2>1 DEF FirstLine
<1>12. EmptyLines(f \o t3) # {} /\ Lines(f \o t3) = ToSet(front) \cup Lines(t3)
  <2>1. FirstHeaders(front, t3)
    BY <1>1, <1>11, FirstHeadersRead
  <2> QED BY <1>2, <2>1 DEF FirstHeaders
<1>13. OneMoreLine(front, x) = f \o xz
  BY <1>2, <1>3, <1>4, <1>5 DEF OneMoreLine
<1>14. Lines(f \o t3) = ToSet(front) \cup {x} \cup {Closing}
  BY <1>2, <1>9, <1>10, <1>11, <1>12
<1> QED BY <1>8, <1>12, <1>13, <1>14 DEF Reads

\* A sequence is what lies before one of its elements, the element and the rest.
Around(hs, c, front, back) ==
    /\ hs = front \o <<hs[c]>> \o back
    /\ \A i \in 1 .. Len(front) : i \in 1 .. Len(hs) /\ i # c /\ front[i] = hs[i]
    /\ \A i \in 1 .. Len(back) : c + i \in 1 .. Len(hs) /\ c + i # c /\ back[i] = hs[c + i]
    /\ Len(front) = c - 1 /\ Len(back) = Len(hs) - c
    /\ ToSet(hs) = ToSet(front) \cup {hs[c]} \cup ToSet(back)

LEMMA SplitAround ==
    ASSUME NEW V, NEW hs \in Seq(V), NEW c \in 1 .. Len(hs)
    PROVE  \E front \in Seq(V), back \in Seq(V) : Around(hs, c, front, back)
<1>1. PICK n \in Nat, a \in Nat, b \in Nat : n = Len(hs) /\ c = a + 1 /\ n = a + 1 + b
  <2>1. Len(hs) \in Nat /\ c - 1 \in Nat /\ Len(hs) - c \in Nat
    OBVIOUS
  <2>2. c = (c - 1) + 1 /\ Len(hs) = (c - 1) + 1 + (Len(hs) - c)
    BY <2>1
  <2> QED BY <2>1, <2>2
<1>2. PICK front \in Seq(V) : Len(front) = a /\ \A i \in 1 .. a : front[i] = hs[i]
  <2>1. 0 + a <= Len(hs) /\ 0 \in Nat
    BY <1>1
  <2>2. /\ SubSeq(hs, 0 + 1, 0 + a) \in Seq(V) /\ Len(SubSeq(hs, 0 + 1, 0 + a)) = a
        /\ \A i \in 1 .. a : SubSeq(hs, 0 + 1, 0 + a)[i] = hs[0 + i]
    BY <2>1, SubSeqAt
  <2>3. \A i \in 1 .. a : 0 + i = i
    OBVIOUS
  <2> QED BY <2>2, <2>3
<1>3. PICK back \in Seq(V) : Len(back) = b /\ \A i \in 1 .. b : back[i] = hs[c + i]
  <2>1. c + b <= Len(hs) /\ c \in Nat
    BY <1>1
  <2>2. /\ SubSeq(hs, c + 1, c + b) \in Seq(V) /\ Len(SubSeq(hs, c + 1, c + b)) = b
        /\ \A i \in 1 .. b : SubSeq(hs, c + 1, c + b)[i] = hs[c + i]
    BY <2>1, SubSeqAt
  <2> QED BY <2>2
<1>4. hs[c] \in V
  BY ElementOfSeq
<1>5. /\ front \o <<hs[c]>> \o back \in Seq(V)
      /\ Len(front \o <<hs[c]>> \o back) = Len(front) + 1 + Len(back)
      /\ \A i \in 1 .. Len(front) : (front \o <<hs[c]>> \o back)[i] = front[i]
      /\ (front \o <<hs[c]>> \o back)[Len(front) + 1] = hs[c]
      /\ \A i \in 1 .. Len(back) : (front \o <<hs[c]>> \o back)[Len(front) + 1 + i] = back[i]
  <2>1. front \in Seq(V) /\ back \in Seq(V) /\ hs[c] \in V
    BY <1>4
  <2> QED BY ONLY <2>1, TokenAt
<1>6. PICK w \in Seq(V) : w = front \o <<hs[c]>> \o back
  BY <1>5
<1>7. /\ Len(w) = n /\ w[c] = hs[c]
      /\ \A i \in 1 .. a : w[i] = hs[i]
      /\ \A i \in 1 .. b : w[c + i] = hs[c + i]
  BY <1>1, <1>2, <1>3, <1>5, <1>6
<1>8. ASSUME NEW i \in 1 .. n PROVE w[i] = hs[i]
  <2>1. CASE i \in 1 .. a
    BY <1>7, <2>1
  <2>2. CASE i = c
    BY <1>7, <2>2
  <2>3. CASE i > c
    <3>1. PICK j \in 1 .. b : i = c + j
      <4>1. i - c \in 1 .. b /\ i = c + (i - c)
        BY <1>1, <2>3
      <4> QED BY <4>1
    <3> QED BY <1>7, <3>1
  <2> QED BY <1>1, <2>1, <2>2, <2>3
<1>9. w = hs
  BY <1>1, <1>7, <1>8, SeqEqual
<1>10. Len(front) = c - 1 /\ Len(back) = Len(hs) - c
  BY <1>1, <1>2, <1>3
<1>11. ToSet(hs) = ToSet(front) \cup {hs[c]} \cup ToSet(back)
  <2>0. /\ \A y : y \in ToSet(hs) <=> \E i \in 1 .. n : y = hs[i]
        /\ \A y : y \in ToSet(front) <=> \E i \in 1 .. a : y = front[i]
        /\ \A y : y \in ToSet(back) <=> \E i \in 1 .. b : y = back[i]
    <3>1. DOMAIN hs = 1 .. n /\ DOMAIN front = 1 .. a /\ DOMAIN back = 1 .. b
      BY <1>1, <1>2, <1>3, LenProperties
    <3> QED BY ONLY <3>1 DEF ToSet
  <2>2. ASSUME NEW i \in 1 .. n PROVE i \in 1 .. a \/ i = c \/ \E j \in 1 .. b : i = c + j
    <3>1. CASE i > c
      <4>1. i - c \in 1 .. b /\ i = c + (i - c)
        BY <1>1, <3>1
      <4> QED BY <4>1
    <3> QED BY <1>1, <3>1
  <2>3. (\A i \in 1 .. a : i \in 1 .. n) /\ c \in 1 .. n /\ \A j \in 1 .. b : c + j \in 1 .. n
    BY <1>1
  <2>4. ToSet(hs) \subseteq ToSet(front) \cup {hs[c]} \cup ToSet(back)
    <3>1. ASSUME NEW i \in 1 .. n PROVE hs[i] \in ToSet(front) \cup {hs[c]} \cup ToSet(back)
      <4>1. CASE i \in 1 .. a
        BY <1>2, <2>0, <4>1
      <4>2. CASE i = c
        BY <4>2
      <4>3. CASE \E j \in 1 .. b : i = c + j
        BY <1>3, <2>0, <4>3
      <4> QED BY <2>2, <4>1, <4>2, <4>3
    <3> QED BY <2>0, <3>1
  <2>5. ToSet(front) \cup {hs[c]} \cup ToSet(back) \subseteq ToSet(hs)
    <3>1. \A i \in 1 .. a : front[i] \in ToSet(hs)
      BY <1>2, <2>0, <2>3
    <3>2. \A i \in 1 .. b : back[i] \in ToSet(hs)
      BY <1>3, <2>0, <2>3
    <3>3. hs[c] \in ToSet(hs)
      BY <2>0, <2>3
    <3>4. ToSet(front) \subseteq ToSet(hs)
      BY ONLY <2>0, <3>1
    <3>5. ToSet(back) \subseteq ToSet(hs)
      BY ONLY <2>0, <3>2
    <3> QED BY ONLY <3>3, <3>4, <3>5
  <2> QED BY <2>4, <2>5
<1>12. \A i \in 1 .. Len(front) : i \in 1 .. Len(hs) /\ i # c /\ front[i] = hs[i]
  BY <1>1, <1>2
<1>13. \A i \in 1 .. Len(back) : c + i \in 1 .. Len(hs) /\ c + i # c /\ back[i] = hs[c + i]
  BY <1>1, <1>3
<1>14. hs = front \o <<hs[c]>> \o back
  BY <1>6, <1>9
<1>15. Around(hs, c, front, back)
  BY <1>10, <1>11, <1>12, <1>13, <1>14 DEF Around
<1> QED BY <1>2, <1>3, <1>15

-----------------------------------------------------------------------------
(* Ordinary requests                                                       *)

\* Headers with one Connection header, longer than close and alone in holding
\* that word, or with none.
OneConnection(hs, c) ==
    /\ c \in 1 .. Len(hs) /\ IsConnection(hs[c]) /\ Len(hs[c]) > Len(Close)
    /\ \A i \in 2 .. Len(hs[c]) : hs[c][i] # "Connection"
    /\ \A i \in 1 .. Len(hs) : i # c => Without(hs[i], {"Connection"})
NoConnection(hs) == hs # <<>> /\ \A i \in 1 .. Len(hs) : Without(hs[i], {"Connection"})

HeldWithout(hs, ts) == \A i \in 1 .. Len(hs) : Without(hs[i], ts)

\* What the server is meant to read behind the request line.
MeantHeaders(hs) == {Closing} \cup {x \in ToSet(hs) : ~IsConnection(x)}

LEMMA NotConnection ==
    ASSUME NEW S, NEW hs \in Seq(Seq(S)), Proper(hs), HeldWithout(hs, {"Connection"}),
           NEW x \in ToSet(hs)
    PROVE  ~IsConnection(x)
<1>1. PICK i \in 1 .. Len(hs) : x = hs[i]
  <2>1. DOMAIN hs = 1 .. Len(hs)
    BY LenProperties
  <2> QED BY <2>1 DEF ToSet
<1>2. x \in Seq(S) /\ x # <<>> /\ Without(x, {"Connection"})
  BY <1>1, ElementOfSeq DEF Proper, HeldWithout
<1>3. 1 \in 1 .. Len(x) /\ Head(x) = x[1]
  BY <1>2
<1> QED BY <1>2, <1>3 DEF Without, IsConnection

\* The second edit of an ordinary request, and what is read of it.
Closed(S, g, h, hs, junk) ==
    \E rest \in Seq(S) :
       /\ SetConnection(g \o (h \o (Body(hs) \o <<"CRLF">>))) = g \o (h \o rest)
       /\ Reads(rest, junk, MeantHeaders(hs))
       /\ HeldWithout(hs, {"http://"}) => Without(rest, {"http://"})

LEMMA NameAndValue ==
    ASSUME NEW S, NEW x \in Seq(S), Len(x) > 2, IsConnection(x),
           \A i \in 2 .. Len(x) : x[i] # "Connection"
    PROVE  \E v \in Seq(S) : /\ x = <<"Connection">> \o v /\ Len(v) = Len(x) - 1
                             /\ Without(v, {"Connection"})
                             /\ \A ts : Without(x, ts) => Without(v, ts)
<1>1. PICK m \in Nat : Len(x) = m + 1 /\ m >= 2
  <2>1. Len(x) - 1 \in Nat /\ Len(x) = (Len(x) - 1) + 1 /\ Len(x) - 1 >= 2
    OBVIOUS
  <2> QED BY <2>1
<1>2. PICK v \in Seq(S) : Len(v) = m /\ \A i \in 1 .. m : v[i] = x[1 + i]
  <2>1. 1 \in Nat /\ 1 + m <= Len(x)
    BY <1>1
  <2>2. /\ SubSeq(x, 1 + 1, 1 + m) \in Seq(S) /\ Len(SubSeq(x, 1 + 1, 1 + m)) = m
        /\ \A i \in 1 .. m : SubSeq(x, 1 + 1, 1 + m)[i] = x[1 + i]
    BY <2>1, SubSeqAt
  <2> QED BY <2>2
<1>3. "Connection" \in S /\ x[1] = "Connection"
  <2>1. Head(x) = x[1] /\ x[1] \in S
    BY <1>1
  <2> QED BY <2>1 DEF IsConnection
<1>4. PICK c \in Seq(S) : c = <<"Connection">> /\ Len(c) = 1 /\ c[1] = "Connection"
  <2>1. <<"Connection">> \in Seq(S) /\ Len(<<"Connection">>) = 1
    BY <1>3
  <2> QED BY <2>1
<1>5. c \o v = x
  <2>1. /\ c \o v \in Seq(S) /\ Len(c \o v) = Len(c) + Len(v)
        /\ \A i \in 1 .. Len(c) : (c \o v)[i] = c[i]
        /\ \A i \in 1 .. Len(v) : (c \o v)[Len(c) + i] = v[i]
    BY ConcatAt
  <2>2. PICK w \in Seq(S) : w = c \o v
    BY <2>1
  <2>3. Len(w) = Len(x) /\ w[1] = x[1] /\ \A i \in 1 .. m : w[1 + i] = x[1 + i]
    BY <1>1, <1>2, <1>3, <1>4, <2>1, <2>2
  <2>4. ASSUME NEW i \in 1 .. Len(x) PROVE w[i] = x[i]
    <3>1. i = 1 \/ \E j \in 1 .. m : i = 1 + j
      <4>1. CASE i # 1
        <5>1. i - 1 \in 1 .. m /\ i = 1 + (i - 1)
          BY <1>1, <4>1
        <5> QED BY <5>1
      <4> QED BY <4>1
    <3> QED BY <2>3, <3>1
  <2> QED BY <2>2, <2>3, <2>4, SeqEqual
<1>6. ASSUME NEW i \in 1 .. m PROVE 1 + i \in 2 .. Len(x) /\ 1 + i \in 1 .. Len(x)
  BY <1>1
<1>7. Without(v, {"Connection"}) /\ \A ts : Without(x, ts) => Without(v, ts)
  BY <1>2, <1>6 DEF Without
<1>8. Len(v) = Len(x) - 1
  BY <1>1, <1>2
<1> QED BY <1>4, <1>5, <1>7, <1>8

LEMMA ClosedOne ==
    ASSUME NEW S, Vocabulary \subseteq S, NEW g \in Seq(S), NEW h \in Seq(S),
           EndsLine(h), NEW hs \in Seq(Seq(S)), Proper(hs), NEW c \in 1 .. Len(hs),
           OneConnection(hs, c), NEW junk \in Seq(S)
    PROVE  Closed(S, g, h, hs, junk)
<1>1. Words \subseteq S /\ "CRLF" \in S
  BY DEF Vocabulary, Words
<1>2. PICK front \in Seq(Seq(S)), back \in Seq(Seq(S)) : Around(hs, c, front, back)
  BY SplitAround
<1>3. PICK x \in Seq(S) : x = hs[c]
  BY ElementOfSeq
<1>4. Len(x) > 2 /\ IsConnection(x) /\ \A i \in 2 .. Len(x) : x[i] # "Connection"
  <2>1. Len(Close) = 2
    BY DEF Close
  <2> QED BY <1>3, <2>1 DEF OneConnection
<1>5. PICK v \in Seq(S) : /\ x = <<"Connection">> \o v /\ Len(v) = Len(x) - 1
                          /\ Without(v, {"Connection"})
                          /\ \A ts : Without(x, ts) => Without(v, ts)
  BY <1>4, NameAndValue
<1>6. /\ \A i \in 1 .. Len(front) : i \in 1 .. Len(hs) /\ i # c
      /\ \A i \in 1 .. Len(back) : c + i \in 1 .. Len(hs) /\ c + i # c
  BY <1>2 DEF Around
<1>7. Proper(front) /\ Proper(back)
  BY <1>2 DEF Proper, Around
<1>8. HeldWithout(front, {"Connection"}) /\ HeldWithout(back, {"Connection"})
  BY <1>2 DEF OneConnection, HeldWithout, Around
<1>9. Len(v) >= Len(Close) /\ Without(v, {"CRLF"})
  <2>1. Len(Close) = 2 /\ Len(x) \in Nat /\ Len(v) \in Nat
    BY DEF Close
  <2>2. Without(v, LineEnds)
    BY <1>3, <1>5 DEF Proper
  <2>3. Without(v, {"CRLF"})
    BY <2>2 DEF Without, LineEnds
  <2> QED BY <1>4, <1>5, <2>1, <2>3
<1>10. PICK f \in Seq(S), k \in Seq(S), l \in Seq(S), cg \in Seq(S) :
          f = Body(front) /\ k = Body(back) /\ l = <<"CRLF">> /\ cg = Closing
  <2>1. Body(front) \in Seq(S) /\ Body(back) \in Seq(S) /\ Closing \in Seq(S)
    BY <1>1, BodyType, ClosingIsLine
  <2>2. <<"CRLF">> \in Seq(S)
    BY <1>1
  <2> QED BY <2>1, <2>2
<1>11. PICK kl \in Seq(S), cl \in Seq(S) : kl = k \o l /\ cl = cg \o l
  BY OneConcat
<1>12. PICK ckl \in Seq(S) : ckl = cl \o kl
  BY OneConcat
<1>13. PICK rest \in Seq(S) : rest = f \o ckl
  BY OneConcat
<1>14. rest = OneSet(front, back)
  BY <1>10, <1>11, <1>12, <1>13 DEF OneSet
<1>15. SetConnection(g \o (h \o (Body(hs) \o <<"CRLF">>))) = g \o (h \o rest)
  <2>1. SetConnection(g \o (h \o (Body(front \o <<<<"Connection">> \o v>> \o back) \o <<"CRLF">>)))
           = g \o (h \o OneSet(front, back))
    <3>1. \A i \in 1 .. Len(back) : Without(back[i], {"Connection"})
      BY <1>8 DEF HeldWithout
    <3>2. ClosesOne(g, h, front, v, back)
      BY <1>1, <1>5, <1>9, <3>1, ConnectionOfHeaders
    <3> QED BY <3>2 DEF ClosesOne, OneSet
  <2>2. hs = front \o <<<<"Connection">> \o v>> \o back
    BY <1>2, <1>3, <1>5 DEF Around
  <2> QED BY <1>14, <2>1, <2>2
<1>16. Reads(rest, junk, MeantHeaders(hs))
  <2>1. Reads(rest, junk, ToSet(front) \cup {Closing} \cup ToSet(back))
    BY <1>1, <1>7, <1>14, OneSetRead
  <2>2. /\ \A y \in ToSet(front) : ~IsConnection(y)
        /\ \A y \in ToSet(back) : ~IsConnection(y)
    BY <1>7, <1>8, NotConnection
  <2>3. MeantHeaders(hs) = ToSet(front) \cup {Closing} \cup ToSet(back)
    BY <1>2, <1>3, <1>4, <2>2 DEF MeantHeaders, Around
  <2> QED BY <2>1, <2>3
<1>17. ASSUME HeldWithout(hs, {"http://"}) PROVE Without(rest, {"http://"})
  <2>1. HeldWithout(front, {"http://"}) /\ HeldWithout(back, {"http://"})
    BY <1>2, <1>17 DEF HeldWithout, Around
  <2>2. Without(f, {"http://"}) /\ Without(k, {"http://"})
    BY <1>1, <1>10, <2>1, BodyWithout DEF HeldWithout
  <2>3. Without(l, {"http://"}) /\ Without(cg, {"http://"})
    <3>1. Without(<<"CRLF">>, {"http://"})
      BY DEF Without
    <3> QED BY <1>1, <1>10, <3>1, ClosingIsLine
  <2>4. Without(kl, {"http://"}) /\ Without(cl, {"http://"})
    BY <1>11, <2>2, <2>3, WithoutConcat
  <2>5. Without(ckl, {"http://"})
    BY <1>12, <2>4, WithoutConcat
  <2> QED BY <1>13, <2>2, <2>5, WithoutConcat
<1> QED BY <1>15, <1>16, <1>17 DEF Closed

LEMMA ClosedNone ==
    ASSUME NEW S, Vocabulary \subseteq S, NEW g \in Seq(S), NEW h \in Seq(S),
           Spaced(g \o h), Without(g, {"Connection"}), Without(h, {"Connection"}),
           NEW hs \in Seq(Seq(S)), Proper(hs), NoConnection(hs), NEW junk \in Seq(S)
    PROVE  Closed(S, g, h, hs, junk)
<1>1. Words \subseteq S /\ "CRLF" \in S /\ "LF" \in S
  BY DEF Vocabulary, Words
<1>2. PICK c \in 1 .. Len(hs) : c = Len(hs)
  BY DEF NoConnection
<1>3. PICK front \in Seq(Seq(S)), back \in Seq(Seq(S)) : Around(hs, c, front, back)
  BY SplitAround
<1>4. PICK x \in Seq(S) : x = hs[c] /\ x # <<>> /\ Without(x, LineEnds)
                          /\ Without(x, {"Connection"})
  BY ElementOfSeq DEF Proper, NoConnection
<1>5. hs = Append(front, x) /\ ToSet(hs) = ToSet(front) \cup {x}
  <2>1. back = <<>> /\ ToSet(back) = {}
    <3>1. Len(back) = 0
      BY <1>2, <1>3 DEF Around
    <3>2. back = <<>>
      BY <3>1
    <3> QED BY <3>2 DEF ToSet
  <2>2. front \o <<x>> = Append(front, x) /\ Append(front, x) \in Seq(Seq(S))
    <3> DEFINE V == Seq(S)
    <3>1. front \in Seq(V) /\ x \in V
      OBVIOUS
    <3> HIDE DEF V
    <3>2. front \o <<x>> = Append(front, x) /\ Append(front, x) \in Seq(V)
      BY <3>1, AppendIsConcat, AppendProperties
    <3> QED BY <3>2 DEF V
  <2>3. (front \o <<x>>) \o <<>> = front \o <<x>>
    BY <2>2, ConcatEmptySeq
  <2> QED BY <1>3, <1>4, <2>1, <2>2, <2>3 DEF Around
<1>7. Proper(front) /\ HeldWithout(front, {"Connection"})
  BY <1>3 DEF Proper, NoConnection, HeldWithout, Around
<1>8. PICK f \in Seq(S), l \in Seq(S), lf \in Seq(S), cg \in Seq(S), ll \in Seq(S) :
         /\ f = Body(front) /\ l = <<"CRLF">> /\ lf = <<"LF">> /\ cg = Closing
         /\ ll = <<"CRLF", "CRLF">>
  <2>1. Body(front) \in Seq(S) /\ Closing \in Seq(S)
    BY <1>1, BodyType, ClosingIsLine
  <2>2. <<"CRLF">> \in Seq(S) /\ <<"LF">> \in Seq(S) /\ <<"CRLF", "CRLF">> \in Seq(S)
    BY <1>1
  <2> QED BY <2>1, <2>2
<1>9. PICK xlf \in Seq(S), cl \in Seq(S) : xlf = x \o lf /\ cl = cg \o l
  BY OneConcat
<1>10. PICK z \in Seq(S) : z = cl \o ll
  BY OneConcat
<1>11. PICK xz \in Seq(S) : xz = xlf \o z
  BY OneConcat
<1>12. PICK rest \in Seq(S) : rest = f \o xz
  BY OneConcat
<1>13. rest = OneMoreLine(front, x)
  BY <1>8, <1>9, <1>10, <1>11, <1>12 DEF OneMoreLine
<1>14. SetConnection(g \o (h \o (Body(hs) \o <<"CRLF">>))) = g \o (h \o rest)
  <2>1. Spaced(Body(Append(front, x)))
    <3>1. Spaced(Body(hs))
      BY <1>1, BodySpaced DEF Proper
    <3> QED BY <1>5, <3>1
  <2>2. SetConnection(g \o (h \o (Body(Append(front, x)) \o <<"CRLF">>)))
           = g \o (h \o OneMoreLine(front, x))
    <3>1. \A i \in 1 .. Len(front) : Without(front[i], {"Connection"})
      BY <1>7 DEF HeldWithout
    <3>2. ClosesNone(g, h, front, x)
      BY <1>1, <1>4, <2>1, <3>1, ConnectionOfNone
    <3> QED BY <3>2 DEF ClosesNone, OneMoreLine
  <2> QED BY <1>5, <1>13, <2>2
<1>15. Reads(rest, junk, MeantHeaders(hs))
  <2>1. Reads(rest, junk, ToSet(front) \cup {x} \cup {Closing})
    BY <1>1, <1>4, <1>7, <1>13, OneMoreLineRead
  <2>2. \A y \in ToSet(hs) : ~IsConnection(y)
    BY NotConnection DEF NoConnection, HeldWithout
  <2>3. MeantHeaders(hs) = ToSet(front) \cup {x} \cup {Closing}
    BY <1>5, <2>2 DEF MeantHeaders
  <2> QED BY <2>1, <2>3
<1>16. ASSUME HeldWithout(hs, {"http://"}) PROVE Without(rest, {"http://"})
  <2>1. HeldWithout(front, {"http://"}) /\ Without(x, {"http://"})
    BY <1>2, <1>3, <1>4, <1>16 DEF HeldWithout, Around
  <2>2. Without(f, {"http://"})
    BY <1>1, <1>8, <2>1, BodyWithout DEF HeldWithout
  <2>3. /\ Without(l, {"http://"}) /\ Without(lf, {"http://"})
        /\ Without(ll, {"http://"}) /\ Without(cg, {"http://"})
    <3>1. /\ Without(<<"CRLF">>, {"http://"}) /\ Without(<<"LF">>, {"http://"})
          /\ Without(<<"CRLF", "CRLF">>, {"http://"})
      <4>1. /\ Len(<<"CRLF", "CRLF">>) = 2
            /\ \A i \in 1 .. 2 : <<"CRLF", "CRLF">>[i] = "CRLF"
        OBVIOUS
      <4>2. Without(<<"CRLF">>, {"http://"}) /\ Without(<<"LF">>, {"http://"})
        <5>1. Without(<<"CRLF">>, {"http://"})
          BY DEF Without
        <5>2. Without(<<"LF">>, {"http://"})
          BY DEF Without
        <5> QED BY <5>1, <5>2
      <4>3. Without(<<"CRLF", "CRLF">>, {"http://"})
        BY <4>1 DEF Without
      <4> QED BY <4>2, <4>3
    <3> QED BY <1>1, <1>8, <3>1, ClosingIsLine
  <2>4. Without(xlf, {"http://"}) /\ Without(cl, {"http://"})
    BY <1>9, <2>1, <2>3, WithoutConcat
  <2>5. Without(z, {"http://"})
    BY <1>10, <2>3, <2>4, WithoutConcat
  <2>6. Without(xz, {"http://"})
    BY <1>11, <2>4, <2>5, WithoutConcat
  <2> QED BY <1>12, <2>2, <2>6, WithoutConcat
<1> QED BY <1>14, <1>15, <1>16 DEF Closed

\* A request as clients send them: a URL and headers of which every one holds
\* something and is one line, no second http:// where the first one is to be cut
\* out, and at most one Connection header, alone in holding that word.
Ordinary(q) ==
    /\ OrdinaryURL(q.url) /\ Proper(q.headers)
    /\ q.url = <<"/page">> => HeldWithout(q.headers, {"http://"})
    /\ NoConnection(q.headers) \/ \E c \in 1 .. Len(q.headers) : OneConnection(q.headers, c)

LEMMA RequestLineSpaced ==
    ASSUME NEW S, Vocabulary \subseteq S, NEW g \in Seq(S), g # <<>>, Without(g, {"CRLF"})
    PROVE  Spaced(g \o RequestHead("/1.1")) /\ Without(RequestHead("/1.1"), {"Connection"})
<1>1. "HTTP" \in S /\ "CRLF" \in S /\ "/1.1" \in S
  BY DEF Vocabulary, Words
<1>2. PICK b \in Seq(S), l \in Seq(S), h \in Seq(S) :
         /\ b = <<"HTTP", "/1.1">> /\ l = <<"CRLF">> /\ h = RequestHead("/1.1")
         /\ h = b \o l
  <2>1. /\ <<"HTTP", "/1.1">> \in Seq(S) /\ <<"CRLF">> \in Seq(S)
        /\ RequestHead("/1.1") \in Seq(S)
    <3>1. <<"HTTP", "/1.1">> \in Seq(S) /\ <<"CRLF">> \in Seq(S)
      BY <1>1
    <3>2. RequestHead("/1.1") \in Seq(S)
      BY <1>1, VersionParts
    <3> QED BY <3>1, <3>2
  <2>2. Short("HTTP", "/1.1", "CRLF", "CRLF")
    BY <1>1, ShortTexts
  <2> QED BY <2>1, <2>2 DEF Short, RequestHead
<1>3. Without(b, {"CRLF"})
  <2>1. Len(b) = 2 /\ b[1] = "HTTP" /\ b[2] = "/1.1"
    BY <1>2
  <2> QED BY <2>1 DEF Without
<1>4. PICK gb \in Seq(S) : gb = g \o b
  BY OneConcat
<1>5. gb # <<>> /\ Without(gb, {"CRLF"})
  <2>1. Len(gb) = Len(g) + Len(b) /\ Len(b) = 2 /\ Len(g) \in Nat
    BY <1>2, <1>4, ConcatAt
  <2>2. gb # <<>>
    BY <2>1
  <2>3. Without(gb, {"CRLF"})
    BY <1>3, <1>4, WithoutConcat
  <2> QED BY <2>2, <2>3
<1>6. Spaced(gb \o <<"CRLF">>)
  BY <1>1, <1>5, LineSpaced
<1>7. Associate(g, b, l)
  BY AllAssociate
<1>8. Spaced(g \o h)
  BY <1>2, <1>4, <1>6, <1>7 DEF Associate
<1>9. Without(h, {"Connection"})
  <2>1. Len(h) = 3 /\ h[1] = "HTTP" /\ h[2] = "/1.1" /\ h[3] = "CRLF"
    BY <1>2 DEF RequestHead
  <2> QED BY <2>1 DEF Without
<1> QED BY <1>2, <1>8, <1>9

\* The server reads from an ordinary request what it is meant to, whatever
\* bytes lie behind the edited text.
LEMMA OrdinaryEdits ==
    ASSUME NEW S, Vocabulary \subseteq S, NEW q \in RequestsOf(S), Ordinary(q),
           NEW junk \in Seq(S)
    PROVE  Lines(Edited(q) \o junk) = MeantLines(q)
<1>1. Words \subseteq S /\ "CRLF" \in S /\ "GET" \in S /\ "/page" \in S /\ "/1.1" \in S
  BY DEF Vocabulary, Words
<1>2. /\ TextParts(q)
      /\ q.url \in Seq(S) /\ q.version \in S \cap Versions /\ q.headers \in Seq(Seq(S))
      /\ <<"GET">> \o q.url \in Seq(S)
      /\ Body(q.headers) \in Seq(S) /\ Body(q.headers) \o <<"CRLF">> \in Seq(S)
  BY TextHasParts
<1>3. PICK url \in Seq(S), v \in S \cap Versions, hs \in Seq(Seq(S)), a \in Seq(S), p \in Seq(S), h \in Seq(S),
           r \in Seq(S) :
         /\ url = q.url /\ v = q.version /\ hs = q.headers /\ a = <<"GET">> /\ p = <<"/page">>
         /\ h = RequestHead("/1.1") /\ r = Body(hs) \o <<"CRLF">>
  <2>1. <<"GET">> \in Seq(S) /\ <<"/page">> \in Seq(S) /\ RequestHead("/1.1") \in Seq(S)
    <3>1. <<"GET">> \in Seq(S) /\ <<"/page">> \in Seq(S)
      BY <1>1
    <3>2. RequestHead("/1.1") \in Seq(S)
      BY <1>1, <1>2, VersionParts
    <3> QED BY <3>1, <3>2
  <2> QED BY <1>2, <2>1
<1>4. /\ OrdinaryURL(url) /\ Proper(hs)
      /\ url = <<"/page">> => HeldWithout(hs, {"http://"})
      /\ NoConnection(hs) \/ \E c \in 1 .. Len(hs) : OneConnection(hs, c)
  BY <1>3 DEF Ordinary
<1>5. PICK g \in Seq(S) : /\ g = a \o url /\ g # <<>> /\ Without(g, {"/1.0"})
                          /\ Without(g, {"CRLF"}) /\ Without(g, {"Connection"})
  <2>1. PICK g \in Seq(S) : g = a \o url
    BY OneConcat
  <2>2. Len(g) = Len(a) + Len(url) /\ Len(a) = 1 /\ Len(url) \in Nat
    BY <1>3, <2>1, ConcatAt
  <2>3. g # <<>>
    BY <2>2
  <2>4. Without(url, {"/1.0"}) /\ Without(url, {"CRLF"}) /\ Without(url, {"Connection"})
    BY <1>4, URLWithout
  <2>5. Without(a, {"/1.0"}) /\ Without(a, {"CRLF"}) /\ Without(a, {"Connection"})
    BY <1>3 DEF Without
  <2>6. Without(g, {"/1.0"}) /\ Without(g, {"CRLF"}) /\ Without(g, {"Connection"})
    BY <2>1, <2>4, <2>5, WithoutConcat
  <2> QED BY <2>1, <2>3, <2>6
<1>6. SetVersion(Text(q), q.version) = g \o (h \o r)
  <2>1. SetVersion(g \o (RequestHead(v) \o r), v) = g \o (RequestHead("/1.1") \o r)
    <3>1. HeadSet(g, v, r)
      BY <1>5, VersionOfText
    <3> QED BY <3>1 DEF HeadSet
  <2>2. Text(q) = g \o (RequestHead(v) \o r)
    BY <1>2, <1>3, <1>5 DEF TextParts
  <2> QED BY <1>3, <2>1, <2>2
<1>7. Closed(S, g, h, hs, junk)
  <2>1. CASE NoConnection(hs)
    <3>1. Spaced(g \o h) /\ Without(h, {"Connection"})
      BY <1>3, <1>5, RequestLineSpaced
    <3> QED BY <1>4, <1>5, <2>1, <3>1, ClosedNone
  <2>2. CASE \E c \in 1 .. Len(hs) : OneConnection(hs, c)
    <3>1. h = <<"HTTP", "/1.1", "CRLF">>
      BY <1>3 DEF RequestHead
    <3>2. h # <<>> /\ h[Len(h)] = "CRLF"
      BY ONLY <3>1
    <3>3. EndsLine(h)
      BY <3>2 DEF EndsLine
    <3> QED BY <1>4, <2>2, <3>3, ClosedOne
  <2> QED BY <1>4, <2>1, <2>2
<1>8. PICK rest \in Seq(S) :
         /\ SetConnection(g \o (h \o r)) = g \o (h \o rest)
         /\ Reads(rest, junk, MeantHeaders(hs))
         /\ HeldWithout(hs, {"http://"}) => Without(rest, {"http://"})
  BY <1>3, <1>7 DEF Closed
<1>9. PICK hr \in Seq(S) : hr = h \o rest
  BY OneConcat
<1>10. HeldWithout(hs, {"http://"}) => Without(hr, {"http://"})
  <2>1. Len(h) = 3 /\ h[1] = "HTTP" /\ h[2] = "/1.1" /\ h[3] = "CRLF"
    BY <1>3 DEF RequestHead
  <2>2. Without(h, {"http://"})
    BY <2>1 DEF Without
  <2> QED BY <1>8, <1>9, <2>2, WithoutConcat
<1>11. Edited(q) = PathText(rest)
  <2>1. Edited(q) = MakeRelative(g \o hr)
    BY <1>6, <1>8, <1>9 DEF Edited, Parsed
  <2>2. MakeRelative((<<"GET">> \o url) \o hr) = <<"GET">> \o (<<"/page">> \o hr)
    BY <1>4, <1>10, PathOfURL
  <2> QED BY <1>3, <1>5, <1>9, <2>1, <2>2 DEF PathText
<1>12. Lines(PathText(rest) \o junk) = {PathLine} \cup MeantHeaders(hs)
  BY <1>8, RequestRead
<1>13. MeantLines(q) = {PathLine} \cup MeantHeaders(hs)
  BY <1>3 DEF MeantLines, MeantHeaders, PathLine, Closing
<1> QED BY <1>11, <1>12, <1>13

\* Nothing of an ordinary request is in the way of the edits.
LEMMA OrdinaryIsPlain ==
    ASSUME NEW S, Vocabulary \subseteq S, NEW q \in RequestsOf(S), Ordinary(q)
    PROVE  Plain(q)
<1>1. PICK url \in Seq(S), hs \in Seq(Seq(S)) : url = q.url /\ hs = q.headers
  BY DEF RequestsOf
<1>2. /\ OrdinaryURL(url) /\ Proper(hs)
      /\ url = <<"/page">> => HeldWithout(hs, {"http://"})
      /\ NoConnection(hs) \/ \E c \in 1 .. Len(hs) : OneConnection(hs, c)
  BY <1>1 DEF Ordinary
<1>3. Last(url) = "/page"
  <2>1. CASE url = <<"/page">>
    BY <2>1 DEF Last
  <2>2. CASE url # <<"/page">>
    BY <1>2, <2>2 DEF OrdinaryURL, Last
  <2> QED BY <2>1, <2>2
<1>4. url[1] = "http://" \/ ~Contains(FlattenSeq(hs), "http://")
  <2>1. CASE url # <<"/page">>
    BY <1>2, <2>1 DEF OrdinaryURL
  <2>2. CASE url = <<"/page">>
    <3>1. \A i \in 1 .. Len(hs) : Without(hs[i], {"http://"})
      BY <1>2, <2>2 DEF HeldWithout
    <3>2. Without(FlattenSeq(hs), {"http://"})
      BY <3>1, FlattenWithout
    <3> QED BY <3>2 DEF Without, Contains
  <2> QED BY <2>1, <2>2
<1>5. ASSUME NEW x \in ToSet(hs), IsConnection(x) PROVE Len(x) > Len(Close)
  <2>1. CASE NoConnection(hs)
    BY <1>2, <1>5, <2>1, NotConnection DEF NoConnection, HeldWithout
  <2>2. CASE \E c \in 1 .. Len(hs) : OneConnection(hs, c)
    <3>1. PICK c \in 1 .. Len(hs) : OneConnection(hs, c)
      BY <2>2
    <3>2. PICK i \in 1 .. Len(hs) : x = hs[i]
      <4>1. DOMAIN hs = 1 .. Len(hs)
        BY LenProperties
      <4> QED BY <4>1 DEF ToSet
    <3>3. x \in Seq(S) /\ x # <<>>
      BY <1>2, <3>2, ElementOfSeq DEF Proper
    <3>4. 1 \in 1 .. Len(x) /\ x[1] = "Connection"
      BY <1>5, <3>3 DEF IsConnection
    <3>5. i = c
      BY <3>1, <3>2, <3>4 DEF OneConnection, Without
    <3> QED BY <3>1, <3>2, <3>5 DEF OneConnection
  <2> QED BY <1>2, <2>1, <2>2
<1> QED BY <1>1, <1>3, <1>4, <1>5 DEF Plain

=============================================================================
