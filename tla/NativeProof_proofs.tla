------------------------- MODULE NativeProof_proofs -------------------------
(***************************************************************************)
(* Theorems about NativeProof and the evidence it handles, for any number  *)
(* of platforms, bindings and nonces, words of any width, fields of any    *)
(* length, and any number of proofs.                                       *)
(***************************************************************************)
EXTENDS NativeProof, FiniteSetTheorems, TLAPS

-----------------------------------------------------------------------------
(* Words and fields under exclusive or.                                      *)

LEMMA XorWord == \A a, b \in Word : Xor(a, b) \in Word
BY DEF Xor, Word

LEMMA XorTwice == \A a, n \in Word : Xor(Xor(a, n), n) = a
BY DEF Xor, Word

LEMMA XorAssociative == \A a, m, n \in Word : Xor(Xor(a, m), n) = Xor(a, Xor(m, n))
BY DEF Xor, Word

LEMMA XorEmpty == \A m, n \in Word : Xor(m, n) = {} => m = n
BY DEF Xor, Word

LEMMA WordsType ==
  ASSUME NEW s \in Seq(Word), NEW n \in Word
  PROVE  xor_words(s, n) \in Seq(Word)
<1>1. \A i \in 1 .. Len(s) : Xor(s[i], n) \in Word
  BY XorWord
<1>2. xor_words(s, n) = [i \in 1 .. Len(s) |-> Xor(s[i], n)]
  BY DEF xor_words
<1>3. Len(s) \in Nat
  OBVIOUS
<1> HIDE DEF xor_words
<1> QED
  BY <1>1, <1>2, <1>3

LEMMA WordsTwice ==
  ASSUME NEW s \in Seq(Word), NEW n \in Word
  PROVE  xor_words(xor_words(s, n), n) = s
<1>1. \A i \in DOMAIN s : Xor(Xor(s[i], n), n) = s[i]
  BY XorTwice
<1> QED
  BY <1>1 DEF xor_words

LEMMA WordsAssociative ==
  ASSUME NEW s \in Seq(Word), NEW m \in Word, NEW n \in Word
  PROVE  xor_words(xor_words(s, m), n) = xor_words(s, Xor(m, n))
<1>1. \A i \in DOMAIN s : Xor(Xor(s[i], m), n) = Xor(s[i], Xor(m, n))
  BY XorAssociative
<1> QED
  BY <1>1 DEF xor_words

-----------------------------------------------------------------------------
(* Reports.                                                                  *)

LEMMA PlatformType ==
  ASSUME NEW p \in Platforms
  PROVE  /\ p.key \in Seq(Word) /\ p.measure \in Seq(Word)
         /\ p.curve \in Word /\ p.uidLength \in Word /\ p.uid \in Word
BY PlatformAssumption DEF Platform

\* The fields of the report a chip makes.
LEMMA ReportFields ==
  ASSUME NEW p, NEW b, NEW n
  PROVE  LET r == get_report(p, b, n) IN
         /\ r.data = xor_words(b, n) /\ r.measure = xor_words(p.measure, n) /\ r.anonce = n
         /\ r.pek.curve = Xor(p.curve, n) /\ r.pek.key = xor_words(p.key, n)
         /\ r.pek.uidLength = Xor(p.uidLength, n) /\ r.pek.uid = Xor(p.uid, n)
         /\ r.sig = <<p.key, p.uidLength, p.uid, xor_words(b, n), xor_words(p.measure, n)>>
BY DEF get_report

\* What the chip made reads, unmasked, as what the chip has.
LEMMA Unmasked ==
  ASSUME NEW p \in Platforms, NEW b, NEW n \in Word
  PROVE  LET u == Unmask(get_report(p, b, n)) IN
         u.curve = p.curve /\ u.key = p.key /\ u.uidLength = p.uidLength /\ u.uid = p.uid
<1> DEFINE r == get_report(p, b, n)
<1>1. /\ r.anonce = n
      /\ r.pek.curve = Xor(p.curve, n) /\ r.pek.key = xor_words(p.key, n)
      /\ r.pek.uidLength = Xor(p.uidLength, n) /\ r.pek.uid = Xor(p.uid, n)
  BY ReportFields
<1> HIDE DEF r
<1>2. Unmask(r).curve = p.curve /\ Unmask(r).uidLength = p.uidLength /\ Unmask(r).uid = p.uid
  BY <1>1, PlatformType, XorTwice DEF Unmask
<1>3. Unmask(r).key = p.key
  BY <1>1, PlatformType, WordsTwice DEF Unmask
<1> QED
  BY <1>2, <1>3 DEF r

\* The report a chip makes verifies everywhere, for the binding it was made for and with the
\* chip's own values, if the chip certifies an SM2 key under a short text.
LEMMA MadeVerifies ==
  ASSUME NEW b \in Bindings, NEW n \in Nonces, NEW backend \in Backends
  PROVE  Verify(backend, get_report(Self, b, n), b, [key |-> Self.key, measure |-> Self.measure])
<1> DEFINE r == get_report(Self, b, n)
           a == [key |-> Self.key, measure |-> Self.measure]
<1>0. n \in Word /\ Self \in Platforms /\ b \in Seq(Word) /\ Self.measure \in Seq(Word)
  BY WordAssumption, SelfAssumption, PlatformAssumption, PlatformType
<1>1. /\ r.data = xor_words(b, n) /\ r.measure = xor_words(Self.measure, n) /\ r.anonce = n
      /\ r.sig = <<Self.key, Self.uidLength, Self.uid, r.data, r.measure>>
  BY ReportFields
<1>2. /\ Unmask(r).curve = Self.curve /\ Unmask(r).key = Self.key
      /\ Unmask(r).uidLength = Self.uidLength /\ Unmask(r).uid = Self.uid
  BY <1>0, Unmasked
<1>3. a.key = Self.key /\ a.measure = Self.measure
  OBVIOUS
<1> HIDE DEF r, a
<1>4. xor_words(r.data, r.anonce) = b /\ xor_words(r.measure, r.anonce) = a.measure
  BY <1>0, <1>1, <1>3, WordsTwice
<1>5. sm2_verify(Unmask(r), Signed(r), r.sig)
  BY <1>1, <1>2 DEF sm2_verify, Signed
<1>6. Self.curve = Sm2Curve /\ Self.uidLength \notin LongUid /\ Self.uid \in Text
  BY SelfAssumption
<1>7. verify_impl(r, b, a)
  BY <1>2, <1>3, <1>4, <1>5, <1>6 DEF verify_impl
<1>8. verify_report(r, b, a)
  BY <1>2, <1>3, <1>4, <1>5, <1>6 DEF verify_report
<1>9. rust_verify_report(r, b, a)
  BY <1>2, <1>3, <1>4, <1>5, <1>6 DEF rust_verify_report
<1>10. Verify(backend, r, b, a)
  BY <1>7, <1>8, <1>9 DEF Verify, Backends
<1> QED
  BY <1>10 DEF r, a

\* Whatever was changed of a report, it has the chip's signature or none.
LEMMA DamagedFields ==
  ASSUME NEW p \in Platforms, NEW b \in Bindings, NEW n \in Nonces,
         NEW r \in Damaged(get_report(p, b, n)) \cup {get_report(p, b, n)}
  PROVE  /\ r.anonce \in Word
         /\ r.sig = get_report(p, b, n).sig \/ (r = [get_report(p, b, n) EXCEPT !.sig = Broken])
<1> DEFINE c == get_report(p, b, n)
<1>0. n \in Word /\ Nonces \subseteq Word
  BY WordAssumption
<1>1. c.anonce = n /\ c = [data |-> c.data, measure |-> c.measure, anonce |-> n, pek |-> c.pek,
                           sig |-> c.sig]
  BY DEF get_report
<1> HIDE DEF c
<1>2. CASE r = c
  BY <1>0, <1>1, <1>2 DEF c
<1>3. CASE \E w \in Nonces : r = [c EXCEPT !.anonce = w]
  <2>1. PICK w \in Nonces : r = [c EXCEPT !.anonce = w]
    BY <1>3
  <2>2. r.anonce = w /\ r.sig = c.sig
    BY <1>1, <2>1
  <2> QED
    BY <1>0, <2>2 DEF c
<1>4. CASE \E w \in Nonces : \/ r = [c EXCEPT !.data = xor_words(@, w)]
                             \/ r = [c EXCEPT !.measure = xor_words(@, w)]
                             \/ r = [c EXCEPT !.pek.key = xor_words(@, w)]
                             \/ r = [c EXCEPT !.pek.curve = Xor(@, w)]
  <2>1. r.anonce = n /\ r.sig = c.sig
    BY <1>1, <1>4
  <2> QED
    BY <1>0, <2>1 DEF c
<1>5. CASE r = [c EXCEPT !.sig = Broken]
  <2>1. r.anonce = n
    BY <1>1, <1>5
  <2> QED
    BY <1>0, <1>5, <2>1 DEF c
<1>6. CASE \E w \in Nonces :
             r = [c EXCEPT !.anonce = Xor(@, w), !.pek.curve = Xor(@, w),
                           !.pek.key = xor_words(@, w), !.pek.uidLength = Xor(@, w),
                           !.pek.uid = Xor(@, w)]
  <2>1. PICK w \in Nonces :
             r = [c EXCEPT !.anonce = Xor(@, w), !.pek.curve = Xor(@, w),
                           !.pek.key = xor_words(@, w), !.pek.uidLength = Xor(@, w),
                           !.pek.uid = Xor(@, w)]
    BY <1>6
  <2>2. r.anonce = Xor(n, w) /\ r.sig = c.sig
    BY <1>1, <2>1
  <2>3. Xor(n, w) \in Word
    BY <1>0, XorWord
  <2> QED
    BY <2>2, <2>3 DEF c
<1> QED
  BY <1>2, <1>3, <1>4, <1>5, <1>6 DEF Damaged, c

\* A report that verifies, whatever was done to it, is the one a trusted chip made, for the
\* binding it is verified for: the signature covers what is masked, and the measurement
\* betrays another nonce.
LEMMA VerifyIsSound ==
  ASSUME NEW r \in Reports, NEW b \in Bindings, verify_impl(r, b, Anchors)
  PROVE  \E p \in Platforms, n \in Nonces :
           LET c == get_report(p, b, n) IN
           /\ Anchors = [key |-> p.key, measure |-> p.measure]
           /\ Signed(r) = Signed(c)
           /\ r.anonce = n /\ r.sig = c.sig
<1>1. PICK p \in Platforms, d \in Bindings, n \in Nonces :
        r \in Damaged(get_report(p, d, n)) \cup {get_report(p, d, n)}
  BY DEF Reports, Pristine
<1>2. PICK q \in Platforms : Anchors = [key |-> q.key, measure |-> q.measure]
  BY SelfAssumption
<1> DEFINE c == get_report(p, d, n)
           m == r.anonce
<1>3. n \in Word /\ m \in Word /\ b \in Seq(Word) /\ d \in Seq(Word)
      /\ p.measure \in Seq(Word) /\ q.measure \in Seq(Word) /\ Xor(n, m) \in Word
  BY <1>1, DamagedFields, PlatformType, PlatformAssumption, WordAssumption, XorWord
<1>4. /\ xor_words(r.data, m) = b
      /\ r.sig = <<Unmask(r).key, Unmask(r).uidLength, Unmask(r).uid, r.data, r.measure>>
      /\ Unmask(r).key = q.key
      /\ xor_words(r.measure, m) = q.measure
  BY <1>2 DEF verify_impl, sm2_verify, Signed
<1>5. /\ c.data = xor_words(d, n) /\ c.measure = xor_words(p.measure, n) /\ c.anonce = n
      /\ c.sig = <<p.key, p.uidLength, p.uid, c.data, c.measure>>
  BY ReportFields
<1>6. /\ Unmask(c).key = p.key /\ Unmask(c).uidLength = p.uidLength /\ Unmask(c).uid = p.uid
  BY <1>3, Unmasked
<1>7. r.sig = c.sig
  <2>1. CASE r = [c EXCEPT !.sig = Broken]
    <3>1. /\ r.data = c.data /\ r.measure = c.measure /\ r.anonce = c.anonce
          /\ r.pek = c.pek
      BY <2>1 DEF get_report
    <3>2. Unmask(r) = Unmask(c)
      BY <3>1 DEF Unmask
    <3> HIDE DEF c
    <3> QED
      BY <1>4, <1>5, <1>6, <3>1, <3>2
  <2> QED
    BY <1>1, <2>1, DamagedFields
<1> HIDE DEF c, m
<1>8. Unmask(r).key = p.key /\ r.data = c.data /\ r.measure = c.measure
  BY <1>4, <1>5, <1>7
<1>9. xor_words(p.measure, Xor(n, m)) = q.measure
  BY <1>3, <1>4, <1>5, <1>8, WordsAssociative
<1>10. n = m
  BY <1>3, <1>9, MeasureAssumption, XorEmpty
<1>11. p.measure = q.measure /\ d = b
  BY <1>3, <1>4, <1>5, <1>8, <1>10, WordsTwice
<1>12. Anchors = [key |-> p.key, measure |-> p.measure]
  BY <1>2, <1>4, <1>8, <1>11
<1>13. Signed(r) = Signed(c)
  BY <1>8 DEF Signed
<1> QED
  BY <1>7, <1>10, <1>11, <1>12, <1>13 DEF c, m

\* The verifier in a library checks what the helper's does, and more.
LEMMA VerifyStronger ==
  ASSUME NEW backend \in Backends, NEW r, NEW b, NEW a, Verify(backend, r, b, a)
  PROVE  verify_impl(r, b, a)
<1>1. CASE backend = "linux"
  BY <1>1 DEF Verify
<1>2. CASE backend = "windows"
  BY <1>2 DEF Verify, verify_impl, verify_report
<1>3. CASE backend = "macos"
  BY <1>3 DEF Verify, verify_impl, rust_verify_report
<1> QED
  BY <1>1, <1>2, <1>3 DEF Backends

-----------------------------------------------------------------------------
(* What the wrapper makes of the library's habits.                           *)

LEMMA CountOpen ==
  /\ Count("open", <<>>) = 0 /\ Count("close", <<>>) = 0
  /\ Count("open", <<"open">>) = 1 /\ Count("close", <<"open">>) = 0
  /\ Count("open", <<"open", "close">>) = 1 /\ Count("close", <<"open", "close">>) = 1
  /\ Count("open", <<"open", "open">>) = 2 /\ Count("close", <<"open", "open">>) = 0
  /\ Count("open", <<"open", "close", "open">>) = 2
  /\ Count("close", <<"open", "close", "open">>) = 1
<1>0. Cardinality({}) = 0 /\ \A x : Cardinality({x}) = 1
  BY FS_EmptySet, FS_Singleton
<1>1. Cardinality({1, 2}) = 2 /\ Cardinality({1, 3}) = 2
  <2>1. IsFiniteSet({1}) /\ Cardinality({1}) = 1
    BY FS_Singleton
  <2>2. {1, 2} = {1} \cup {2} /\ {1, 3} = {1} \cup {3} /\ 2 \notin {1} /\ 3 \notin {1}
    OBVIOUS
  <2> QED
    BY <2>1, <2>2, FS_AddElement
<1>2. /\ {i \in DOMAIN <<>> : <<>>[i] = "open"} = {}
      /\ {i \in DOMAIN <<>> : <<>>[i] = "close"} = {}
  OBVIOUS
<1>3. /\ {i \in DOMAIN <<"open">> : <<"open">>[i] = "open"} = {1}
      /\ {i \in DOMAIN <<"open">> : <<"open">>[i] = "close"} = {}
  OBVIOUS
<1>4. /\ {i \in DOMAIN <<"open", "close">> : <<"open", "close">>[i] = "open"} = {1}
      /\ {i \in DOMAIN <<"open", "close">> : <<"open", "close">>[i] = "close"} = {2}
  OBVIOUS
<1>5. /\ {i \in DOMAIN <<"open", "open">> : <<"open", "open">>[i] = "open"} = {1, 2}
      /\ {i \in DOMAIN <<"open", "open">> : <<"open", "open">>[i] = "close"} = {}
  OBVIOUS
<1>6. /\ {i \in DOMAIN <<"open", "close", "open">> :
             <<"open", "close", "open">>[i] = "open"} = {1, 3}
      /\ {i \in DOMAIN <<"open", "close", "open">> :
             <<"open", "close", "open">>[i] = "close"} = {2}
  OBVIOUS
<1>7. Count("open", <<>>) = 0 /\ Count("close", <<>>) = 0
  BY <1>0, <1>2, Zenon DEF Count
<1>8. Count("open", <<"open">>) = 1 /\ Count("close", <<"open">>) = 0
  BY <1>0, <1>3, Zenon DEF Count
<1>9. Count("open", <<"open", "close">>) = 1 /\ Count("close", <<"open", "close">>) = 1
  BY <1>0, <1>4, Zenon DEF Count
<1>10. Count("open", <<"open", "open">>) = 2 /\ Count("close", <<"open", "open">>) = 0
  BY <1>0, <1>1, <1>5, Zenon DEF Count
<1>11. /\ Count("open", <<"open", "close", "open">>) = 2
       /\ Count("close", <<"open", "close", "open">>) = 1
  BY <1>0, <1>1, <1>6, Zenon DEF Count
<1> QED
  BY <1>7, <1>8, <1>9, <1>10, <1>11

\* The wrapper leaves no file open unless it aborts, and refuses what it is not sure of
\* only when the library is at fault.
LEMMA WrapperFacts ==
  ASSUME NEW h \in Habits, NEW rc \in BOOLEAN
  PROVE  /\ ~Aborts(h) => Leak(h) = 0
         /\ Aborts(h) => LibraryFails(h, rc)
         /\ ~WrapperOk(h, rc) => LibraryFails(h, rc)
         /\ WrapperOk(h, rc) => rc
<1>1. CASE h = <<>>
  BY <1>1, CountOpen DEF Aborts, Leak, LibraryFails, WrapperOk, Owned
<1>2. CASE h = <<"open">>
  BY <1>2, CountOpen DEF Aborts, Leak, LibraryFails, WrapperOk, Owned
<1>3. CASE h = <<"open", "close">>
  BY <1>3, CountOpen DEF Aborts, Leak, LibraryFails, WrapperOk, Owned
<1>4. CASE h = <<"open", "open">>
  <2>1. Aborts(h)
    <3>1. 1 \in DOMAIN h /\ 1 + 1 \in DOMAIN h /\ h[1] = "open" /\ h[1 + 1] = "open"
      BY <1>4
    <3> QED
      BY <3>1 DEF Aborts
  <2> QED
    BY <1>4, <2>1, CountOpen DEF LibraryFails, WrapperOk
<1>5. CASE h = <<"open", "close", "open">>
  BY <1>5, CountOpen DEF Aborts, Leak, LibraryFails, WrapperOk, Owned
<1> QED
  BY <1>1, <1>2, <1>3, <1>4, <1>5 DEF Habits

-----------------------------------------------------------------------------
(* The pipes: a request that is under way is in the one or its answer is in   *)
(* the other, and otherwise they are empty.                                  *)

LEMMA OneItem ==
  ASSUME NEW c
  PROVE  /\ Append(<<>>, c) = <<c>> /\ <<c>> # <<>> /\ Head(<<c>>) = c /\ Tail(<<c>>) = <<>>
         /\ <<>> \o <<c>> = <<c>>
OBVIOUS

LEMMA TwoItems ==
  ASSUME NEW c, NEW d
  PROVE  /\ <<c, d>> # <<>> /\ Head(<<c, d>>) = c /\ Tail(<<c, d>>) = <<d>>
         /\ <<>> \o <<c, d>> = <<c, d>>
OBVIOUS

LEMMA YesNo == Yes # No
BY DEF Yes, No

CallOK(c) ==
  /\ c.mode \in {"verify", "generate"}
  /\ c.binding \in Bindings
  /\ c.mode = "verify" => c.report \in Reports
  /\ c = [mode |-> c.mode, binding |-> c.binding, report |-> c.report]

Made(r, c) == \E n \in Nonces : r = get_report(Self, c.binding, n)

\* What the helper may have answered to c.
Answered(c) ==
  \/ fromWorker = <<>> /\ worker = "gone"
  \/ fromWorker = <<No>>
  \/ c.mode = "verify" /\ fromWorker = <<Yes>> /\ verify_impl(c.report, c.binding, Anchors)
  \/ c.mode = "generate" /\ \E r : fromWorker = <<Yes, <<"report", r>>>> /\ Made(r, c)

Pipes ==
  /\ pc = "init" => toWorker = <<>> /\ fromWorker \in {<<>>, <<Yes>>}
  /\ pc \in {"idle", "close"} => fromWorker = <<>> /\ (toWorker = <<>> \/ worker = "gone")
  /\ pc = "status" =>
       CallOK(call) /\ ((toWorker = <<call>> /\ fromWorker = <<>>)
                        \/ (toWorker = <<>> /\ Answered(call)))
  /\ pc = "body" =>
       /\ CallOK(call) /\ call.mode = "generate" /\ toWorker = <<>>
       /\ \E r : fromWorker = <<<<"report", r>>>> /\ Made(r, call)
  /\ pc = "join" => fromWorker = <<>> /\ toWorker \in {<<>>, <<Quit>>}
  /\ worker = "opening" => fromWorker = <<>> /\ pc \in {"init", "ended", "killed"}

\* The proof answered last.
LastOK ==
  last.ok =>
    /\ last.mode = "verify" =>
         last.report \in Reports /\ last.binding \in Bindings
         /\ verify_impl(last.report, last.binding, Anchors)
    /\ last.mode = "generate" => last.binding \in Bindings /\ Made(last.report, last)

\* Only Linux has a helper, and only there a process generates.
Hosts ==
  Helper \/ /\ ~setup.serving /\ ~setup.mutual
            /\ worker = "none" /\ fromWorker = <<>> /\ pc \notin {"status", "body", "join"}

ProofInv == TypeOK /\ Hosts /\ Pipes /\ LastOK /\ pagemap = 0

LEMMA InitProof == Init => ProofInv
<1> SUFFICES ASSUME Init PROVE ProofInv
  OBVIOUS
<1>0. /\ setup \in Setup /\ pc = "init" /\ stop = FALSE /\ error = FALSE /\ calls = 0
      /\ call = NoCall /\ last = NoAnswer /\ worker \in {"opening", "none"}
      /\ clean = TRUE /\ eof = FALSE /\ pagemap = 0 /\ trouble \subseteq Troubles
  BY DEF Init, Troubles
<1>4. 0 \in 0 .. MaxCalls
  BY SelfAssumption
<1>5. NoCall.mode = "none" /\ NoAnswer.mode = "none"
  BY DEF NoCall, NoAnswer
<1>1. TypeOK
  BY <1>0, <1>4, <1>5 DEF TypeOK
<1>6. Hosts
  BY DEF Init, Hosts, Helper
<1>2. Pipes
  BY DEF Init, Pipes
<1>3. LastOK /\ pagemap = 0
  BY DEF Init, LastOK, NoAnswer
<1> QED
  BY <1>1, <1>2, <1>3, <1>6 DEF ProofInv

\* An answer is that of its request.
LEMMA AnswerKeeps ==
  ASSUME NEW c, NEW ok \in BOOLEAN, Answer(c, ok), c.mode \in {"verify", "generate"},
         c.mode = "verify" /\ ok => c.report \in Reports /\ c.binding \in Bindings
                                   /\ verify_impl(c.report, c.binding, Anchors),
         c.mode = "generate" /\ ok => c.binding \in Bindings /\ Made(c.report, c),
         error \in BOOLEAN
  PROVE  /\ LastOK' /\ last'.mode \in {"none", "verify", "generate"}
         /\ call'.mode \in {"none", "verify", "generate"}
         /\ pc' \in {"idle", "close"} /\ error' \in BOOLEAN
<1>1. last'.mode = c.mode /\ last'.binding = c.binding /\ last'.report = c.report
      /\ last'.ok = ok
  BY DEF Answer
<1>2. call' = NoCall /\ pc' \in {"idle", "close"} /\ error' \in BOOLEAN
  BY DEF Answer
<1> QED
  BY <1>1, <1>2 DEF LastOK, Made, NoCall

LEMMA AskKeeps ==
  ASSUME ProofInv, NEW c, NEW sound \in BOOLEAN, Ask(c, sound),
         sound => CallOK(c), c.mode \in {"verify", "generate"}, c.mode = "generate" => sound,
         c.binding \in Bindings, c.mode \in Modes
  PROVE  ProofInv'
<1> USE DEF ProofInv, TypeOK
<1>0. /\ pc = "idle" /\ calls' = calls + 1 /\ calls' \in 0 .. MaxCalls
      /\ fromWorker = <<>> /\ worker # "opening"
      /\ UNCHANGED <<setup, stop, worker, clean, fromWorker, eof, pagemap>>
  BY SelfAssumption DEF Ask, Pipes
<1>5. Hosts'
  BY <1>0 DEF Ask, Answer, Hosts, Helper
<1>1. CASE ~sound /\ Answer(c, FALSE) /\ UNCHANGED toWorker /\ trouble' = trouble \cup {"fault"}
  <2>1. /\ LastOK' /\ last'.mode \in {"none", "verify", "generate"}
        /\ call'.mode \in {"none", "verify", "generate"}
        /\ pc' \in {"idle", "close"} /\ error' \in BOOLEAN
    BY <1>1, AnswerKeeps
  <2>2. Pipes'
    BY <1>0, <1>1, <2>1 DEF Pipes
  <2> QED
    BY <1>0, <1>5, <1>1, <2>1, <2>2 DEF Troubles
<1>2. CASE sound /\ worker = "gone" /\ Answer(c, FALSE) /\ UNCHANGED <<toWorker, trouble>>
  <2>1. /\ LastOK' /\ last'.mode \in {"none", "verify", "generate"}
        /\ call'.mode \in {"none", "verify", "generate"}
        /\ pc' \in {"idle", "close"} /\ error' \in BOOLEAN
    BY <1>2, AnswerKeeps
  <2>2. Pipes'
    BY <1>0, <1>2, <2>1 DEF Pipes
  <2> QED
    BY <1>0, <1>5, <1>2, <2>1, <2>2
<1>3. CASE /\ sound /\ worker # "gone" /\ call' = c /\ pc' = "status" /\ last' = NoAnswer
           /\ toWorker' = Append(toWorker, c)
           /\ UNCHANGED <<error, trouble>>
  <2>1. toWorker' = <<c>>
    BY <1>0, <1>3, OneItem DEF Pipes
  <2>2. CallOK(c)
    BY <1>3
  <2>3. Pipes'
    BY <1>0, <1>3, <2>1, <2>2 DEF Pipes, CallOK
  <2>4. LastOK' /\ last'.mode = "none"
    BY <1>3 DEF LastOK, NoAnswer
  <2>5. call'.mode \in {"none", "verify", "generate"}
    BY <1>3
  <2> QED
    BY <1>0, <1>5, <1>3, <2>3, <2>4, <2>5
<1>4. CASE /\ sound /\ ~Helper
           /\ LET ok == Verify(setup.backend, c.report, c.binding, Anchors) IN
                /\ Answer(c, ok)
                /\ trouble' = IF ok THEN trouble ELSE trouble \cup {"report"}
           /\ UNCHANGED toWorker
  <2> DEFINE ok == Verify(setup.backend, c.report, c.binding, Anchors)
  <2>0. setup.backend \in Backends
    BY DEF Setup
  <2>1. ok \in BOOLEAN
    BY <2>0 DEF Verify, Backends, verify_impl, verify_report, rust_verify_report
  <2>2. ok => verify_impl(c.report, c.binding, Anchors)
    BY <2>0, VerifyStronger
  <2>3. c.mode = "verify" /\ c.report \in Reports
    BY <1>4 DEF Modes, Hosts, CallOK
  <2>4. Answer(c, ok)
    BY <1>4
  <2>5. trouble' \subseteq Troubles
    BY <1>4 DEF Troubles
  <2> HIDE DEF ok
  <2>6. /\ LastOK' /\ last'.mode \in {"none", "verify", "generate"}
        /\ call'.mode \in {"none", "verify", "generate"}
        /\ pc' \in {"idle", "close"} /\ error' \in BOOLEAN
    BY <2>1, <2>2, <2>3, <2>4, AnswerKeeps DEF ok
  <2>7. Pipes'
    BY <1>0, <1>4, <2>6 DEF Pipes
  <2> QED
    BY <1>0, <1>5, <2>5, <2>6, <2>7
<1> QED
  BY <1>1, <1>2, <1>3, <1>4 DEF Ask

LEMMA RequestKeeps == ASSUME ProofInv, Request PROVE ProofInv'
<1>1. CASE /\ "verify" \in Modes
           /\ \E b \in Bindings :
                \E r \in Reports : Ask([mode |-> "verify", binding |-> b, report |-> r], TRUE)
  <2>1. PICK b \in Bindings, r \in Reports :
          Ask([mode |-> "verify", binding |-> b, report |-> r], TRUE)
    BY <1>1
  <2> DEFINE c == [mode |-> "verify", binding |-> b, report |-> r]
  <2>2. CallOK(c) /\ c.mode = "verify" /\ c.binding \in Bindings
    BY DEF CallOK
  <2> HIDE DEF c
  <2>3. Ask(c, TRUE)
    BY <2>1 DEF c
  <2> QED
    BY <1>1, <2>2, <2>3, AskKeeps
<1>2. CASE /\ "verify" \in Modes
           /\ \E b \in Bindings : Ask([mode |-> "verify", binding |-> b, report |-> Broken], FALSE)
  <2>1. PICK b \in Bindings : Ask([mode |-> "verify", binding |-> b, report |-> Broken], FALSE)
    BY <1>2
  <2> DEFINE c == [mode |-> "verify", binding |-> b, report |-> Broken]
  <2>2. c.mode = "verify" /\ c.binding \in Bindings
    OBVIOUS
  <2> HIDE DEF c
  <2>3. Ask(c, FALSE)
    BY <2>1 DEF c
  <2> QED
    BY <1>2, <2>2, <2>3, AskKeeps
<1>3. CASE /\ "generate" \in Modes
           /\ \E b \in Bindings : Ask([mode |-> "generate", binding |-> b, report |-> Broken], TRUE)
  <2>1. PICK b \in Bindings : Ask([mode |-> "generate", binding |-> b, report |-> Broken], TRUE)
    BY <1>3
  <2> DEFINE c == [mode |-> "generate", binding |-> b, report |-> Broken]
  <2>2. CallOK(c) /\ c.mode = "generate" /\ c.binding \in Bindings
    BY DEF CallOK
  <2> HIDE DEF c
  <2>3. Ask(c, TRUE)
    BY <2>1 DEF c
  <2> QED
    BY <1>3, <2>2, <2>3, AskKeeps
<1> QED
  BY <1>1, <1>2, <1>3 DEF Request

LEMMA ReadStatusKeeps == ASSUME ProofInv, ReadStatus PROVE ProofInv'
<1> USE DEF ProofInv, TypeOK
<1>0. /\ pc = "status" /\ CallOK(call) /\ worker # "opening"
      /\ (toWorker = <<call>> /\ fromWorker = <<>>) \/ (toWorker = <<>> /\ Answered(call))
      /\ UNCHANGED <<setup, stop, calls, worker, clean, toWorker, eof, pagemap, trouble>>
  BY DEF ReadStatus, Pipes
<1>1. Hosts' /\ call.mode \in {"verify", "generate"}
  BY <1>0 DEF Hosts, Helper, CallOK
<1>2. CASE fromWorker = <<>> /\ worker = "gone" /\ Answer(call, FALSE) /\ UNCHANGED fromWorker
  <2>1. /\ LastOK' /\ last'.mode \in {"none", "verify", "generate"}
        /\ call'.mode \in {"none", "verify", "generate"}
        /\ pc' \in {"idle", "close"} /\ error' \in BOOLEAN
    BY <1>1, <1>2, AnswerKeeps
  <2>2. Pipes'
    BY <1>0, <1>2, <2>1 DEF Pipes
  <2> QED
    BY <1>0, <1>1, <2>1, <2>2
<1>3. CASE StatusRead
  <2>0. fromWorker # <<>> /\ toWorker = <<>> /\ fromWorker' = Tail(fromWorker)
    BY <1>0, <1>3 DEF StatusRead
  <2>1. CASE fromWorker = <<No>>
    <3>1. fromWorker' = <<>> /\ Answer(call, FALSE)
      BY <1>3, <2>0, <2>1, OneItem, YesNo DEF StatusRead
    <3>2. /\ LastOK' /\ last'.mode \in {"none", "verify", "generate"}
          /\ call'.mode \in {"none", "verify", "generate"}
          /\ pc' \in {"idle", "close"} /\ error' \in BOOLEAN
      BY <1>1, <3>1, AnswerKeeps
    <3>3. Pipes'
      BY <1>0, <2>0, <3>1, <3>2 DEF Pipes
    <3> QED
      BY <1>0, <1>1, <3>2, <3>3
  <2>2. CASE call.mode = "verify" /\ fromWorker = <<Yes>>
             /\ verify_impl(call.report, call.binding, Anchors)
    <3>1. fromWorker' = <<>> /\ Answer(call, TRUE)
      BY <1>3, <2>0, <2>2, OneItem DEF StatusRead
    <3>2. /\ LastOK' /\ last'.mode \in {"none", "verify", "generate"}
          /\ call'.mode \in {"none", "verify", "generate"}
          /\ pc' \in {"idle", "close"} /\ error' \in BOOLEAN
      BY <1>0, <1>1, <2>2, <3>1, AnswerKeeps DEF CallOK
    <3>3. Pipes'
      BY <1>0, <2>0, <3>1, <3>2 DEF Pipes
    <3> QED
      BY <1>0, <1>1, <3>2, <3>3
  <2>3. CASE call.mode = "generate" /\ \E r : fromWorker = <<Yes, <<"report", r>>>> /\ Made(r, call)
    <3>1. PICK r : fromWorker = <<Yes, <<"report", r>>>> /\ Made(r, call)
      BY <2>3
    <3>2. fromWorker' = <<<<"report", r>>>> /\ Head(fromWorker) = Yes
      BY <2>0, <3>1, TwoItems
    <3>3. pc' = "body" /\ UNCHANGED <<call, last, error>>
      BY <1>3, <2>3, <3>2 DEF StatusRead
    <3>4. LastOK'
      BY <3>3 DEF LastOK, Made
    <3>5. Made(r, call')
      BY <3>1, <3>3
    <3>6. Pipes'
      BY <1>0, <2>0, <2>3, <3>2, <3>3, <3>5 DEF Pipes, CallOK, Made
    <3> QED
      BY <1>0, <1>1, <3>3, <3>4, <3>6
  <2> QED
    BY <1>0, <2>0, <2>1, <2>2, <2>3 DEF Answered
<1> QED
  BY <1>2, <1>3 DEF ReadStatus

LEMMA ReadBodyKeeps == ASSUME ProofInv, ReadBody PROVE ProofInv'
<1> USE DEF ProofInv, TypeOK
<1>0. /\ pc = "body" /\ CallOK(call) /\ call.mode = "generate" /\ toWorker = <<>>
      /\ worker # "opening"
      /\ UNCHANGED <<setup, stop, calls, worker, clean, toWorker, eof, pagemap>>
  BY DEF ReadBody, Pipes
<1>1. PICK r : fromWorker = <<<<"report", r>>>> /\ Made(r, call)
  BY <1>0 DEF Pipes
<1>2. PICK written \in BOOLEAN :
        /\ Answer([call EXCEPT !.report = Head(fromWorker)[2]], written)
        /\ trouble' = IF written THEN trouble ELSE trouble \cup {"fault"}
  BY <1>1, OneItem DEF ReadBody
<1>3. fromWorker' = <<>> /\ Head(fromWorker)[2] = r
  BY <1>1, OneItem DEF ReadBody
<1>4. trouble' \subseteq Troubles /\ Hosts'
  BY <1>0, <1>2 DEF Troubles, Hosts, Helper
<1> DEFINE c == [call EXCEPT !.report = r]
<1>5. Answer(c, written)
  BY <1>2, <1>3
<1>6. c.mode = "generate" /\ c.binding = call.binding /\ c.report = r
  BY <1>0 DEF CallOK
<1>7. Made(c.report, c) /\ c.binding \in Bindings
  BY <1>0, <1>1, <1>6 DEF Made, CallOK
<1> HIDE DEF c
<1>8. /\ LastOK' /\ last'.mode \in {"none", "verify", "generate"}
      /\ call'.mode \in {"none", "verify", "generate"}
      /\ pc' \in {"idle", "close"} /\ error' \in BOOLEAN
  BY <1>5, <1>6, <1>7, AnswerKeeps
<1>9. Pipes'
  BY <1>0, <1>3, <1>8 DEF Pipes
<1> QED
  BY <1>0, <1>4, <1>8, <1>9

\* What changes neither the proof answered last nor the files.
LEMMA LastFrame == ASSUME LastOK, last' = last PROVE LastOK'
BY DEF LastOK, Made

LEMMA EndsKeep ==
  ASSUME ProofInv, Constructed \/ Finish \/ Close \/ Join
  PROVE  ProofInv'
<1> USE DEF ProofInv, TypeOK
<1>1. LastOK' /\ Hosts'
  <2>1. last' = last /\ setup' = setup
    BY DEF Constructed, Finish, Close, Join
  <2>2. CASE Helper
    BY <2>1, <2>2, LastFrame DEF Hosts, Helper
  <2>3. CASE ~Helper
    <3>1. ~Join
      BY <2>3 DEF Join, Hosts
    <3>2. worker' = worker /\ fromWorker' = fromWorker /\ pc' \in {"idle", "close", "ended"}
      BY <2>3, <3>1 DEF Constructed, Finish, Close, Abandon, helper, Hosts
    <3> QED
      BY <2>1, <2>3, <3>2, LastFrame DEF Hosts, Helper
  <2> QED
    BY <2>2, <2>3
<1>2. CASE Constructed
  <2>1. fromWorker # <<>> => fromWorker = <<Yes>> /\ Tail(fromWorker) = <<>> /\ worker # "opening"
    BY <1>2, OneItem DEF Constructed, Pipes
  <2>2. Pipes'
    <3>1. CASE Helper /\ fromWorker # <<>> /\ pc' = "idle" /\ fromWorker' = Tail(fromWorker)
      BY <1>2, <2>1, <3>1 DEF Constructed, Pipes
    <3>2. CASE Abandon /\ UNCHANGED fromWorker
      BY <1>2, <3>2 DEF Constructed, Abandon, Pipes
    <3>3. CASE ~Helper /\ pc' = "idle" /\ UNCHANGED fromWorker
      BY <1>2, <3>3 DEF Constructed, Pipes, Hosts
    <3> QED
      BY <1>2, <3>1, <3>2, <3>3 DEF Constructed
  <2> QED
    BY <1>1, <1>2, <2>2, ZenonT(30) DEF Constructed, Abandon
<1>3. CASE Finish
  <2>1. Pipes'
    BY <1>3 DEF Finish, Pipes, helper
  <2> QED
    BY <1>1, <1>3, <2>1 DEF Finish, helper
<1>4. CASE Close
  <2>0. UNCHANGED <<setup, stop, calls, call, last, trouble, worker, clean, fromWorker, pagemap>>
        /\ pc = "close" /\ worker # "opening"
    BY <1>4 DEF Close, helper, Pipes
  <2>3. Pipes'
    <3>1. CASE worker # "gone" /\ toWorker' = Append(toWorker, Quit) /\ pc' = "join"
      <4>1. toWorker' = <<Quit>>
        BY <2>0, <3>1, OneItem DEF Pipes
      <4> QED
        BY <2>0, <3>1, <4>1 DEF Pipes
    <3>2. CASE pc' = "ended"
      BY <2>0, <3>2 DEF Pipes
    <3> QED
      BY <1>4, <3>1, <3>2 DEF Close, Abandon
  <2>4. pc' \in {"join", "ended"} /\ error' \in BOOLEAN /\ eof' \in BOOLEAN
    BY <1>4 DEF Close, Abandon
  <2> QED
    BY <1>1, <2>0, <2>3, <2>4
<1>5. CASE Join
  <2>1. Pipes'
    BY <1>5 DEF Join, Pipes
  <2> QED
    BY <1>1, <1>5, <2>1 DEF Join, Troubles
<1> QED
  BY <1>2, <1>3, <1>4, <1>5

-----------------------------------------------------------------------------
(* The helper, and what befalls either.                                      *)

LEMMA LibraryKeeps ==
  ASSUME ProofInv, worker = "ready", toWorker = <<call>>, pc = "status", call.mode = "generate",
         toWorker' = <<>>, UNCHANGED <<process, eof>>,
         NEW h \in Habits, NEW rc \in BOOLEAN, NEW n \in Nonces, NEW b \in Bindings,
         rc => b = call.binding,
         Generate(call.binding, get_report(Self, b, n), h, rc)
  PROVE  ProofInv'
<1> USE DEF ProofInv, TypeOK
<1> DEFINE r == get_report(Self, b, n)
           ok == WrapperOk(h, rc) /\ verify_impl(r, call.binding, Anchors)
<1>0. Outcome(r, h, rc, ok) /\ fromWorker = <<>> /\ CallOK(call)
  BY OneItem DEF Generate, Pipes
<1>1. ok => Made(r, call)
  BY WrapperFacts DEF Made
<1>2. UNCHANGED <<setup, pc, stop, error, calls, call, last, eof>>
  BY DEF process
<1>3. LastOK' /\ Hosts'
  BY <1>2, LastFrame DEF Hosts, Helper
<1> HIDE DEF r, ok
<1>4. trouble' \subseteq Troubles
  BY <1>0 DEF Outcome, Troubles
<1>5. CASE worker' = "gone" /\ clean' = FALSE /\ UNCHANGED <<fromWorker, pagemap>>
  <2>1. Answered(call)'
    BY <1>0, <1>2, <1>5 DEF Answered
  <2>2. Pipes'
    BY <1>0, <1>2, <1>5, <2>1 DEF Pipes, CallOK
  <2> QED
    BY <1>2, <1>3, <1>4, <1>5, <2>2
<1>6. CASE ~Aborts(h) /\ Reply(IF ok THEN <<Yes, <<"report", r>>>> ELSE <<No>>)
           /\ pagemap' = pagemap + Leak(h)
  <2>1. pagemap' = 0
    BY <1>6, WrapperFacts
  <2>2. fromWorker' = (IF ok THEN <<Yes, <<"report", r>>>> ELSE <<No>>)
        /\ UNCHANGED <<worker, clean>>
    BY <1>0, <1>6, OneItem, TwoItems DEF Reply, Over
  <2>3. Answered(call)'
    BY <1>1, <1>2, <2>2 DEF Answered, Made
  <2>4. Pipes'
    BY <1>0, <1>2, <2>2, <2>3 DEF Pipes, CallOK
  <2> QED
    BY <1>2, <1>3, <1>4, <2>1, <2>2, <2>4
<1> QED
  BY <1>0, <1>5, <1>6 DEF Outcome

LEMMA WorkerStepKeeps == ASSUME ProofInv, WorkerStep PROVE ProofInv'
<1> USE DEF ProofInv, TypeOK
<1> DEFINE c == Head(toWorker)
<1>0. worker = "ready" /\ toWorker # <<>> /\ toWorker' = Tail(toWorker)
      /\ UNCHANGED <<setup, pc, stop, error, calls, call, last, eof>>
      /\ Helper
  BY DEF WorkerStep, process, Hosts
<1>1. LastOK' /\ Hosts'
  BY <1>0, LastFrame DEF Hosts, Helper
<1>2. CASE Over
  <2>1. pagemap' = 0 /\ trouble' \subseteq Troubles /\ clean' \in BOOLEAN
        /\ worker' \in {"ready", "gone"}
    <3>1. CASE c.mode = "quit" /\ worker' = "gone" /\ UNCHANGED <<clean, fromWorker, pagemap, trouble>>
      BY <3>1
    <3>2. CASE /\ LET ok == verify_impl(c.report, c.binding, Anchors) IN
                    /\ Reply(IF ok THEN <<Yes>> ELSE <<No>>)
                    /\ trouble' = IF ok THEN trouble ELSE trouble \cup {"report"}
               /\ UNCHANGED pagemap
      BY <1>2, <3>2 DEF Reply, Troubles
    <3>3. CASE \E h \in Habits, rc \in BOOLEAN, n \in Nonces, b \in Bindings :
                 Generate(c.binding, get_report(Self, b, n), h, rc)
      <4>1. PICK h \in Habits, rc \in BOOLEAN, n \in Nonces, b \in Bindings :
                 Generate(c.binding, get_report(Self, b, n), h, rc)
        BY <3>3
      <4>2. trouble' \subseteq Troubles
        BY <4>1 DEF Generate, Outcome, Troubles
      <4>3. worker' = "gone" /\ clean' = FALSE
        BY <1>2, <4>1 DEF Generate, Outcome, Reply
      <4>4. pagemap' = 0
        BY <4>1, WrapperFacts DEF Generate, Outcome
      <4> QED
        BY <4>2, <4>3, <4>4
    <3> QED
      BY <3>1, <3>2, <3>3 DEF WorkerStep
  <2>2. Pipes'
    BY <1>0, <1>2, <2>1 DEF Pipes, Over
  <2> QED
    BY <1>0, <1>1, <2>1, <2>2
<1>3. CASE pc = "join"
  <2>1. c = Quit /\ toWorker' = <<>>
    BY <1>0, <1>3, OneItem DEF Pipes
  <2>2. c.mode = "quit"
    BY <2>1 DEF Quit
  <2>3. worker' = "gone" /\ UNCHANGED <<clean, fromWorker, pagemap, trouble>>
    BY <2>2 DEF WorkerStep
  <2>4. Pipes'
    BY <1>0, <1>3, <2>1, <2>3 DEF Pipes
  <2> QED
    BY <1>0, <1>1, <2>3, <2>4
<1>4. CASE pc = "status"
  <2>1. c = call /\ toWorker = <<call>> /\ toWorker' = <<>> /\ fromWorker = <<>> /\ CallOK(call)
    BY <1>0, <1>4, OneItem DEF Pipes
  <2>2. CASE call.mode = "generate"
    <3>1. PICK h \in Habits, rc \in BOOLEAN, n \in Nonces, b \in Bindings :
            (rc => b = call.binding) /\ Generate(call.binding, get_report(Self, b, n), h, rc)
      BY <2>1, <2>2 DEF WorkerStep
    <3>2. UNCHANGED <<process, eof>>
      BY DEF WorkerStep
    <3> QED
      BY <1>0, <1>4, <2>1, <2>2, <3>1, <3>2, LibraryKeeps
  <2>3. CASE call.mode = "verify"
    <3> DEFINE ok == verify_impl(call.report, call.binding, Anchors)
    <3>1. /\ Reply(IF ok THEN <<Yes>> ELSE <<No>>)
          /\ trouble' = IF ok THEN trouble ELSE trouble \cup {"report"}
          /\ UNCHANGED pagemap
      BY <2>1, <2>3 DEF WorkerStep
    <3>2. ok <=> verify_impl(call.report, call.binding, Anchors)
      OBVIOUS
    <3> HIDE DEF ok
    <3>3. fromWorker' = (IF ok THEN <<Yes>> ELSE <<No>>) /\ UNCHANGED <<worker, clean>>
      BY <1>4, <2>1, <3>1, OneItem DEF Reply, Over
    <3>4. Answered(call)'
      BY <1>0, <2>3, <3>2, <3>3 DEF Answered
    <3>5. Pipes'
      BY <1>0, <1>4, <2>1, <3>3, <3>4 DEF Pipes, CallOK
    <3>6. trouble' \subseteq Troubles
      BY <3>1 DEF Troubles
    <3> QED
      BY <1>0, <1>1, <3>1, <3>3, <3>5, <3>6
  <2> QED
    BY <2>1, <2>2, <2>3 DEF CallOK
<1>5. pc \notin {"init", "idle", "close", "body"}
  BY <1>0 DEF Pipes
<1> QED
  BY <1>2, <1>3, <1>4, <1>5 DEF Over

LEMMA WorldKeeps ==
  ASSUME ProofInv, WorkerOpen \/ WorkerEof \/ Hang \/ Crash \/ Kill \/ Signal \/ Interrupt
  PROVE  ProofInv'
<1> USE DEF ProofInv, TypeOK
<1>1. UNCHANGED <<setup, calls, call, last, error>> /\ pagemap' = pagemap
  BY DEF WorkerOpen, WorkerEof, Hang, Crash, Kill, Signal, Interrupt, process, helper
<1>2. LastOK'
  BY <1>1, LastFrame
<1>3. Hosts'
  BY <1>1
     DEF WorkerOpen, WorkerEof, Hang, Crash, Kill, Signal, Interrupt, process, helper, Hosts, Helper
<1>4. CASE WorkerOpen
  <2>1. Pipes'
    BY <1>4 DEF WorkerOpen, process, Pipes, Over
  <2> QED
    BY <1>1, <1>2, <1>3, <1>4, <2>1 DEF WorkerOpen, process
<1>5. CASE WorkerEof
  <2>1. Pipes'
    BY <1>5 DEF WorkerEof, process, Pipes, Answered, CallOK, Made
  <2> QED
    BY <1>1, <1>2, <1>3, <1>5, <2>1 DEF WorkerEof, process
<1>6. CASE Hang
  <2>1. Pipes'
    BY <1>6 DEF Hang, process, Pipes, Answered, CallOK, Made
  <2> QED
    BY <1>1, <1>2, <1>3, <1>6, <2>1 DEF Hang, process, Troubles
<1>7. CASE Crash
  <2>1. Pipes'
    BY <1>7 DEF Crash, process, Pipes, Answered, CallOK, Made
  <2> QED
    BY <1>1, <1>2, <1>3, <1>7, <2>1 DEF Crash, process, Troubles
<1>8. CASE Kill
  <2>1. Pipes'
    BY <1>8 DEF Kill, helper, Pipes
  <2> QED
    BY <1>1, <1>2, <1>3, <1>8, <2>1 DEF Kill, helper
<1>9. CASE Signal
  <2>1. Pipes'
    BY <1>9 DEF Signal, helper, Pipes, Answered, CallOK, Made
  <2> QED
    BY <1>1, <1>2, <1>3, <1>9, <2>1 DEF Signal, helper, Troubles
<1>10. CASE Interrupt
  <2>1. Pipes'
    BY <1>10 DEF Interrupt, Pipes, Answered, CallOK, Made
  <2> QED
    BY <1>1, <1>2, <1>3, <1>10, <2>1 DEF Interrupt, Troubles
<1> QED
  BY <1>4, <1>5, <1>6, <1>7, <1>8, <1>9, <1>10

LEMMA NextProof == ProofInv /\ [Next]_vars => ProofInv'
<1> SUFFICES ASSUME ProofInv, [Next]_vars PROVE ProofInv'
  OBVIOUS
<1>1. CASE UNCHANGED vars
  BY <1>1 DEF vars, ProofInv, TypeOK, Hosts, Helper, Pipes, Answered, CallOK, Made, LastOK
<1> QED
  BY <1>1, RequestKeeps, ReadStatusKeeps, ReadBodyKeeps, EndsKeep, WorkerStepKeeps, WorldKeeps
     DEF Next

\* What is under way between a proof and its helper belongs to one call: the answer in the pipe
\* is to the request sent last, whatever became of the helper, and no request or answer of an
\* earlier call is left when the next is made.
THEOREM ProofInvariance == Spec => []ProofInv
  BY InitProof, NextProof, PTL DEF Spec

\* Type correctness of the batch process and its helper.
THEOREM TypeCorrect == Spec => []TypeOK
<1>1. ProofInv => TypeOK
  BY DEF ProofInv
<1> QED
  BY <1>1, ProofInvariance, PTL

\* A proof that verified is a trusted platform's, for the binding that was asked about,
\* whichever of its fields was changed, and whichever implementation verified it.
THEOREM VerifiedGenuine == Spec => []VerifiedIsGenuine
<1>1. ProofInv => VerifiedIsGenuine
  <2> SUFFICES ASSUME ProofInv, last.mode = "verify", last.ok
               PROVE  \E p \in Platforms, n \in Nonces :
                        LET r == get_report(p, last.binding, n) IN
                        /\ Anchors = [key |-> p.key, measure |-> p.measure]
                        /\ Signed(last.report) = Signed(r)
                        /\ last.report.anonce = n /\ last.report.sig = r.sig
    BY DEF VerifiedIsGenuine
  <2>1. last.report \in Reports /\ last.binding \in Bindings
        /\ verify_impl(last.report, last.binding, Anchors)
    BY DEF ProofInv, LastOK
  <2> QED
    BY <2>1, VerifyIsSound
<1> QED
  BY <1>1, ProofInvariance, PTL

\* A report that was generated is this machine's for the binding that was asked for, and
\* each of the three verifiers accepts it with this machine's values.
THEOREM GeneratedValid == Spec => []GeneratedVerifies
<1>1. ProofInv => GeneratedVerifies
  BY MadeVerifies DEF ProofInv, LastOK, GeneratedVerifies, Made
<1> QED
  BY <1>1, ProofInvariance, PTL

-----------------------------------------------------------------------------
(* The end.  A process with its own trusted values is refused nothing it      *)
(* generates unless the library fails.                                       *)

OwnValues == Anchors = [key |-> Self.key, measure |-> Self.measure]

Untroubled == trouble \subseteq {"stop"}

EndInv ==
  /\ ~setup.configured => "fault" \in trouble
  /\ eof => pc \in {"join", "ended", "killed"}
  /\ pc = "ended" => worker \in {"none", "gone"}
  /\ Untroubled /\ pc # "killed" =>
       /\ ~error /\ clean
       /\ worker = "gone" => pc \in {"join", "ended"}
       /\ pc = "status" => fromWorker # <<No>>

LEMMA InitEnd == Init => EndInv
BY DEF Init, EndInv, Untroubled

\* An answer that is a failure counts among the troubles.
LEMMA RequestEnd == ASSUME ProofInv, EndInv, Request PROVE EndInv'
<1> SUFFICES ASSUME NEW c, NEW sound \in BOOLEAN, Ask(c, sound) PROVE EndInv'
  BY DEF Request
<1>1. /\ pc = "idle" /\ fromWorker = <<>>
      /\ UNCHANGED <<setup, stop, worker, clean, fromWorker, eof, pagemap>>
  BY DEF Ask, ProofInv, Pipes
<1>2. /\ trouble \subseteq trouble'
      /\ pc' \in {"idle", "status", "close"} /\ (error' # error => ~Untroubled')
  <2>1. CASE Answer(c, FALSE) /\ trouble' = trouble \cup {"fault"}
    BY <2>1 DEF Answer, Untroubled
  <2>2. CASE worker = "gone" /\ Answer(c, FALSE) /\ UNCHANGED trouble
    BY <1>1, <2>2 DEF Answer, Untroubled, EndInv
  <2>3. CASE pc' = "status" /\ UNCHANGED <<error, trouble>>
    BY <2>3
  <2>4. CASE LET ok == Verify(setup.backend, c.report, c.binding, Anchors) IN
             /\ Answer(c, ok)
             /\ trouble' = IF ok THEN trouble ELSE trouble \cup {"report"}
    <3> DEFINE ok == Verify(setup.backend, c.report, c.binding, Anchors)
    <3>1. Answer(c, ok) /\ trouble' = IF ok THEN trouble ELSE trouble \cup {"report"}
      BY <2>4
    <3> HIDE DEF ok
    <3>2. CASE ok
      BY <3>1, <3>2 DEF Answer, ProofInv, TypeOK
    <3>3. CASE ~ok
      BY <3>1, <3>3 DEF Answer, Untroubled
    <3> QED
      BY <3>2, <3>3
  <2> QED
    BY <2>1, <2>2, <2>3, <2>4 DEF Ask
<1>3. <<>> # <<No>>
  OBVIOUS
<1> QED
  BY <1>1, <1>2, <1>3 DEF EndInv, Untroubled

LEMMA ReadEnd == ASSUME ProofInv, EndInv, ReadStatus \/ ReadBody PROVE EndInv'
<1>1. /\ pc \in {"status", "body"} /\ trouble \subseteq trouble'
      /\ UNCHANGED <<setup, stop, worker, clean, eof>>
  BY DEF ReadStatus, ReadBody
<1>2. pc' \in {"idle", "close", "body"}
  BY DEF ReadStatus, StatusRead, ReadBody, Answer
<1>3. ASSUME Untroubled' PROVE ~error'
  <2>1. Untroubled /\ ~error /\ worker # "gone"
    BY <1>1, <1>3 DEF Untroubled, EndInv
  <2>2. CASE ReadStatus
    <3>1. StatusRead /\ fromWorker # <<>> /\ fromWorker # <<No>> /\ Answered(call)
      BY <2>1, <2>2 DEF ReadStatus, StatusRead, EndInv, ProofInv, Pipes
    <3>2. Head(fromWorker) = Yes
      BY <2>1, <3>1, OneItem, TwoItems DEF Answered
    <3> QED
      BY <2>1, <3>1, <3>2 DEF StatusRead, Answer
  <2>3. CASE ReadBody
    <3>1. PICK written \in BOOLEAN :
            /\ Answer([call EXCEPT !.report = Head(fromWorker)[2]], written)
            /\ trouble' = IF written THEN trouble ELSE trouble \cup {"fault"}
      BY <2>1, <2>3 DEF ReadBody
    <3>2. written
      BY <1>3, <3>1 DEF Untroubled
    <3> QED
      BY <2>1, <3>1, <3>2 DEF Answer
  <2> QED
    BY <2>2, <2>3
<1> QED
  BY <1>1, <1>2, <1>3 DEF EndInv, Untroubled

LEMMA EndsEnd ==
  ASSUME ProofInv, EndInv, Constructed \/ Finish \/ Close \/ Join
  PROVE  EndInv'
<1>0. \A x : x \notin {} /\ (fromWorker = <<>> => fromWorker # <<No>>)
  OBVIOUS
<1>1. CASE Constructed
  BY <1>1 DEF Constructed, Abandon, EndInv, Untroubled, ProofInv, Hosts, Helper
<1>2. CASE Finish
  BY <1>2 DEF Finish, helper, EndInv, Untroubled
<1>3. CASE Close
  BY <1>3 DEF Close, Abandon, helper, EndInv, Untroubled, ProofInv, Hosts
<1>4. CASE Join
  <2>1. CASE worker = "gone" /\ error' = (error \/ ~clean) /\ UNCHANGED <<worker, clean, trouble>>
    BY <1>4, <2>1 DEF Join, EndInv, Untroubled
  <2>2. CASE worker' = "gone" /\ trouble' = trouble \cup {"fault"}
    BY <1>4, <2>2 DEF Join, EndInv, Untroubled
  <2> QED
    BY <1>4, <2>1, <2>2 DEF Join
<1> QED
  BY <1>1, <1>2, <1>3, <1>4

LEMMA WorkerEnd ==
  ASSUME OwnValues, ProofInv, EndInv, WorkerStep
  PROVE  EndInv'
<1> DEFINE c == Head(toWorker)
<1>0. worker = "ready" /\ toWorker # <<>>
      /\ UNCHANGED <<setup, pc, stop, error, calls, call, last, eof>>
  BY DEF WorkerStep, process
<1>1. CASE c.mode = "quit" /\ worker' = "gone" /\ UNCHANGED <<clean, fromWorker, pagemap, trouble>>
  <2>1. pc # "status"
    <3>1. pc = "status" => c = call /\ CallOK(call)
      BY <1>0, OneItem DEF ProofInv, Pipes
    <3> QED
      BY <1>1, <3>1 DEF CallOK
  <2>2. pc \in {"join", "ended", "killed"}
    BY <1>0, <2>1 DEF ProofInv, Pipes, TypeOK
  <2> QED
    BY <1>0, <1>1, <2>2 DEF EndInv, Untroubled
<1>2. ASSUME c.mode # "quit", Untroubled', pc # "killed"
      PROVE  worker' # "gone" /\ clean' = clean /\ (pc = "status" => fromWorker' # <<No>>)
  <2>1. pc = "status"
    <3>1. pc # "join"
      <4>1. pc = "join" => c = Quit
        BY <1>0, OneItem DEF ProofInv, Pipes
      <4> QED
        BY <1>2, <4>1 DEF Quit
    <3>2. pc # "ended"
      BY <1>0 DEF EndInv
    <3> QED
      BY <1>0, <1>2, <3>1, <3>2 DEF ProofInv, Pipes, TypeOK
  <2>2. c = call /\ fromWorker = <<>> /\ CallOK(call)
    BY <1>0, <2>1, OneItem DEF ProofInv, Pipes
  <2>3. <<Yes>> # <<No>> /\ \A r : <<Yes, <<"report", r>>>> # <<No>>
    BY YesNo
  <2>4. CASE call.mode = "verify"
    <3> DEFINE ok == verify_impl(call.report, call.binding, Anchors)
    <3>1. /\ Reply(IF ok THEN <<Yes>> ELSE <<No>>)
          /\ trouble' = IF ok THEN trouble ELSE trouble \cup {"report"}
      BY <2>2, <2>4 DEF WorkerStep
    <3> HIDE DEF ok
    <3>2. ok
      BY <1>2, <3>1 DEF Untroubled
    <3> QED
      BY <1>0, <2>1, <2>2, <2>3, <3>1, <3>2, OneItem DEF Reply, Over
  <2>5. CASE call.mode = "generate"
    <3>1. PICK h \in Habits, rc \in BOOLEAN, n \in Nonces, b \in Bindings :
            (rc => b = call.binding) /\ Generate(call.binding, get_report(Self, b, n), h, rc)
      BY <2>2, <2>5 DEF WorkerStep
    <3> DEFINE r == get_report(Self, b, n)
               ok == WrapperOk(h, rc) /\ verify_impl(r, call.binding, Anchors)
    <3>2. Outcome(r, h, rc, ok)
      BY <3>1 DEF Generate
    <3>3. ~LibraryFails(h, rc)
      BY <1>2, <3>2 DEF Outcome, Untroubled
    <3>4. ~Aborts(h) /\ WrapperOk(h, rc) /\ rc
      BY <3>3, WrapperFacts
    <3>5. Verify("linux", r, call.binding, Anchors)
      BY <3>1, <3>4, MadeVerifies DEF OwnValues, Backends
    <3>6. ok
      BY <3>4, <3>5 DEF Verify
    <3> HIDE DEF ok, r
    <3>7. Reply(<<Yes, <<"report", r>>>>)
      BY <3>2, <3>4, <3>6 DEF Outcome
    <3> QED
      BY <1>0, <2>1, <2>2, <2>3, <3>7, TwoItems DEF Reply, Over
  <2> QED
    BY <2>2, <2>4, <2>5 DEF CallOK
<1>3. trouble \subseteq trouble'
  BY DEF WorkerStep, Generate, Outcome
<1>4. CASE c.mode # "quit"
  <2>1. pc # "ended"
    BY <1>0 DEF EndInv
  <2> QED
    BY <1>0, <1>2, <1>3, <1>4, <2>1 DEF EndInv, Untroubled
<1> QED
  BY <1>1, <1>4 DEF WorkerStep

LEMMA WorldEnd ==
  ASSUME ProofInv, EndInv, WorkerOpen \/ WorkerEof \/ Hang \/ Crash \/ Kill \/ Signal \/ Interrupt
  PROVE  EndInv'
<1>1. CASE WorkerOpen
  BY <1>1 DEF WorkerOpen, process, EndInv, Untroubled, ProofInv, Pipes, Over
<1>2. CASE WorkerEof
  BY <1>2 DEF WorkerEof, process, EndInv, Untroubled
<1>3. CASE Hang
  BY <1>3 DEF Hang, process, EndInv, Untroubled
<1>4. CASE Crash
  BY <1>4 DEF Crash, process, EndInv, Untroubled
<1>5. CASE Kill
  BY <1>5 DEF Kill, helper, EndInv, Untroubled
<1>6. CASE Signal
  BY <1>6 DEF Signal, helper, EndInv, Untroubled, Over
<1>7. CASE Interrupt
  BY <1>7 DEF Interrupt, EndInv, Untroubled, Over
<1> QED
  BY <1>1, <1>2, <1>3, <1>4, <1>5, <1>6, <1>7

LEMMA NextEnd == OwnValues /\ ProofInv /\ EndInv /\ [Next]_vars => EndInv'
<1>1. EndInv /\ UNCHANGED vars => EndInv'
  BY DEF vars, EndInv, Untroubled
<1> QED
  BY <1>1, RequestEnd, ReadEnd, EndsEnd, WorkerEnd, WorldEnd DEF Next

\* A process that is configured with its own values and stopped by a signal to it alone ends
\* without an error if nothing else is amiss; it never ends before its helper, and the
\* wrapper leaves no file open.
THEOREM CleanStop == OwnValues => (Spec => []StopIsClean)
<1> SUFFICES ASSUME OwnValues PROVE Spec => []StopIsClean
  OBVIOUS
<1>1. OwnValues
  OBVIOUS
<1>2. ProofInv /\ EndInv => StopIsClean
  BY DEF ProofInv, EndInv, StopIsClean, Untroubled
<1>3. EndInv /\ ProofInv /\ [Next]_vars => EndInv'
  BY <1>1, NextEnd
<1> QED
  BY <1>2, <1>3, InitEnd, ProofInvariance, PTL DEF Spec
=============================================================================
