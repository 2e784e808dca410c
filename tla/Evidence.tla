------------------------------ MODULE Evidence ------------------------------
(***************************************************************************)
(* A CSV report and its three verifiers: csv_attestation.c on Linux,       *)
(* crypto_bridge.c (and tcpra_agent_c.c, the same text) on Windows,        *)
(* csv_verify.rs on macOS.  A 32-bit word is the set of its bits that are  *)
(* one, so that exclusive or is the symmetric difference; a field is a     *)
(* sequence of words.  The chip and SM2 are external: a signature is the   *)
(* record of who signed what.                                              *)
(***************************************************************************)
EXTENDS Integers, Sequences, FiniteSets

CONSTANTS
  Bits,       \* the bits of a word
  Platforms,  \* the machines whose chips make reports
  Bindings,   \* what reports are asked for: 64 bytes, here sequences of words
  Nonces,     \* the anonces the chip draws
  Sm2Curve,   \* the word 3, SM2 in a certificate
  LongUid,    \* the words above 254 as the length of a user id
  Text,       \* the words that are text in UTF-8
  Broken      \* a signature that verifies under no key

Word == SUBSET Bits

\* What a chip has: its endorsement key, the user id of its certificate, the measurement of
\* the machine that runs.
Platform == [key : Seq(Word), measure : Seq(Word), curve : Word, uidLength : Word, uid : Word]

Xor(a, b) == (a \ b) \cup (b \ a)

xor_words(words, nonce) == [i \in DOMAIN words |-> Xor(words[i], nonce)]

ASSUME WordAssumption ==
  /\ Sm2Curve \in Word
  /\ Nonces \subseteq Word
  /\ LongUid \subseteq Word
  /\ Text \subseteq Word

ASSUME PlatformAssumption ==
  /\ Platforms \subseteq Platform
  /\ Bindings \subseteq Seq(Word)

\* A measurement is a hash of eight words: no two of them differ by one and the same word
\* everywhere.
ASSUME MeasureAssumption ==
  \A p, q \in Platforms, w \in Word : xor_words(p.measure, w) = q.measure => w = {}

-----------------------------------------------------------------------------
(* Reports.                                                                  *)

\* The 180 bytes that are signed are those of the report as it stands, masked: the nonce
\* that masks them is not among them.
Signed(r) == <<r.data, r.measure>>

Unmask(r) == [curve     |-> Xor(r.pek.curve, r.anonce),
              key       |-> xor_words(r.pek.key, r.anonce),
              uidLength |-> Xor(r.pek.uidLength, r.anonce),
              uid       |-> Xor(r.pek.uid, r.anonce)]

\* The report the chip of platform p makes for a binding, with nonce n.
get_report(p, binding, n) ==
  LET data == xor_words(binding, n)
      measure == xor_words(p.measure, n)
  IN [data |-> data, measure |-> measure, anonce |-> n,
      pek |-> [curve     |-> Xor(p.curve, n),
               key       |-> xor_words(p.key, n),
               uidLength |-> Xor(p.uidLength, n),
               uid       |-> Xor(p.uid, n)],
      sig |-> <<p.key, p.uidLength, p.uid, data, measure>>]

\* A report with one field changed, or masked with another nonce where it is not signed.
Damaged(r) ==
  {[r EXCEPT !.anonce = w] : w \in Nonces}
  \cup {[r EXCEPT !.data = xor_words(@, w)] : w \in Nonces}
  \cup {[r EXCEPT !.measure = xor_words(@, w)] : w \in Nonces}
  \cup {[r EXCEPT !.pek.key = xor_words(@, w)] : w \in Nonces}
  \cup {[r EXCEPT !.pek.curve = Xor(@, w)] : w \in Nonces}
  \cup {[r EXCEPT !.sig = Broken]}
  \cup {[r EXCEPT !.anonce = Xor(@, w), !.pek.curve = Xor(@, w), !.pek.key = xor_words(@, w),
                  !.pek.uidLength = Xor(@, w), !.pek.uid = Xor(@, w)] : w \in Nonces}

Pristine == {get_report(p, b, n) : p \in Platforms, b \in Bindings, n \in Nonces}
Reports == UNION {Damaged(r) \cup {r} : r \in Pristine}

-----------------------------------------------------------------------------
(* The verifiers: a are the trusted values, the key and the measurement.      *)

\* The signature is checked under the key and the user id the report carries.
sm2_verify(pek, bytes, sig) ==
  sig = <<pek.key, pek.uidLength, pek.uid, bytes[1], bytes[2]>>

\* Mutant: the measurement is not compared.
VerifyKeyOnly(r, expected, a) ==
  LET pek == Unmask(r) IN
  /\ xor_words(r.data, r.anonce) = expected
  /\ pek.uidLength \notin LongUid
  /\ sm2_verify(pek, Signed(r), r.sig)
  /\ pek.key = a.key

verify_impl(r, expected, a) ==
  LET pek == Unmask(r) IN
  /\ xor_words(r.data, r.anonce) = expected
  /\ pek.uidLength \notin LongUid
  /\ sm2_verify(pek, Signed(r), r.sig)
  /\ pek.key = a.key
  /\ xor_words(r.measure, r.anonce) = a.measure

verify_report(r, expected, a) ==
  LET pek == Unmask(r) IN
  /\ xor_words(r.data, r.anonce) = expected
  /\ pek.curve = Sm2Curve
  /\ pek.uidLength \notin LongUid
  /\ sm2_verify(pek, Signed(r), r.sig)
  /\ pek.key = a.key
  /\ xor_words(r.measure, r.anonce) = a.measure

rust_verify_report(r, expected, a) ==
  LET pek == Unmask(r) IN
  /\ xor_words(r.data, r.anonce) = expected
  /\ pek.curve = Sm2Curve
  /\ pek.uidLength \notin LongUid
  /\ pek.uid \in Text
  /\ sm2_verify(pek, Signed(r), r.sig)
  /\ pek.key = a.key
  /\ xor_words(r.measure, r.anonce) = a.measure

Verify(backend, r, expected, a) ==
  CASE backend = "linux"   -> verify_impl(r, expected, a)
    [] backend = "windows" -> verify_report(r, expected, a)
    [] backend = "macos"   -> rust_verify_report(r, expected, a)

-----------------------------------------------------------------------------
(* csv_fd_fix.c, which stands between the process and the library that makes  *)
(* reports: it sees the library open and close /proc/self/pagemap and closes  *)
(* what the library leaves open.  A report for which that was not opened and  *)
(* closed exactly once is not used.                                           *)

\* What the library may do with the file: forget to close it, fail to open it, open it again.
Habits == {<<>>, <<"open">>, <<"open", "close">>, <<"open", "open">>,
           <<"open", "close", "open">>}

Count(what, h) == Cardinality({i \in DOMAIN h : h[i] = what})

\* fopen with the file of this thread still open.
Aborts(h) == \E i \in DOMAIN h : i + 1 \in DOMAIN h /\ h[i] = "open" /\ h[i + 1] = "open"

\* What the wrapper closes: the file still owned when the library returns.
Owned(h) == IF h # <<>> /\ h[Len(h)] = "open" THEN 1 ELSE 0

\* The library's own failures: an error, or not one file opened.
LibraryFails(h, rc) == ~rc \/ Count("open", h) # 1

\* What is still open after that.
Leak(h) == Count("open", h) - Count("close", h) - Owned(h)

\* The wrapper's result from the library's: opened and closed are both one.
WrapperOk(h, rc) == rc /\ Count("open", h) = 1 /\ Count("close", h) + Owned(h) = 1
=============================================================================
