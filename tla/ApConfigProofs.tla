--------------------------- MODULE ApConfigProofs ---------------------------
(* Proofs about ApConfig, for strings and limits of any length.            *)
EXTENDS ApConfig, SequenceTheorems, WellFoundedInduction, TLAPS

USE ApConfigAssumption DEF nvs, ram, task, vars

-----------------------------------------------------------------------------
(* Trimming and cutting.                                                   *)

(* A set of numbers with a member has a least one.                         *)
LEMMA LeastExists ==
  ASSUME NEW S \in SUBSET Nat, S # {}
  PROVE  \E p \in S : \A q \in S : p <= q
<1> DEFINE Less == OpToRel(<, Nat)
<1>1. \A p, q \in Nat : <<q, p>> \in Less <=> q < p
  BY DEF OpToRel
<1>2. IsWellFoundedOn(Less, Nat)
  BY NatLessThanWellFounded
<1> HIDE DEF Less
<1>3. PICK p \in S : \A q \in S : ~ (<<q, p>> \in Less)
  BY <1>2, WFMin
<1>4. \A q \in S : ~ (q < p)
  BY <1>1, <1>3, Zenon
<1>5. \A q \in S : p <= q
  BY <1>4
<1> QED BY <1>5

(* A set of numbers below a bound has a greatest one.                      *)
LEMMA GreatestExists ==
  ASSUME NEW n \in Nat, NEW S \in SUBSET (1 .. n), S # {}
  PROVE  \E p \in S : \A q \in S : p >= q
<1> DEFINE U == {m \in Nat : \A q \in S : q <= m}
<1>1. U \in SUBSET Nat /\ n \in U
  OBVIOUS
<1>2. PICK m \in U : \A q \in U : m <= q
  BY <1>1, LeastExists
<1>3. \A q \in S : q \in Nat /\ q >= 1 /\ q <= m
  BY <1>2
<1>4. m \in S
  <2>1. SUFFICES ASSUME m \notin S PROVE FALSE
    OBVIOUS
  <2>2. m \in Nat /\ m >= 1
    <3>1. PICK q \in S : TRUE
      OBVIOUS
    <3>2. m \in Nat
      BY <1>1, <1>2
    <3> QED BY <1>3, <3>1, <3>2
  <2>3. \A q \in S : q <= m - 1
    BY <1>3, <2>1, <2>2
  <2>4. m - 1 \in U
    BY <2>2, <2>3
  <2> QED BY <1>2, <2>2, <2>4
<1> QED BY <1>3, <1>4

(* Where the ink of a string begins and ends.                              *)
LEMMA InkBounds ==
  ASSUME NEW t \in Strings, {i \in DOMAIN t : t[i] # Blank} # {}
  PROVE  LET ink == {i \in DOMAIN t : t[i] # Blank}
         IN  /\ Min(ink) \in ink /\ Max(ink) \in ink /\ Min(ink) <= Max(ink)
             /\ \A i \in ink : Min(ink) <= i /\ i <= Max(ink)
             /\ Len(t) \in Nat /\ DOMAIN t = 1 .. Len(t)
             /\ Min(ink) \in 1 .. Len(t) /\ Max(ink) \in 1 .. Len(t)
<1> DEFINE ink == {i \in DOMAIN t : t[i] # Blank}
<1>1. Len(t) \in Nat /\ DOMAIN t = 1 .. Len(t)
  BY DEF Strings
<1>2. ink \in SUBSET (1 .. Len(t)) /\ ink \in SUBSET Nat /\ ink # {}
  BY <1>1
<1> HIDE DEF ink
<1>3. Min(ink) \in ink /\ \A i \in ink : Min(ink) <= i
  <2>1. \E p \in ink : \A q \in ink : p <= q
    BY <1>2, LeastExists
  <2> QED BY <2>1 DEF Min
<1>4. Max(ink) \in ink /\ \A i \in ink : Max(ink) >= i
  <2>1. \E p \in ink : \A q \in ink : p >= q
    BY <1>1, <1>2, GreatestExists
  <2> QED BY <2>1 DEF Max
<1>5. \A i \in ink : Min(ink) <= i /\ i <= Max(ink)
  BY <1>2, <1>3, <1>4
<1> QED BY <1>1, <1>2, <1>3, <1>4, <1>5 DEF ink

(* The three things trimming does: nothing is left of blanks, ink begins   *)
(* and ends what is left, and nothing is added.                            *)
LEMMA TrimProperties ==
  ASSUME NEW t \in Strings
  PROVE  /\ Trim(t) \in Strings
         /\ Len(Trim(t)) \in Nat /\ Len(t) \in Nat /\ Len(Trim(t)) <= Len(t)
         /\ Trim(t) # <<>> => /\ Trim(t)[1] # Blank /\ Trim(t)[Len(Trim(t))] # Blank
                              /\ Len(Trim(t)) >= 1
         /\ (\E i \in DOMAIN t : t[i] # Blank) => Trim(t) # <<>>
         /\ t # <<>> /\ t[1] # Blank => Trim(t) # <<>>
<1> DEFINE ink == {i \in DOMAIN t : t[i] # Blank}
<1>0. Len(t) \in Nat /\ DOMAIN t = 1 .. Len(t)
  BY DEF Strings
<1>1. CASE ink = {}
  <2>1. Trim(t) = <<>>
    BY <1>1 DEF Trim
  <2>2. t # <<>> => Len(t) >= 1
    BY <1>0, EmptySeq DEF Strings
  <2>3. ~ (t # <<>> /\ t[1] # Blank)
    BY <1>0, <1>1, <2>2
  <2>4. ~ \E i \in DOMAIN t : t[i] # Blank
    BY <1>1
  <2> QED BY <1>0, <2>1, <2>3, <2>4, EmptySeq DEF Strings
<1>2. CASE ink # {}
  <2> DEFINE a == Min(ink)
  <2> DEFINE b == Max(ink)
  <2>1. /\ a \in ink /\ b \in ink /\ a <= b
        /\ a \in 1 .. Len(t) /\ b \in 1 .. Len(t)
    BY <1>2, InkBounds
  <2>2. Trim(t) = SubSeq(t, a, b)
    BY <1>2 DEF Trim
  <2>3. t[a] # Blank /\ t[b] # Blank
    BY <2>1
  <2> HIDE DEF a, b, ink
  <2>4. \A i \in a .. b : t[i] \in Letters \cup {Blank}
    BY <1>0, <2>1 DEF Strings
  <2>5. /\ Trim(t) \in Strings /\ Len(Trim(t)) = b - a + 1
        /\ \A i \in 1 .. b - a + 1 : Trim(t)[i] = t[a + i - 1]
    BY <2>1, <2>2, <2>4, SubSeqProperties DEF Strings
  <2>6. Trim(t)[1] = t[a] /\ Trim(t)[b - a + 1] = t[b]
    BY <2>1, <2>5
  <2>7. Trim(t) # <<>>
    BY <2>1, <2>5, EmptySeq
  <2> QED BY <1>0, <2>1, <2>3, <2>5, <2>6, <2>7
<1> QED BY <1>1, <1>2

(* A string with ink at both ends is left as it is.                        *)
LEMMA TrimTight ==
  ASSUME NEW t \in Strings, t # <<>>, t[1] # Blank, t[Len(t)] # Blank
  PROVE  Trim(t) = t
<1> DEFINE ink == {i \in DOMAIN t : t[i] # Blank}
<1>1. Len(t) \in Nat \ {0} /\ DOMAIN t = 1 .. Len(t)
  BY EmptySeq DEF Strings
<1>2. 1 \in ink /\ Len(t) \in ink
  BY <1>1
<1>3. /\ \A i \in ink : Min(ink) <= i /\ i <= Max(ink)
      /\ Min(ink) \in 1 .. Len(t) /\ Max(ink) \in 1 .. Len(t)
  BY <1>2, InkBounds
<1>4. Min(ink) = 1 /\ Max(ink) = Len(t)
  <2> HIDE DEF ink
  <2> QED BY <1>1, <1>2, <1>3
<1>5. Trim(t) = SubSeq(t, 1, Len(t))
  BY <1>2, <1>4 DEF Trim
<1> QED BY <1>5, SubSeqFull DEF Strings

(* Trimming twice is trimming once.                                        *)
LEMMA TrimTwice == ASSUME NEW t \in Strings PROVE Trim(Trim(t)) = Trim(t)
<1>1. CASE Trim(t) = <<>>
  <2>1. Trim(<<>>) = <<>>
    BY DEF Trim
  <2> QED BY <1>1, <2>1
<1>2. CASE Trim(t) # <<>>
  BY <1>2, TrimProperties, TrimTight
<1> QED BY <1>1, <1>2

(* A cut shortens at the end only.                                         *)
LEMMA CutProperties ==
  ASSUME NEW t \in Strings, NEW n \in Nat \ {0}
  PROVE  /\ Cut(t, n) \in Strings
         /\ Len(Cut(t, n)) \in Nat /\ Len(Cut(t, n)) <= n
         /\ t # <<>> => Cut(t, n) # <<>> /\ Cut(t, n)[1] = t[1] /\ Len(Cut(t, n)) >= 1
         /\ Len(t) <= n => Cut(t, n) = t
<1> DEFINE m == Min({n, Len(t)})
<1>1. Len(t) \in Nat /\ DOMAIN t = 1 .. Len(t)
  BY DEF Strings
<1>2. (m = n \/ m = Len(t)) /\ m <= n /\ m <= Len(t)
  <2>1. \E x \in {n, Len(t)} : \A y \in {n, Len(t)} : x =< y
    <3>1. CASE n <= Len(t)
      BY <1>1, <3>1
    <3>2. CASE Len(t) <= n
      BY <1>1, <3>2
    <3> QED BY <1>1, <3>1, <3>2
  <2>2. m \in {n, Len(t)} /\ \A y \in {n, Len(t)} : m =< y
    BY <2>1, Zenon DEF Min
  <2> HIDE DEF m
  <2> QED BY <2>2
<1>3. Cut(t, n) = SubSeq(t, 1, m)
  BY DEF Cut
<1> HIDE DEF m
<1>4. m \in Nat /\ m <= n /\ m <= Len(t)
  BY <1>1, <1>2
<1>5. \A i \in 1 .. m : t[i] \in Letters \cup {Blank}
  BY <1>1, <1>4 DEF Strings
<1>6. /\ Cut(t, n) \in Strings /\ Len(Cut(t, n)) = m
      /\ \A i \in 1 .. m : Cut(t, n)[i] = t[i]
  BY <1>3, <1>4, <1>5, SubSeqProperties DEF Strings
<1>7. ASSUME t # <<>> PROVE Cut(t, n) # <<>> /\ Cut(t, n)[1] = t[1] /\ Len(Cut(t, n)) >= 1
  <2>1. Len(t) >= 1
    BY <1>1, <1>7, EmptySeq DEF Strings
  <2>2. m >= 1
    BY <1>1, <1>2, <2>1
  <2> QED BY <1>4, <1>6, <2>2, EmptySeq
<1>8. ASSUME Len(t) <= n PROVE Cut(t, n) = t
  <2>1. m = Len(t)
    BY <1>1, <1>2, <1>8
  <2> QED BY <1>3, <2>1, SubSeqFull DEF Strings
<1> QED BY <1>4, <1>6, <1>7, <1>8

-----------------------------------------------------------------------------
(* Sanitizing.                                                             *)

(* A sanitized name is neither empty nor too long, and begins with ink.    *)
LEMMA SsidSanitized ==
  ASSUME NEW t \in Strings
  PROVE  /\ SanitizeApSsid(t) \in Strings /\ Flush(SanitizeApSsid(t))
         /\ Len(SanitizeApSsid(t)) \in 1 .. SsidMax
<1>1. CASE Trim(t) = <<>>
  <2>1. SanitizeApSsid(t) = kDefaultApSsid
    BY <1>1 DEF SanitizeApSsid
  <2>2. kDefaultApSsid # <<>>
    BY EmptySeq
  <2>3. kDefaultApSsid[1] # Blank
    BY <2>2, TrimProperties
  <2> QED BY <2>1, <2>3 DEF Flush
<1>2. CASE Trim(t) # <<>>
  <2>1. SanitizeApSsid(t) = Cut(Trim(t), SsidMax)
    BY <1>2 DEF SanitizeApSsid
  <2>2. Trim(t) \in Strings /\ Trim(t)[1] # Blank
    BY <1>2, TrimProperties
  <2> QED BY <1>2, <2>1, <2>2, CutProperties DEF Flush
<1> QED BY <1>1, <1>2

(* Sanitizing it again only drops the blanks the cut left at its end.      *)
LEMMA SsidSettles ==
  ASSUME NEW t \in Strings, Flush(t), Len(t) \in 1 .. SsidMax
  PROVE  SanitizeApSsid(t) = Trim(t) /\ CleanSsid(Trim(t))
<1>1. t # <<>> /\ t[1] # Blank
  BY EmptySeq DEF Flush
<1>2. /\ Trim(t) \in Strings /\ Trim(t) # <<>>
      /\ Len(Trim(t)) \in 1 .. SsidMax /\ Len(Trim(t)) <= SsidMax
  BY <1>1, TrimProperties
<1>3. Cut(Trim(t), SsidMax) = Trim(t)
  BY <1>2, CutProperties
<1> QED BY <1>2, <1>3, TrimTwice DEF SanitizeApSsid, CleanSsid

(* A clean name stays as it is.                                            *)
LEMMA SsidFixed == ASSUME NEW t, CleanSsid(t) PROVE SanitizeApSsid(t) = t
<1>1. t \in Strings /\ Trim(t) = t /\ Len(t) \in 1 .. SsidMax
  BY DEF CleanSsid
<1>2. t # <<>>
  BY <1>1, EmptySeq
<1>3. Flush(t)
  BY <1>1, <1>2, TrimProperties DEF Flush
<1> QED BY <1>1, <1>3, SsidSettles

(* Whatever NVS holds, a boot takes a clean name: the stored one if any.   *)
LEMMA SsidLoaded ==
  ASSUME NEW t, t # Absent => CleanSsid(t)
  PROVE  CleanSsid(LoadApSsid(t)) /\ (t # Absent => LoadApSsid(t) = t)
<1>1. CASE t = Absent
  BY <1>1 DEF LoadApSsid, CleanSsid
<1>2. CASE t # Absent
  BY <1>2, SsidFixed DEF LoadApSsid
<1> QED BY <1>1, <1>2

(* A sanitized password is not too long and begins with ink.               *)
LEMMA PassSanitized ==
  ASSUME NEW t \in Strings
  PROVE  SanitizeApPassword(t) \in Strings /\ Flush(SanitizeApPassword(t))
<1>1. Trim(t) \in Strings /\ (Trim(t) # <<>> => Trim(t)[1] # Blank)
  BY TrimProperties
<1>2. PassMax \in Nat \ {0}
  OBVIOUS
<1>3. CASE Trim(t) = <<>>
  <2>1. Len(Trim(t)) <= PassMax
    BY <1>2, <1>3
  <2>2. SanitizeApPassword(t) = <<>>
    BY <1>1, <1>2, <1>3, <2>1, CutProperties DEF SanitizeApPassword
  <2> QED BY <1>1, <1>3, <2>2 DEF Flush
<1>4. CASE Trim(t) # <<>>
  BY <1>1, <1>2, <1>4, CutProperties DEF SanitizeApPassword, Flush
<1> QED BY <1>3, <1>4

(* Nothing is left of a password only if it had no ink to begin with.      *)
LEMMA PassErased ==
  ASSUME NEW t \in Strings, SanitizeApPassword(t) = <<>> PROVE Asks(t) # {}
<1>1. PassMax \in Nat \ {0} /\ Trim(t) \in Strings
  BY TrimProperties
<1>2. Trim(t) = <<>>
  BY <1>1, CutProperties DEF SanitizeApPassword
<1>3. \A i \in DOMAIN t : t[i] = Blank
  BY <1>2, TrimProperties
<1> QED BY <1>3 DEF Asks

(* Sanitizing a valid one again drops the blanks at its end, and never all *)
(* of it.                                                                  *)
LEMMA PassSettles ==
  ASSUME NEW t \in Strings, Flush(t), IsValidApPassword(t)
  PROVE  /\ SanitizeApPassword(t) = Trim(t)
         /\ Trim(t) \in Strings /\ Trim(Trim(t)) = Trim(t)
         /\ Trim(t) = <<>> <=> t = <<>>
<1>0. PassMax \in Nat \ {0}
  OBVIOUS
<1>1. Len(t) \in Nat /\ Len(t) <= PassMax
  BY <1>0 DEF IsValidApPassword, Strings
<1>2. Trim(t) \in Strings /\ Len(Trim(t)) \in Nat /\ Len(Trim(t)) <= PassMax
  BY <1>0, <1>1, TrimProperties
<1>3. SanitizeApPassword(t) = Trim(t)
  BY <1>0, <1>2, CutProperties DEF SanitizeApPassword
<1>4. t # <<>> => Trim(t) # <<>>
  BY TrimProperties DEF Flush
<1>5. Trim(<<>>) = <<>>
  BY DEF Trim
<1> QED BY <1>2, <1>3, <1>4, <1>5, TrimTwice

(* A clean password stays as it is.                                        *)
LEMMA PassFixed == ASSUME NEW t, CleanPassword(t) PROVE SanitizeApPassword(t) = t
<1>1. t \in Strings /\ Trim(t) = t /\ IsValidApPassword(t)
  BY DEF CleanPassword
<1>2. Flush(t)
  BY <1>1, TrimProperties DEF Flush
<1> QED BY <1>1, <1>2, PassSettles

(* Whatever NVS holds, a boot takes a clean password, and an empty one     *)
(* only if it is stored.                                                   *)
LEMMA PassLoaded ==
  ASSUME NEW t, t # Absent => CleanPassword(t)
  PROVE  /\ CleanPassword(LoadApPassword(t)) /\ (t # Absent => LoadApPassword(t) = t)
         /\ LoadApPassword(t) = <<>> => t = <<>>
<1>1. CASE t = Absent
  <2>1. LoadApPassword(t) = kDefaultApPassword
    BY <1>1 DEF LoadApPassword
  <2>2. IsValidApPassword(kDefaultApPassword)
    BY DEF IsValidApPassword
  <2>3. kDefaultApPassword # <<>>
    BY EmptySeq
  <2> QED BY <1>1, <2>1, <2>2, <2>3 DEF CleanPassword
<1>2. CASE t # Absent
  <2>1. SanitizeApPassword(t) = t /\ IsValidApPassword(t)
    BY <1>2, PassFixed DEF CleanPassword
  <2> QED BY <1>2, <2>1 DEF LoadApPassword
<1> QED BY <1>1, <1>2

-----------------------------------------------------------------------------
(* The invariant.                                                          *)

(* The type invariant apart from the Boolean values.                       *)
Lengths ==
  /\ ap_ssid = Absent \/ Len(ap_ssid) \in 1 .. SsidMax
  /\ ap_pass = Absent \/ IsValidApPassword(ap_pass)
  /\ Len(g_apSsid) \in 1 .. SsidMax
  /\ g_apPassword = <<>> \/ Len(g_apPassword) \in PassMin .. PassMax
  /\ Len(running.ssid) \in 1 .. SsidMax
  /\ running.pass = <<>> \/ Len(running.pass) \in PassMin .. PassMax
  /\ phase \in {"idle", "ssid", "pass", "restart"}
  /\ lastSave \in {"none", "saved", "failed"} /\ asked \subseteq {"empty", "blanks"}

Flags == job.reboot \in BOOLEAN

(* The type invariant is the conjunction of these parts.                   *)
LEMMA TypeParts == TypeOK <=> Lengths /\ Flags
  BY Zenon DEF TypeOK, Lengths, Flags

(* The same in the next state.                                             *)
LEMMA TypePartsPrimed == TypeOK' <=> Lengths' /\ Flags'
  BY Zenon DEF TypeOK, Lengths, Flags

(* The flags stay Booleans.                                                *)
LEMMA FlagsStep == Flags /\ [Next]_vars => Flags'
<1> SUFFICES ASSUME Flags, [Next]_vars PROVE Flags'
  OBVIOUS
<1>0. NoJob.reboot \in BOOLEAN
  <2>1. NoJob.reboot = FALSE
    BY DEF NoJob
  <2> QED BY <2>1, Zenon
<1>1. ASSUME NEW ssid \in Texts, NEW pass \in Texts, NEW reboot \in BOOLEAN,
             ApConfigSet(ssid, pass, reboot)
      PROVE  Flags'
  <2>1. job'.reboot = reboot
    BY <1>1 DEF ApConfigSet
  <2> QED BY <1>1, <2>1, Zenon DEF ApConfigSet, Flags
<1>2. CASE SaveApSsid
  BY <1>0, <1>2, Zenon DEF SaveApSsid, Fail, Flags
<1>3. CASE SaveApPassword
  BY <1>0, <1>3, Zenon DEF SaveApPassword, Fail, Flags
<1>4. CASE Restart \/ RestartErased
  BY <1>0, <1>4, Zenon DEF Restart, RestartErased, Booted, Flags
<1>5. CASE UNCHANGED vars
  BY <1>5, Zenon DEF Flags
<1> QED BY <1>1, <1>2, <1>3, <1>4, <1>5 DEF Next

(* The invariant without the flags.                                        *)
SavedInv ==
  /\ Lengths /\ StoredIsClean /\ JobIsSanitized
  /\ HalfSaved /\ EmptyWasAsked /\ ShownIsStored

(* A clean name or password is of the right length.                        *)
LEMMA CleanLengths ==
  ASSUME NEW t
  PROVE  /\ CleanSsid(t) => Len(t) \in 1 .. SsidMax
         /\ CleanPassword(t) => IsValidApPassword(t)
         /\ IsValidApPassword(t) <=> (t = <<>> \/ Len(t) \in PassMin .. PassMax)
  BY DEF CleanSsid, CleanPassword, IsValidApPassword

(* A boot establishes the invariant from clean strings.                    *)
LEMMA BootInv ==
  ASSUME ap_ssid' # Absent => CleanSsid(ap_ssid'),
         ap_pass' # Absent => CleanPassword(ap_pass'),
         ap_pass' = <<>> => asked' # {}, asked' \subseteq {"empty", "blanks"},
         Booted(ap_ssid', ap_pass')
  PROVE  SavedInv'
<1> DEFINE s == LoadApSsid(ap_ssid')
<1> DEFINE p == LoadApPassword(ap_pass')
<1>1. CleanSsid(s) /\ Len(s) \in 1 .. SsidMax /\ Trim(s) = s
  BY SsidLoaded DEF CleanSsid
<1>2. /\ CleanPassword(p) /\ Trim(p) = p
      /\ p = <<>> \/ Len(p) \in PassMin .. PassMax
  BY PassLoaded DEF CleanPassword, IsValidApPassword
<1> HIDE DEF s, p
<1>3. /\ g_apSsid' = s /\ g_apPassword' = p
      /\ running'.ssid = s /\ running'.pass = p
      /\ phase' = "idle" /\ lastSave' = "none"
  BY DEF Booted, s, p
<1>4. Lengths'
  BY <1>1, <1>2, <1>3, CleanLengths DEF Lengths
<1>5. StoredIsClean' /\ JobIsSanitized' /\ HalfSaved' /\ EmptyWasAsked'
  BY <1>2, <1>3 DEF StoredIsClean, JobIsSanitized, HalfSaved, EmptyWasAsked
<1>6. ShownIsStored'
  BY <1>1, <1>2, <1>3 DEF ShownIsStored, s, p
<1> QED BY <1>4, <1>5, <1>6 DEF SavedInv

(* Every step keeps the invariant.                                         *)
LEMMA SavedStep ==
  ASSUME SavedInv, Flags, [Next]_vars PROVE SavedInv'
<1> USE DEF SavedInv
<1>1. ASSUME NEW ssid \in Texts, NEW pass \in Texts, NEW reboot \in BOOLEAN,
             ApConfigSet(ssid, pass, reboot)
      PROVE  SavedInv'
  <2>1. /\ job'.ssid = SanitizeApSsid(ssid) /\ job'.pass = SanitizeApPassword(pass)
        /\ IsValidApPassword(SanitizeApPassword(pass))
        /\ phase = "idle" /\ phase' = "ssid"
        /\ asked' = asked \cup Asks(pass)
        /\ UNCHANGED <<ap_ssid, ap_pass, g_apSsid, g_apPassword, running, lastSave>>
    BY <1>1 DEF ApConfigSet
  <2>2. ssid \in Strings /\ pass \in Strings
    OBVIOUS
  <2>3. /\ JobIsSanitized'
        /\ (asked # {} => asked' # {})
        /\ asked' \subseteq {"empty", "blanks"}
    <3>1. Asks(pass) \subseteq {"empty", "blanks"}
      BY DEF Asks
    <3>2. SanitizeApPassword(pass) = <<>> => asked' # {}
      BY <2>1, <2>2, PassErased
    <3> QED BY <2>1, <2>2, <3>1, <3>2, SsidSanitized, PassSanitized DEF JobIsSanitized, Lengths
  <2> QED BY <2>1, <2>3 DEF Lengths, StoredIsClean, HalfSaved, EmptyWasAsked, ShownIsStored
<1>2. CASE SaveApSsid
  <2>1. /\ phase = "ssid"
        /\ UNCHANGED <<ap_pass, g_apSsid, g_apPassword, running>>
        /\ asked' = asked \/ (asked' = {} /\ ap_pass # <<>>)
        /\ \/ /\ ap_ssid' = SanitizeApSsid(job.ssid) /\ phase' = "pass"
              /\ UNCHANGED <<job, lastSave, asked>>
           \/ /\ ap_ssid' = ap_ssid \/ ap_ssid' = SanitizeApSsid(job.ssid)
              /\ phase' = "idle" /\ lastSave' = "failed"
    BY <1>2 DEF SaveApSsid, Fail, Settle
  <2>2. SanitizeApSsid(job.ssid) = Trim(job.ssid) /\ CleanSsid(Trim(job.ssid))
    BY <2>1, SsidSettles DEF JobIsSanitized
  <2>3. StoredIsClean' /\ (ap_ssid' = Absent \/ Len(ap_ssid') \in 1 .. SsidMax)
    BY <2>1, <2>2, CleanLengths DEF StoredIsClean, Lengths
  <2>4. JobIsSanitized' /\ HalfSaved' /\ EmptyWasAsked' /\ ShownIsStored'
    BY <2>1, <2>2 DEF JobIsSanitized, HalfSaved, EmptyWasAsked, ShownIsStored
  <2> QED BY <2>1, <2>3, <2>4 DEF Lengths
<1>3. CASE SaveApPassword
  <2> DEFINE pass == SanitizeApPassword(job.pass)
  <2>0. /\ phase = "pass" /\ ap_ssid' = ap_ssid /\ running' = running
        /\ \/ /\ IsValidApPassword(pass) /\ ap_pass' = pass
              /\ g_apSsid' = job.ssid /\ g_apPassword' = job.pass
              /\ lastSave' = "saved" /\ (phase' = "restart" \/ phase' = "idle")
           \/ /\ ap_pass' = ap_pass \/ (IsValidApPassword(pass) /\ ap_pass' = pass)
              /\ g_apSsid' = g_apSsid /\ g_apPassword' = g_apPassword
              /\ lastSave' = "failed" /\ phase' = "idle"
    BY <1>3 DEF SaveApPassword, Fail
  <2>1. \/ asked' = asked
        \/ asked' = {} /\ ap_pass' # <<>>
    BY <1>3 DEF SaveApPassword, Settle
  <2>2. /\ job.pass \in Strings /\ Flush(job.pass) /\ IsValidApPassword(job.pass)
        /\ job.ssid \in Strings /\ Flush(job.ssid) /\ Len(job.ssid) \in 1 .. SsidMax
        /\ ap_ssid = Trim(job.ssid)
        /\ job.pass = <<>> => asked # {}
    BY <2>0 DEF JobIsSanitized, HalfSaved
  <2>3. /\ pass = Trim(job.pass) /\ pass \in Strings /\ Trim(pass) = pass
        /\ pass = <<>> => job.pass = <<>>
    BY <2>2, PassSettles
  <2>4. ap_ssid # Absent /\ CleanSsid(ap_ssid) /\ LoadApSsid(ap_ssid) = Trim(job.ssid)
    <3>1. CleanSsid(ap_ssid)
      BY <2>2, SsidSettles
    <3>2. ap_ssid # Absent
      BY <3>1 DEF CleanSsid
    <3> QED BY <2>2, <3>1, <3>2, SsidLoaded
  <2>5. IsValidApPassword(pass) =>
          CleanPassword(pass) /\ pass # Absent /\ LoadApPassword(pass) = Trim(job.pass)
    <3>1. IsValidApPassword(pass) => CleanPassword(pass) /\ pass # Absent
      BY <2>3 DEF CleanPassword
    <3> HIDE DEF pass
    <3> QED BY <2>3, <3>1, PassLoaded
  <2> HIDE DEF pass
  <2>6. StoredIsClean'
    BY <2>0, <2>4, <2>5 DEF StoredIsClean
  <2>7. Lengths'
    BY <2>0, <2>1, <2>2, <2>5, CleanLengths DEF Lengths
  <2>8. JobIsSanitized' /\ HalfSaved'
    BY <2>0 DEF JobIsSanitized, HalfSaved
  <2>9. EmptyWasAsked'
    BY <2>0, <2>1, <2>2, <2>3 DEF EmptyWasAsked
  <2>10. ShownIsStored'
    BY <2>0, <2>4, <2>5 DEF ShownIsStored
  <2> QED BY <2>6, <2>7, <2>8, <2>9, <2>10
<1>4. CASE Restart
  <2>1. /\ ap_ssid' = ap_ssid /\ ap_pass' = ap_pass /\ Booted(ap_ssid', ap_pass')
        /\ asked' = asked \/ (asked' = {} /\ ap_pass # <<>>)
    BY <1>4 DEF Restart, Settle
  <2> QED BY <2>1, BootInv DEF StoredIsClean, EmptyWasAsked, Lengths
<1>5. CASE RestartErased
  <2>1. ap_ssid' = Absent /\ ap_pass' = Absent /\ Booted(ap_ssid', ap_pass') /\ Settle(Absent)
    BY <1>5 DEF RestartErased
  <2>2. Absent # <<>>
    BY EmptySeq DEF Strings
  <2>3. asked' = {}
    BY <2>1, <2>2 DEF Settle
  <2> QED BY <2>1, <2>2, <2>3, BootInv
<1>6. CASE UNCHANGED vars
  BY <1>6 DEF Lengths, StoredIsClean, JobIsSanitized, HalfSaved, EmptyWasAsked, ShownIsStored
<1> QED BY <1>1, <1>2, <1>3, <1>4, <1>5, <1>6 DEF Next

(* The state after the first boot satisfies the invariant.                 *)
LEMMA ConfigInit == Init => ConfigInv
<1> SUFFICES ASSUME Init PROVE ConfigInv
  OBVIOUS
<1>0. Absent # <<>> /\ kDefaultApPassword # <<>>
  <2>1. <<>> \in Strings
    BY EmptySeq DEF Strings
  <2>2. Len(kDefaultApPassword) # 0
    OBVIOUS
  <2> QED BY <2>1, <2>2, EmptySeq
<1>1. Lengths
  BY DEF Init, Lengths
<1>2. Flags
  <2>1. NoJob.reboot = FALSE
    BY DEF NoJob
  <2> QED BY <2>1, Zenon DEF Init, Flags
<1>3. StoredIsClean /\ JobIsSanitized /\ HalfSaved
  BY DEF Init, StoredIsClean, JobIsSanitized, HalfSaved
<1>4. EmptyWasAsked
  BY <1>0 DEF Init, EmptyWasAsked
<1>5. ShownIsStored
  BY DEF Init, ShownIsStored, LoadApSsid, LoadApPassword
<1> QED BY <1>1, <1>2, <1>3, <1>4, <1>5, TypeParts, Zenon DEF ConfigInv

(* Through every sequence of requests, refused writes, power losses and    *)
(* erasures the name is never empty nor too long, the password empty or of *)
(* a length softAP takes; what NVS holds is trimmed, while what RAM holds  *)
(* may end in blanks that a cut left.                                      *)
THEOREM ConfigInvariance == Spec => []ConfigInv
<1>1. ConfigInv /\ [Next]_vars => ConfigInv'
  <2> SUFFICES ASSUME ConfigInv, [Next]_vars PROVE ConfigInv'
    OBVIOUS
  <2>1. SavedInv /\ Flags
    BY TypeParts, Zenon DEF ConfigInv, SavedInv
  <2>2. SavedInv' /\ Flags'
    BY <2>1, SavedStep, FlagsStep
  <2> QED BY <2>2, TypePartsPrimed, Zenon DEF ConfigInv, SavedInv
<1> QED BY <1>1, ConfigInit, PTL DEF Spec

(* The next boot opens the access point only if a request came in with a   *)
(* password of nothing or only blanks since another one was left in NVS:   *)
(* no cut, no blanks around a password, no failed or interrupted save and  *)
(* no missing key does (loadApPassword, setupWebUi).                       *)
THEOREM NeverOpenUnasked == Spec => []OpenOnlyIfAsked
<1>1. ConfigInv => OpenOnlyIfAsked
  <2> SUFFICES ASSUME ConfigInv, Len(LoadApPassword(ap_pass)) < PassMin PROVE asked # {}
    BY DEF OpenOnlyIfAsked, NextBootIsOpen
  <2>1. /\ CleanPassword(LoadApPassword(ap_pass))
        /\ LoadApPassword(ap_pass) = <<>> => ap_pass = <<>>
    BY PassLoaded DEF ConfigInv, StoredIsClean
  <2>2. LoadApPassword(ap_pass) = <<>>
    BY <2>1 DEF CleanPassword, IsValidApPassword
  <2> QED BY <2>1, <2>2 DEF ConfigInv, EmptyWasAsked
<1> QED BY <1>1, ConfigInvariance, PTL

(* Unless the last save failed, the next boot uses what the page shows, to *)
(* the blanks at the end (loadApSsid and loadApPassword against the copies *)
(* the handler leaves in RAM).                                             *)
THEOREM NextBootAsShown == Spec => []ShownIsNextBoot
<1>1. ConfigInv => ShownIsNextBoot
  BY DEF ConfigInv, ShownIsStored, ShownIsNextBoot
<1> QED BY <1>1, ConfigInvariance, PTL
=============================================================================
