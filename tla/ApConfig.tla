------------------------------ MODULE ApConfig ------------------------------
(***************************************************************************)
(* The access point's name and password (sketch.cpp): two strings in NVS,  *)
(* a copy in RAM that the web page shows, and the access point that runs   *)
(* with what the last boot loaded.  A request sanitizes both strings,      *)
(* checks the password and saves them in two NVS writes, each of which     *)
(* sanitizes again; either write may be refused, or be reported as refused *)
(* although it was made, and the power may fail at any point.              *)
(*                                                                         *)
(* A string is a sequence of letters and Blank, since trimming and cutting *)
(* are what can go wrong: sanitizing is not idempotent when the cut leaves *)
(* a blank at the end.                                                     *)
(***************************************************************************)
EXTENDS Integers, Sequences, FiniteSetsExt

CONSTANTS
    Letters, Blank,     \* what a string is made of: ink and white space
    Texts,              \* strings a request may carry
    kDefaultApSsid, kDefaultApPassword,
    SsidMax,            \* 31
    PassMin, PassMax,   \* 8 and 63
    Absent              \* no string under the NVS key

VARIABLES
    ap_ssid, ap_pass,           \* NVS
    g_apSsid, g_apPassword,     \* RAM
    running,                    \* what softAP was started with
    phase, job,                 \* the handler under way and what it saves
    \* history
    lastSave,                   \* how the last save since the boot ended
    asked                       \* passwords without ink asked for since a
                                \* request or boot left another one in NVS

nvs  == <<ap_ssid, ap_pass>>
ram  == <<g_apSsid, g_apPassword>>
task == <<phase, job>>
vars == <<nvs, ram, running, task, lastSave, asked>>

NoJob == [ssid |-> <<>>, pass |-> <<>>, reboot |-> FALSE]

-----------------------------------------------------------------------------
(* Strings.                                                                *)

Strings == Seq(Letters \cup {Blank})

(* String::trim.                                                           *)
Trim(t) ==
    LET ink == {i \in DOMAIN t : t[i] # Blank}
    IN  IF ink = {} THEN <<>> ELSE SubSeq(t, Min(ink), Max(ink))

(* The defaults are a name and a password that sanitizing leaves alone.    *)
ASSUME ApConfigAssumption ==
    /\ SsidMax \in Nat \ {0} /\ PassMin \in Nat \ {0} /\ PassMax \in Nat
    /\ Texts \subseteq Strings /\ Absent \notin Strings
    /\ kDefaultApSsid \in Strings /\ Len(kDefaultApSsid) \in 1 .. SsidMax
    /\ kDefaultApPassword \in Strings /\ Len(kDefaultApPassword) \in PassMin .. PassMax
    /\ Trim(kDefaultApSsid) = kDefaultApSsid
    /\ Trim(kDefaultApPassword) = kDefaultApPassword

(* substring(0, n) if longer.                                              *)
Cut(t, n) == SubSeq(t, 1, Min({n, Len(t)}))

(* Mutant: the cut comes before the trim, and may leave nothing.           *)
SanitizeApSsidCutFirst(t) == Trim(Cut(t, SsidMax))

SanitizeApSsid(t) ==
    IF Trim(t) = <<>> THEN kDefaultApSsid ELSE Cut(Trim(t), SsidMax)

SanitizeApPassword(t) == Cut(Trim(t), PassMax)

(* Mutant: any length is a password.                                       *)
IsValidApPasswordAlways(t) == TRUE

IsValidApPassword(t) == t = <<>> \/ Len(t) \in PassMin .. PassMax

(* What a boot makes of the stored strings.                                *)
LoadApSsid(t) == IF t = Absent THEN kDefaultApSsid ELSE SanitizeApSsid(t)

LoadApPassword(t) ==
    IF t = Absent \/ ~IsValidApPassword(SanitizeApPassword(t))
    THEN kDefaultApPassword ELSE SanitizeApPassword(t)

-----------------------------------------------------------------------------
(* setup() and setupWebUi(): load, and start the access point.             *)
Booted(ssid, pass) ==
    /\ g_apSsid' = LoadApSsid(ssid)
    /\ g_apPassword' = LoadApPassword(pass)
    /\ running' = [ssid |-> LoadApSsid(ssid), pass |-> LoadApPassword(pass)]
    /\ phase' = "idle" /\ job' = NoJob
    /\ lastSave' = "none"

Init ==
    /\ ap_ssid = Absent /\ ap_pass = Absent
    /\ g_apSsid = kDefaultApSsid /\ g_apPassword = kDefaultApPassword
    /\ running = [ssid |-> kDefaultApSsid, pass |-> kDefaultApPassword]
    /\ phase = "idle" /\ job = NoJob
    /\ lastSave = "none" /\ asked = {}

(* History: what a request says of the password before anything is done to *)
(* it, which counts until one ends with another password in NVS.           *)
Asks(pass) ==
    IF pass = <<>> THEN {"empty"}
    ELSE IF \A i \in DOMAIN pass : pass[i] = Blank THEN {"blanks"} ELSE {}

Settle(stored) == asked' = IF stored = <<>> THEN asked ELSE {}

(* handleApiApConfigSet and handleApiApConfigApplyReboot up to the first   *)
(* write.  A request with an invalid password is refused: no step.         *)
ApConfigSet(ssid, pass, reboot) ==
    /\ phase = "idle"
    /\ IsValidApPassword(SanitizeApPassword(pass))
    /\ job' = [ssid |-> SanitizeApSsid(ssid), pass |-> SanitizeApPassword(pass),
               reboot |-> reboot]
    /\ phase' = "ssid"
    /\ asked' = asked \cup Asks(pass)
    /\ UNCHANGED <<nvs, ram, running, lastSave>>

(* The handler answers with an error and leaves RAM as it is.              *)
Fail == phase' = "idle" /\ job' = NoJob /\ lastSave' = "failed"

(* saveApSsid.                                                             *)
SaveApSsid ==
    /\ phase = "ssid"
    /\ \/ ap_ssid' = SanitizeApSsid(job.ssid) /\ phase' = "pass" /\ UNCHANGED <<job, lastSave, asked>>
       \/ ap_ssid' \in {ap_ssid, SanitizeApSsid(job.ssid)} /\ Fail /\ Settle(ap_pass)
    /\ UNCHANGED <<ap_pass, ram, running>>

(* Mutant: the copy in RAM keeps the old password.                         *)
SaveApPasswordForgetsRam ==
    /\ phase = "pass"
    /\ IsValidApPassword(SanitizeApPassword(job.pass))
    /\ ap_pass' = SanitizeApPassword(job.pass)
    /\ Settle(ap_pass')
    /\ g_apSsid' = job.ssid
    /\ lastSave' = "saved"
    /\ phase' = IF job.reboot THEN "restart" ELSE "idle"
    /\ job' = NoJob
    /\ UNCHANGED <<ap_ssid, g_apPassword, running>>

(* saveApPassword, and the end of the handler.  Sanitizing a second time   *)
(* may make the password too short, which also counts as a failed save.    *)
SaveApPassword ==
    /\ phase = "pass"
    /\ LET pass == SanitizeApPassword(job.pass)
       IN  \/ /\ IsValidApPassword(pass)
              /\ ap_pass' = pass
              /\ g_apSsid' = job.ssid /\ g_apPassword' = job.pass
              /\ lastSave' = "saved"
              /\ phase' = IF job.reboot THEN "restart" ELSE "idle"
              /\ job' = NoJob
           \/ /\ ap_pass' \in IF IsValidApPassword(pass) THEN {ap_pass, pass} ELSE {ap_pass}
              /\ Fail
              /\ UNCHANGED ram
    /\ Settle(ap_pass')
    /\ UNCHANGED <<ap_ssid, running>>

(* ESP.restart(), or the power fails.                                      *)
Restart ==
    /\ Booted(ap_ssid, ap_pass) /\ Settle(ap_pass)
    /\ UNCHANGED nvs

(* setup() finds NVS full or of another version and erases it.             *)
RestartErased ==
    /\ ap_ssid' = Absent /\ ap_pass' = Absent
    /\ Booted(Absent, Absent) /\ Settle(Absent)

Next ==
    \/ \E ssid, pass \in Texts, reboot \in BOOLEAN : ApConfigSet(ssid, pass, reboot)
    \/ SaveApSsid \/ SaveApPassword
    \/ Restart \/ RestartErased

Spec == Init /\ [][Next]_vars

-----------------------------------------------------------------------------
(* Properties.                                                             *)

(* What can be stored, shown and used: the name is never empty and never   *)
(* too long, the password always one that softAP takes.                    *)
TypeOK ==
    /\ ap_ssid = Absent \/ Len(ap_ssid) \in 1 .. SsidMax
    /\ ap_pass = Absent \/ IsValidApPassword(ap_pass)
    /\ Len(g_apSsid) \in 1 .. SsidMax
    /\ g_apPassword = <<>> \/ Len(g_apPassword) \in PassMin .. PassMax
    /\ Len(running.ssid) \in 1 .. SsidMax
    /\ running.pass = <<>> \/ Len(running.pass) \in PassMin .. PassMax
    /\ phase \in {"idle", "ssid", "pass", "restart"} /\ job.reboot \in BOOLEAN
    /\ lastSave \in {"none", "saved", "failed"} /\ asked \subseteq {"empty", "blanks"}

(* What setupWebUi would start an open access point with (apOpen).         *)
NextBootIsOpen == Len(LoadApPassword(ap_pass)) < PassMin

(* The next boot opens the access point only if a request, as it came in,  *)
(* carried a password of nothing or nothing but blanks, since another one  *)
(* was left in NVS: no cut, no blanks around a password, no failed or      *)
(* interrupted save and no missing key opens it.  Blanks alone do, though  *)
(* SPECIFICATIONS.md 4.1 allows any 8 to 63 characters as a password:      *)
(* sanitizeApPassword trims them to the empty one.                         *)
OpenOnlyIfAsked == NextBootIsOpen => asked # {}

(* Unless the last save failed, the next boot comes up with the name and   *)
(* password that the web page shows, to the blanks at their end, although  *)
(* both were sanitized once for RAM, twice for NVS and again by the boot.  *)
ShownIsNextBoot ==
    phase = "idle" /\ lastSave # "failed" =>
        /\ LoadApSsid(ap_ssid) = Trim(g_apSsid)
        /\ LoadApPassword(ap_pass) = Trim(g_apPassword)

(* Why these hold, in every state: the parts of the inductive invariant.   *)

(* A string without a blank in front.                                      *)
Flush(t) == t # <<>> => t[1] # Blank

(* What is in NVS comes back from sanitizing as it is.                     *)
CleanSsid(t) == t \in Strings /\ Trim(t) = t /\ Len(t) \in 1 .. SsidMax

CleanPassword(t) == t \in Strings /\ Trim(t) = t /\ IsValidApPassword(t)

StoredIsClean ==
    /\ ap_ssid # Absent => CleanSsid(ap_ssid)
    /\ ap_pass # Absent => CleanPassword(ap_pass)

(* What a handler is about to save was sanitized once: only the cut may    *)
(* have left blanks, at the end.                                           *)
JobIsSanitized ==
    phase \in {"ssid", "pass"} =>
        /\ job.ssid \in Strings /\ Flush(job.ssid) /\ Len(job.ssid) \in 1 .. SsidMax
        /\ job.pass \in Strings /\ Flush(job.pass) /\ IsValidApPassword(job.pass)
        /\ job.pass = <<>> => asked # {}

(* Between the two writes NVS has the new name.                            *)
HalfSaved == phase = "pass" => ap_ssid = Trim(job.ssid)

(* An empty password in NVS was asked for.                                 *)
EmptyWasAsked == ap_pass = <<>> => asked # {}

(* Up to the first write of a save, and again after the last one.          *)
ShownIsStored ==
    phase # "pass" /\ lastSave # "failed" =>
        /\ LoadApSsid(ap_ssid) = Trim(g_apSsid)
        /\ LoadApPassword(ap_pass) = Trim(g_apPassword)

(* The inductive invariant of name and password.                           *)
ConfigInv ==
    /\ TypeOK /\ StoredIsClean /\ JobIsSanitized
    /\ HalfSaved /\ EmptyWasAsked /\ ShownIsStored
=============================================================================
