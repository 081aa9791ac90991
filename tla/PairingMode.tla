----------------------------- MODULE PairingMode ----------------------------
(***************************************************************************)
(* Opening for pairing: /op with a random one-time password, /opf with one *)
(* that the user types, /cpm; on the library's side the pairing mode, and  *)
(* mdgstorage_load_preset_pairing_token, which it calls when it opens.     *)
(*                                                                         *)
(* The handler fills preset_otp_buffer without the library's mutex.  API   *)
(* calls take the mutex, and a callback holds it, so the mode changes      *)
(* before or after the loading of a password; but the buffer can change    *)
(* meanwhile.  The buffer's last byte is always zero, so what is loaded    *)
(* always ends, if not always where it should.                             *)
(***************************************************************************)
EXTENDS Integers

CONSTANT MaxPasswords    \* bound: passwords typed, all different

ASSUME PasswordAssumption == MaxPasswords \in Nat

VARIABLES
  handler,     \* the input thread: "idle", "terminate", "disable", "enable"
  preset,      \* preset_otp_buffer: a password, Random (empty) or Torn
  asked,       \* history: what the user asked for last
  passwords,   \* counts the passwords
  mode,        \* library: "off", "opening", "loading" or "open"
  seen,        \* library's thread: the buffer when strlen looked at it
  otp          \* library: the password of the pairing mode

modeVars == <<handler, preset, asked, passwords, mode, seen, otp>>

Random == 0
Torn == -1

ModeInit ==
  /\ handler = "idle" /\ mode = "off"
  /\ preset = Random /\ asked = Random /\ seen = Random /\ otp = Random
  /\ passwords = 0

MutexIsFree == mode # "loading"

-----------------------------------------------------------------------------
(* open_for_pairing_handler.                                               *)
OpenForPairing ==
  /\ handler = "idle" /\ passwords < MaxPasswords
  /\ passwords' = passwords + 1
  /\ preset' = Random /\ asked' = Random
  /\ handler' = "disable"
  /\ UNCHANGED <<mode, seen, otp>>

(* open_for_pairing_handler_preset_otp; too long a password is refused.    *)
PresetIsCopied ==
  /\ handler = "idle" /\ passwords < MaxPasswords
  /\ passwords' = passwords + 1
  /\ preset' = Torn /\ asked' = passwords + 1
  /\ handler' = "terminate"
  /\ UNCHANGED <<mode, seen, otp>>

PresetIsTerminatedOnly ==
  /\ handler = "terminate"
  /\ preset' = asked
  /\ handler' = "idle"
  /\ UNCHANGED <<asked, passwords, mode, seen, otp>>

PresetIsTerminated ==
  /\ handler = "terminate"
  /\ preset' = asked
  /\ handler' = "disable"
  /\ UNCHANGED <<asked, passwords, mode, seen, otp>>

DisablePairingMode ==
  /\ handler = "disable" /\ MutexIsFree
  /\ mode' = "off"
  /\ handler' = "enable"
  /\ UNCHANGED <<preset, asked, passwords, seen, otp>>

(* A failure of mdg_enable_pairing_mode is printed.                        *)
EnablePairingMode ==
  /\ handler = "enable" /\ MutexIsFree
  /\ mode' \in {"opening", "off"}
  /\ handler' = "idle"
  /\ UNCHANGED <<preset, asked, passwords, seen, otp>>

(* cancel_pairing_mode_handler, and the end of a pairing or of its time.   *)
PairingModeEnds ==
  /\ mode \in {"opening", "open"}
  /\ handler = "idle" \/ mode = "open"
  /\ mode' = "off"
  /\ UNCHANGED <<handler, preset, asked, passwords, seen, otp>>

-----------------------------------------------------------------------------
(* mdgstorage_load_preset_pairing_token: the length, then the bytes.       *)
PresetIsMeasured ==
  /\ mode = "opening"
  /\ seen' = preset
  /\ mode' = "loading"
  /\ UNCHANGED <<handler, preset, asked, passwords, otp>>

PresetIsLoaded ==
  /\ mode = "loading"
  /\ otp' = IF seen = Random \/ seen = preset THEN seen ELSE Torn
  /\ mode' = "open"
  /\ UNCHANGED <<handler, preset, asked, passwords, seen>>

OpenCommand == PresetIsTerminated \/ DisablePairingMode \/ EnablePairingMode
LoadPreset == PresetIsMeasured \/ PresetIsLoaded

ModeNext ==
  \/ OpenForPairing \/ PresetIsCopied \/ OpenCommand
  \/ PairingModeEnds \/ LoadPreset
=============================================================================
