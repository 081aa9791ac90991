-------------------------- MODULE OneTimePassword ---------------------------
(***************************************************************************)
(* The printed form of a one-time password: pretty_print_otp of the demo   *)
(* client and MDGClient.format(otp:) of the iOS application, which formats *)
(* the text field again after each change of it.                           *)
(***************************************************************************)
EXTENDS Positions, SequencesExt

CONSTANT OtpLength     \* otpLength: the digits the iOS application keeps

ASSUME OtpAssumption == OtpLength \in Nat

Decimal == {"0", "1", "2", "3", "4", "5", "6", "7", "8", "9"}

(* A dash before the fourth, the seventh, ... character.  The array of 32  *)
(* characters that the code fills is not compared with what is printed.    *)
PrettyPrintOtp(otp) ==
  FlattenSeq([i \in 1 .. Len(otp) |->
    IF i > 1 /\ i % 3 = 1 THEN <<"dash", otp[i]>> ELSE <<otp[i]>>])

(* The digits, as many as are kept.                                        *)
Kept(text) ==
  LET digits == Selected(text, {i \in 1 .. Len(text) : text[i] \in Decimal})
  IN  IF Len(digits) > OtpLength THEN SubSeq(digits, 1, OtpLength) ELSE digits

(* A dash behind each third of them, unless it is the last.                *)
FormatEagerly(text) ==
  LET otp == Kept(text)
  IN  FlattenSeq([i \in 1 .. Len(otp) |->
        IF i % 3 = 0 THEN <<otp[i], "dash">> ELSE <<otp[i]>>])

Format(text) ==
  LET otp == Kept(text)
  IN  FlattenSeq([i \in 1 .. Len(otp) |->
        IF i % 3 = 0 /\ i < Len(otp) THEN <<otp[i], "dash">> ELSE <<otp[i]>>])
=============================================================================
