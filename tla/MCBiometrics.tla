---------------------------- MODULE MCBiometrics ----------------------------
(* Small instances of Biometrics.                                          *)
EXTENDS Biometrics, TLC

CONSTANTS a, b, x, y
=============================================================================
