------------------------------- MODULE MCRfb -------------------------------
(* Values for the constants of Rfb.                                        *)
EXTENDS Rfb, TLC

CONSTANTS Inputs, Messages, Faults

MCBudget == [input |-> Inputs, message |-> Messages, fault |-> Faults]

=============================================================================
