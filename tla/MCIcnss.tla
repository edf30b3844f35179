------------------------------- MODULE MCIcnss -------------------------------
\* A device of each kind, booted three times.
EXTENDS Icnss

MCDevices == {"wcn6750", "adrastea", "no_pdr"}

\* The one with the most behaviours has one registration only.
MCCalls == [d \in MCDevices |-> IF d = "adrastea" THEN 1 ELSE 2]

==============================================================================
