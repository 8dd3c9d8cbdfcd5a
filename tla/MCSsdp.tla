------------------------------- MODULE MCSsdp -------------------------------
\* One family with one endpoint, and three control points that search through it.
EXTENDS Ssdp

CONSTANTS v4, e4, c, d, f

MCFamilyOf == [e \in {e4} |-> v4]
MCClientFamily == [s \in {c, d, f} |-> v4]
=============================================================================
