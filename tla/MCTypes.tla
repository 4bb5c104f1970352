------------------------------ MODULE MCTypes ------------------------------
EXTENDS Types

CONSTANTS bool, int

BuiltinTypes == <<bool, int>>
=============================================================================
