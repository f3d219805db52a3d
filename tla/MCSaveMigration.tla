-------------------------- MODULE MCSaveMigration --------------------------
EXTENDS SaveMigration

CONSTANTS e1, e2, e3, k1, k2, srm, slot1

\* Two entries share a name, the third has its own.
MCKeyOf == [e \in Entries |-> IF e = e3 THEN k2 ELSE k1]
MCFileOrder == <<srm, slot1>>
=============================================================================
