------------------------------ MODULE MCActionIds ------------------------------
EXTENDS ActionIds

CONSTANTS silo, tetu, create, pause
MCTaskOrder == <<silo, tetu>>
MCFirstBuilds == [r \in Tasks \X {Factory, Pool} |-> IF r[2] = Factory THEN {create} ELSE {create, pause}]
=============================================================================
