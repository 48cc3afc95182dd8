--------------------------- MODULE MCSqliteStore ----------------------------
EXTENDS SqliteStore
ByteStrings == {<<>>, <<1>>, <<0, 1>>, <<1, 1>>}
Op == [key : {<<>>, <<1>>, <<0, 1>>}, value : Values \cup {Absent}]
TwoOps == {<<>>} \cup {<<o>> : o \in Op} \cup {<<o, q>> : o \in Op, q \in Op}
=============================================================================
