---------------------------- MODULE MCOtaUpdate ----------------------------
EXTENDS OtaUpdate

Sizes == [fw \in Firmwares |-> IF fw = "new" THEN 2 ELSE 1]
Message(fw, total, kind) == [fw |-> fw, total |-> total, kind |-> kind]

Again == Message("new", 2, "binary")
Few   == {Again, Message("new", 2, "junk")}
Many  == {Again, Message("new", 3, "base64"), Message("new", 3, "junk"),
          Message("old", 2, "base64"), Message("not an MD5", 2, "junk"),
          Message("new", 2, "retained")}
=============================================================================
