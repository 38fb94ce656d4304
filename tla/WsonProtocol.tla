---------------------------- MODULE WsonProtocol ----------------------------
(***************************************************************************)
(* The tags of the wson format (io/wson/wson_protocol.h): the byte every   *)
(* value starts with.                                                      *)
(***************************************************************************)
NullType       == 48   \* '0'
StringType     == 115  \* 's': UTF-16 code units
Uint8String    == 117  \* 'u': bytes
BooleanTrue    == 116  \* 't'
BooleanFalse   == 102  \* 'f'
IntType        == 105  \* 'i'
FloatType      == 70   \* 'F'
DoubleType     == 100  \* 'd'
LongType       == 108  \* 'l'
BigIntType     == 103  \* 'g': a decimal number as a string
BigDecimalType == 101  \* 'e': likewise
ArrayType      == 91   \* '['
MapType        == 123  \* '{'
ExtendType     == 98   \* 'b': bytes of the application
=============================================================================
