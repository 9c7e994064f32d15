-------------------------------- MODULE Values --------------------------------
(***************************************************************************)
(* From a property of an object to a cell of SQLite and back: the accessor *)
(* converts the property to the C type of its column, the statement binds  *)
(* or reads it, and a condition has it as a literal.  The column has the   *)
(* type that the first version of the app gave it; a later version may     *)
(* have another type for the property.                                     *)
(*                                                                         *)
(* Integers and reals have fewer bits than theirs.  A real is counted in    *)
(* fractions: it is one of the multiples of 1/Fraction that its mantissa   *)
(* holds, and so is an NSNumber.  The six decimals of std::to_string are    *)
(* none here.  Texts and data are "empty" or "full".  What may be nil is a  *)
(* sequence: <<>> is nil.                                                  *)
(***************************************************************************)
EXTENDS Integers, Sequences

CONSTANTS
    PropertyType,  \* Integer(bits, signed), Real(bits), NSNumber, NSString, NSData
    Sample,        \* numbers that apps write
    IntBits, LongBits, DoubleBits,
    FractionBits   \* bits of a real that its text does not show

Integer(bits, signed) == [kind |-> "integer", bits |-> bits, signed |-> signed]
Real(bits) == [kind |-> "real", bits |-> bits]
NSNumber == [kind |-> "NSNumber"]
NSString == [kind |-> "NSString"]
NSData == [kind |-> "NSData"]

\* A value of a row, or by itself, without a property: an integer or nil.
WCTValue == [kind |-> "WCTValue"]

\* The powers of two.
TwoTo[k \in Nat] == IF k = 0 THEN 1 ELSE 2 * TwoTo[k - 1]

ASSUME BitsAssumption ==
    /\ {IntBits, LongBits, DoubleBits} \subseteq Nat \ {0} /\ IntBits < LongBits
    /\ FractionBits \in Nat

Fraction == TwoTo[FractionBits]

\* Bits of any number, in fractions.
NumberBits == LongBits + FractionBits

\* No integer type is longer than long long, no real one than double.
ASSUME TypesAssumption ==
    \A t \in PropertyType :
        \/ \E bits \in 1..LongBits, signed \in BOOLEAN : t = Integer(bits, signed)
        \/ \E bits \in 1..DoubleBits : t = Real(bits)
        \/ t \in {NSNumber, NSString, NSData}

ASSUME SampleAssumption ==
    \A n \in Sample : n \in Int /\ -TwoTo[NumberBits] =< n /\ n =< TwoTo[NumberBits]

VARIABLES
    property,  \* the type of the property
    column,    \* the type of the column
    rows       \* the cell of each row, with the type and the value it was written from

valuesVars == <<property, column, rows>>

-----------------------------------------------------------------------------
(* Numbers of a width                                                      *)

AsSigned(n, bits) == ((n + TwoTo[bits - 1]) % TwoTo[bits]) - TwoTo[bits - 1]

\* The conversion to an integer type of C++.
Cast(n, bits, signed) == IF signed THEN AsSigned(n, bits) ELSE n % TwoTo[bits]

InRange(n, bits, signed) == Cast(n, bits, signed) = n

\* What the last of so many bits stands for in a number of this size.
IsUnit(unit, abs, bits) ==
    /\ abs =< TwoTo[bits] * unit
    /\ unit > 1 => abs > TwoTo[bits] * (unit \div 2)

Unit(abs, bits) == CHOOSE unit \in {TwoTo[k] : k \in 0..NumberBits} : IsUnit(unit, abs, bits)

\* The nearest multiple; the even one of two.
NearestMultiple(abs, unit) ==
    LET quotient == abs \div unit
        double == 2 * (abs % unit)
    IN  unit * (IF double > unit \/ (double = unit /\ quotient % 2 = 1) THEN quotient + 1 ELSE quotient)

\* The nearest number of so many bits.
RoundedAbs(abs, bits) == NearestMultiple(abs, Unit(abs, bits))

Rounded(n, bits) == IF n < 0 THEN -RoundedAbs(-n, bits) ELSE RoundedAbs(n, bits)

IsWhole(n) == n % Fraction = 0

\* Towards zero.
Truncated(n) == IF n < 0 THEN -((-n) \div Fraction) ELSE n \div Fraction

\* std::to_string: the nearest number of so many decimals, in fractions.
Printed(n) == IF n < 0 THEN -NearestMultiple(-n, Fraction) ELSE NearestMultiple(n, Fraction)

\* SQLite takes the nearest integer it has for a real that is too large.
Clamped(n) ==
    IF n > TwoTo[LongBits - 1] - 1 THEN TwoTo[LongBits - 1] - 1
    ELSE IF n < -(TwoTo[LongBits - 1]) THEN -(TwoTo[LongBits - 1]) ELSE n

ToInteger(n) == Clamped(Truncated(n))

-----------------------------------------------------------------------------
(* Columns and cells                                                       *)

ColumnType(type) ==
    CASE type.kind = "integer" -> IF type.bits =< IntBits THEN "Integer32" ELSE "Integer64"
      [] type.kind \in {"real", "NSNumber"} -> "Float"
      [] type.kind = "NSString" -> "Text"
      [] type.kind = "NSData" -> "BLOB"

\* Bits of the C type of an integer column.
CTypeBits(columnType) == IF columnType = "Integer32" THEN IntBits ELSE LongBits

Nil == <<>>

Null == [class |-> "null"]
IntegerCell(n) == [class |-> "integer", n |-> n]
RealCell(n) == [class |-> "real", n |-> Rounded(n, DoubleBits)]

IsNumber(cell) == cell.class \in {"integer", "real"}

\* A number of any cell, in fractions.
Amount(cell) == IF cell.class = "integer" THEN cell.n * Fraction ELSE cell.n

\* What a column makes of what is bound: its affinity.
Stored(columnType, cell) ==
    CASE columnType = "Float" /\ cell.class = "integer" -> RealCell(Amount(cell))
      [] columnType \in {"Integer32", "Integer64"} /\ cell.class = "real" /\ IsWhole(cell.n)
              /\ InRange(Truncated(cell.n), LongBits, TRUE) -> IntegerCell(Truncated(cell.n))
      [] OTHER -> cell

\* Text that is nil is NULL.
BoundText(value) == IF value = Nil THEN Null ELSE [class |-> "text", text |-> value[1]]

\* The accessor: the property as the C type of its column, and back.
CValue(type, value) == AsSigned(value[1], CTypeBits(ColumnType(type)))

PropertyValue(type, n) == Cast(n, type.bits, type.signed)

\* bindProperty, bindWithValue.  A nil number is bound as 0, data without
\* bytes as NULL.
Bound(type, value) ==
    CASE type.kind = "integer" -> IntegerCell(CValue(type, value))
      [] type.kind = "WCTValue" -> IF value = Nil THEN Null ELSE IntegerCell(value[1])
      [] type.kind = "real" -> RealCell(value[1])
      [] type.kind = "NSNumber" -> RealCell(IF value = Nil THEN 0 ELSE value[1])
      [] type.kind = "NSString" -> BoundText(value)
      [] type.kind = "NSData" -> IF value = <<"full">> THEN [class |-> "blob", text |-> value[1]] ELSE Null

NumberOf(cell) == IF IsNumber(cell) THEN Amount(cell) ELSE 0

\* The integers of 32 bits are the low bits of the cell.
GetInteger(type, cell) == AsSigned(ToInteger(NumberOf(cell)), CTypeBits(ColumnType(type)))

\* extractPropertyToObject, extractValue.
Read(type, cell) ==
    CASE type.kind = "integer" -> <<PropertyValue(type, GetInteger(type, cell))>>
      [] type.kind = "real" -> <<Rounded(NumberOf(cell), type.bits)>>
      [] type.kind = "NSNumber" -> <<Rounded(NumberOf(cell), DoubleBits)>>
      [] type.kind = "WCTValue" ->
              IF cell = Null THEN Nil ELSE IF IsNumber(cell) THEN <<cell.n>> ELSE <<cell.text>>
      [] type.kind = "NSString" -> IF cell = Null THEN Nil ELSE <<cell.text>>
      [] type.kind = "NSData" -> <<IF cell = Null THEN "empty" ELSE cell.text>>

\* The literal of a number: a real is printed; an integer that is too large
\* is read as a real.
LiteralNumber(type, n) ==
    CASE type.kind = "real" -> RealCell(Printed(n))
      [] type.kind = "NSNumber" ->
             IF IsWhole(n) /\ InRange(Truncated(n), LongBits, TRUE) THEN IntegerCell(Truncated(n))
             ELSE RealCell(Printed(n))
      [] OTHER -> IF InRange(n, LongBits, TRUE) THEN IntegerCell(n) ELSE RealCell(n * Fraction)

\* Mutant: the literal of an integer is that of its C type.
LiteralValue_CType(type, value) ==
    IF value = Nil THEN Null
    ELSE IF type.kind \in {"NSString", "NSData"} THEN [class |-> "text", text |-> value[1]]
    ELSE IF type.kind = "integer" THEN IntegerCell(AsSigned(value[1], IntBits))
    ELSE LiteralNumber(type, value[1])

\* What SQLite reads the literal of a value as: data are a text.
LiteralValue(type, value) ==
    IF value = Nil THEN Null
    ELSE IF type.kind \in {"NSString", "NSData"} THEN [class |-> "text", text |-> value[1]]
    ELSE LiteralNumber(type, value[1])

\* where(property == value)
Finds(cell, literal) ==
    IF IsNumber(cell) /\ IsNumber(literal) THEN Amount(cell) = Amount(literal)
    ELSE cell # Null /\ cell = literal

-----------------------------------------------------------------------------
(* Versions of the app, and what they write                                *)

Numbers == {t \in PropertyType : t.kind \in {"integer", "real", "NSNumber"}}

LongSample == {m \in Sample : InRange(m, LongBits, TRUE)}

DoubleSample == {m \in Sample : Rounded(m, DoubleBits) = m}

\* An NSNumber is of an integer or of a double.
ValuesOf(type) ==
    CASE type.kind = "integer" -> {<<n>> : n \in {m \in Sample : InRange(m, type.bits, type.signed)}}
      [] type.kind = "real" -> {<<n>> : n \in {m \in Sample : Rounded(m, type.bits) = m}}
      [] type.kind = "WCTValue" -> {<<n>> : n \in LongSample} \cup {Nil}
      [] type.kind = "NSNumber" ->
             {<<n * Fraction>> : n \in LongSample} \cup {<<n>> : n \in DoubleSample} \cup {Nil}
      [] OTHER -> {Nil, <<"empty">>, <<"full">>}

ValuesInit ==
    /\ property \in PropertyType
    /\ column = ColumnType(property)
    /\ rows = <<>>

\* A version with another type, which keeps the column as it is.
ChangeType ==
    /\ \E t \in PropertyType :
           /\ (t \in Numbers) = (property \in Numbers)
           /\ property' = t
    /\ UNCHANGED <<column, rows>>

Write(row, type) ==
    /\ type = WCTValue => property \in Numbers
    /\ \E value \in ValuesOf(type) :
           rows' = [r \in DOMAIN rows \cup {row} |->
                        IF r = row
                        THEN [cell |-> Stored(column, Bound(type, value)), type |-> type, value |-> value]
                        ELSE rows[r]]
    /\ UNCHANGED <<property, column>>

ValuesNext ==
    \/ ChangeType
    \/ \E row \in 1..2 : Write(row, property) \/ Write(row, WCTValue)

ValuesSpec == ValuesInit /\ [][ValuesNext]_valuesVars

-----------------------------------------------------------------------------
(* Properties                                                              *)

\* The types that a property of these rows may have.
Readers == {t \in PropertyType : (t \in Numbers) = (property \in Numbers)}

\* An integer in a column of integers is read as what C++ makes of it when
\* it is cast from the one type to the other; a signed one that the reader
\* has room for, and any in its own type, is the same.
IntegersSurvive ==
    \A row \in DOMAIN rows : \A reader \in Readers :
        LET written == rows[row]
            got == Read(reader, written.cell)
        IN  column # "Float" /\ written.type.kind = "integer" /\ reader.kind = "integer" =>
                /\ (got[1] - written.value[1]) % TwoTo[IF reader.bits < written.type.bits
                                                 THEN reader.bits ELSE written.type.bits] = 0
                /\ reader = written.type => got = written.value
                /\ written.type.signed /\ InRange(written.value[1], reader.bits, reader.signed)
                       => got = written.value

\* A property of another type that is read as it was written has its value:
\* but a number that is nil comes back as 0, and without the bits that a
\* double has not, and data that are nil come back empty.
ObjectsSurvive ==
    \A row \in DOMAIN rows :
        LET written == rows[row]
            got == Read(written.type, written.cell)
        IN  CASE written.type.kind = "real" -> got = written.value
              [] written.type.kind = "NSString" ->
                     got = written.value /\ Read(WCTValue, written.cell) = written.value
              [] written.type.kind = "WCTValue" -> column # "Float" => got = written.value
              [] written.type.kind = "NSNumber" ->
                     got = <<IF written.value = Nil THEN 0 ELSE Rounded(written.value[1], DoubleBits)>>
              [] written.type.kind = "NSData" ->
                     got = IF written.value = Nil THEN <<"empty">> ELSE written.value
              [] OTHER -> TRUE

\* The cells of these are negative.
UpperHalf(type, value) ==
    /\ type.kind = "integer" /\ ~ type.signed
    /\ type.bits \in {IntBits, LongBits}
    /\ ~ InRange(value[1], type.bits, TRUE)

\* What a condition can look for.
Findable(type, value) ==
    /\ value # Nil /\ type.kind # "NSData"
    /\ ~ UpperHalf(type, value)
    /\ type.kind = "NSNumber" => Rounded(value[1], DoubleBits) = value[1]
    /\ type.kind \in {"real", "NSNumber"} => Printed(value[1]) = value[1]

\* Looking for a value in a column of its type finds the rows that have it:
\* not if it is nil or data, nor in the upper half of an unsigned type, nor
\* a number that a double has not or that is not printed whole.
FindsWhatItReads ==
    \A row \in DOMAIN rows :
        LET written == rows[row]
        IN  written.type # WCTValue /\ column = ColumnType(written.type) =>
                \A value \in {v \in ValuesOf(written.type) : Findable(written.type, v)} :
                    Finds(written.cell, LiteralValue(written.type, value))
                        <=> Read(written.type, written.cell) = value

\* Rows that were written from one type of numbers are in the order of their
\* values, again not in the upper half of an unsigned type.
OrderIsKept ==
    \A a, b \in DOMAIN rows :
        LET type == rows[a].type
        IN  /\ type = rows[b].type /\ type \in Numbers
            /\ \A row \in {a, b} : rows[row].value # Nil /\ ~ UpperHalf(type, rows[row].value)
            /\ rows[a].value[1] =< rows[b].value[1]
            => Amount(rows[a].cell) =< Amount(rows[b].cell)

\* A value comes back, is found, and stays in its place among the others.
ValuesSurvive ==
    /\ IntegersSurvive
    /\ ObjectsSurvive
    /\ FindsWhatItReads
    /\ OrderIsKept

=============================================================================
