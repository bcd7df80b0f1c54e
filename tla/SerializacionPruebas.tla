------------------------ MODULE SerializacionPruebas ------------------------
(***************************************************************************)
(* Proofs about Serializacion: what a reader takes from a stream is what    *)
(* the writer put in it, for every value and whatever is before and after.  *)
(***************************************************************************)
EXTENDS Serializacion, SequenceTheorems, WellFoundedInduction, TLAPS

\* A sequence of anything, and that b has the bytes of o after the first d.
EsFlujo(s) == \E S : s \in Seq(S)
Tiene(b, d, o) == d + Len(o) <= Len(b) /\ \A i \in 1..Len(o) : b[d + i] = o[i]

\* b begins with a.
Prefijo(a, b) == Len(a) <= Len(b) /\ \A i \in 1..Len(a) : b[i] = a[i]

LEMMA LargoFlujo == ASSUME NEW s, EsFlujo(s) PROVE Len(s) \in Nat
BY DEF EsFlujo

LEMMA Concatenado ==
    ASSUME NEW a, NEW b, EsFlujo(a), EsFlujo(b)
    PROVE  /\ EsFlujo(a \o b) /\ Len(a) \in Nat /\ Len(b) \in Nat
           /\ Len(a \o b) = Len(a) + Len(b)
           /\ \A i \in 1..Len(a) : (a \o b)[i] = a[i]
           /\ \A i \in 1..Len(b) : (a \o b)[Len(a) + i] = b[i]
<1>1. PICK S, T : a \in Seq(S) /\ b \in Seq(T)
  BY DEF EsFlujo
<1> DEFINE U == S \cup T
<1>2. a \in Seq(U) /\ b \in Seq(U)
  BY <1>1
<1> HIDE DEF U
<1>3. a \o b \in Seq(U) /\ Len(a \o b) = Len(a) + Len(b) /\ Len(a) \in Nat /\ Len(b) \in Nat
  BY <1>2
<1>4. \A i \in 1..Len(a) : (a \o b)[i] = a[i]
  BY <1>2
<1>5. \A i \in 1..Len(b) : (a \o b)[Len(a) + i] = b[i]
  <2> TAKE i \in 1..Len(b)
  <2>1. Len(a) + i \in 1..(Len(a) + Len(b)) /\ Len(a) + i > Len(a)
    BY <1>3
  <2>2. (a \o b)[Len(a) + i] = b[(Len(a) + i) - Len(a)]
    BY <1>2, <1>3, <2>1
  <2>3. QED
    BY <1>3, <2>2
<1>6. QED
  BY <1>3, <1>4, <1>5 DEF EsFlujo

LEMMA TieneAlFinal ==
    ASSUME NEW a, NEW o, EsFlujo(a), EsFlujo(o)
    PROVE  Tiene(a \o o, Len(a), o)
BY Concatenado DEF Tiene

LEMMA TieneAntes ==
    ASSUME NEW b, NEW c, NEW o, NEW d \in Nat, EsFlujo(b), EsFlujo(c), EsFlujo(o),
           Tiene(b, d, o)
    PROVE  Tiene(b \o c, d, o)
<1>1. Len(o) \in Nat
  BY LargoFlujo
<1>2. d + Len(o) <= Len(b) + Len(c)
  BY <1>1, Concatenado DEF Tiene
<1>3. ASSUME NEW i \in 1..Len(o) PROVE (b \o c)[d + i] = o[i]
  <2>1. d + i \in 1..Len(b)
    BY <1>1, Concatenado DEF Tiene
  <2>2. QED
    BY <2>1, Concatenado DEF Tiene
<1>4. QED
  BY <1>2, <1>3, Concatenado DEF Tiene

LEMMA BytesFlujo ==
    ASSUME NEW tipo, NEW v, NEW n \in Nat
    PROVE  /\ EsFlujo(Bytes(tipo, v, n)) /\ Len(Bytes(tipo, v, n)) = n
           /\ \A i \in 1..n : Bytes(tipo, v, n)[i] =
                 [tipo |-> tipo, ancho |-> n, byte |-> i, valor |-> v]
<1> DEFINE b(i) == [tipo |-> tipo, ancho |-> n, byte |-> i, valor |-> v]
           S == {b(i) : i \in 1..n}
<1>1. [i \in 1..n |-> b(i)] \in [1..n -> S]
  OBVIOUS
<1>2. [i \in 1..n |-> b(i)] \in Seq(S)
  <2> HIDE DEF S, b
  <2> DEFINE f == [i \in 1..n |-> b(i)]
  <2>1. f \in [1..n -> S]
    BY <1>1
  <2> HIDE DEF f
  <2>2. f \in Seq(S)
    BY <2>1
  <2>3. QED
    BY <2>2 DEF f
<1> DEFINE f == [i \in 1..n |-> b(i)]
<1>3. f \in Seq(S) /\ DOMAIN f = 1..n /\ \A i \in 1..n : f[i] = b(i)
  BY <1>2
<1>4. Len(f) = n
  <2> HIDE DEF f, S, b
  <2>1. Len(f) \in Nat /\ 1..Len(f) = 1..n
    BY <1>3, LenProperties
  <2>2. QED
    BY <2>1
<1>5. EsFlujo(f)
  BY <1>3 DEF EsFlujo
<1>6. f = Bytes(tipo, v, n)
  BY DEF Bytes
<1> HIDE DEF f
<1>7. QED
  BY <1>3, <1>4, <1>5, <1>6

\* What Leer takes at d, where the object is.
LEMMA LeerObjeto ==
    ASSUME NEW b, NEW d \in Nat, NEW tipo, NEW v, NEW n \in Nat \ {0}, NEW si_no,
           Tiene(b, d, Bytes(tipo, v, n))
    PROVE  Leer(b, d, tipo, n, si_no) = v
<1>1. d + n <= Len(b) /\ \A i \in 1..n : b[d + i] =
          [tipo |-> tipo, ancho |-> n, byte |-> i, valor |-> v]
  BY BytesFlujo DEF Tiene
<1>2. \A i \in 1..n : /\ b[d + i].tipo = tipo /\ b[d + i].ancho = n
                       /\ b[d + i].byte = i /\ b[d + i].valor = v
  <2> TAKE i \in 1..n
  <2> DEFINE x == b[d + i]
  <2>1. x = [tipo |-> tipo, ancho |-> n, byte |-> i, valor |-> v]
    BY <1>1
  <2> HIDE DEF x
  <2>2. x.tipo = tipo /\ x.ancho = n /\ x.byte = i /\ x.valor = v
    BY <2>1
  <2>3. QED
    BY <2>2 DEF x
<1>3. EsObjeto(b, d, tipo, n)
  BY <1>1, <1>2 DEF EsObjeto
<1>4. b[d + 1].valor = v
  BY <1>2
<1>5. QED
  BY <1>3, <1>4 DEF Leer

\* What one write and one read of a type have in common.
LEMMA Lectores ==
    ASSUME NEW b, NEW d \in Nat, NEW v
    PROVE  /\ Tiene(b, d, Entero(v)) => LeerEntero(b, d) = v
           /\ Tiene(b, d, Codigo(v)) => LeerCodigo(b, d) = v
           /\ Tiene(b, d, Booleano(v)) => LeerBooleano(b, d) = v
<1>1. AnchoInt \in Nat \ {0} /\ AnchoBool \in Nat \ {0}
  BY DEF AnchoInt, AnchoBool
<1>2. ASSUME Tiene(b, d, Entero(v)) PROVE LeerEntero(b, d) = v
  <2>1. Tiene(b, d, Bytes("int", v, AnchoInt))
    BY <1>2 DEF Entero
  <2>2. Leer(b, d, "int", AnchoInt, NoEnviado) = v
    BY <1>1, <2>1, LeerObjeto
  <2>3. QED
    BY <2>2 DEF LeerEntero
<1>3. ASSUME Tiene(b, d, Codigo(v)) PROVE LeerCodigo(b, d) = v
  <2>1. Tiene(b, d, Bytes("enum", v, AnchoInt))
    BY <1>3 DEF Codigo
  <2>2. Leer(b, d, "enum", AnchoInt, "?") = v
    BY <1>1, <2>1, LeerObjeto
  <2>3. QED
    BY <2>2 DEF LeerCodigo
<1>4. ASSUME Tiene(b, d, Booleano(v)) PROVE LeerBooleano(b, d) = v
  <2>1. Tiene(b, d, Bytes("bool", v, AnchoBool))
    BY <1>4 DEF Booleano
  <2>2. Leer(b, d, "bool", AnchoBool, TRUE) = v
    BY <1>1, <2>1, LeerObjeto
  <2>3. QED
    BY <2>2 DEF LeerBooleano
<1>5. QED
  BY <1>2, <1>3, <1>4

LEMMA Anchos ==
    ASSUME NEW v
    PROVE  /\ EsFlujo(Entero(v)) /\ Len(Entero(v)) = AnchoInt
           /\ EsFlujo(Codigo(v)) /\ Len(Codigo(v)) = AnchoInt
           /\ EsFlujo(Booleano(v)) /\ Len(Booleano(v)) = AnchoBool
           /\ AnchoInt \in Nat /\ AnchoBool \in Nat
<1>1. AnchoInt \in Nat /\ AnchoBool \in Nat
  BY DEF AnchoInt, AnchoBool
<1>2. EsFlujo(Entero(v)) /\ Len(Entero(v)) = AnchoInt
  BY <1>1, BytesFlujo DEF Entero
<1>3. EsFlujo(Codigo(v)) /\ Len(Codigo(v)) = AnchoInt
  BY <1>1, BytesFlujo DEF Codigo
<1>4. EsFlujo(Booleano(v)) /\ Len(Booleano(v)) = AnchoBool
  BY <1>1, BytesFlujo DEF Booleano
<1>5. QED
  BY <1>1, <1>2, <1>3, <1>4

\* Where an object is, its parts are.
LEMMA Partes ==
    ASSUME NEW b, NEW d \in Nat, NEW x, NEW y, EsFlujo(x), EsFlujo(y), Tiene(b, d, x \o y)
    PROVE  Tiene(b, d, x) /\ Tiene(b, d + Len(x), y)
<1> DEFINE o == x \o y
<1>1. /\ Len(x) \in Nat /\ Len(y) \in Nat /\ Len(o) = Len(x) + Len(y)
      /\ \A i \in 1..Len(x) : o[i] = x[i]
      /\ \A i \in 1..Len(y) : o[Len(x) + i] = y[i]
  BY Concatenado
<1>2. d + Len(o) <= Len(b) /\ \A i \in 1..Len(o) : b[d + i] = o[i]
  BY DEF Tiene
<1> HIDE DEF o
<1>3. d + Len(x) <= Len(b) /\ (d + Len(x)) + Len(y) <= Len(b)
  <2>1. Len(b) >= d + Len(x) + Len(y)
    BY <1>1, <1>2
  <2>2. d + Len(x) + Len(y) \in Nat
    BY <1>1
  <2>3. QED
    BY <1>1, <1>2
<1>4. ASSUME NEW i \in 1..Len(x) PROVE b[d + i] = x[i]
  <2>1. i \in 1..Len(o)
    BY <1>1
  <2>2. QED
    BY <1>1, <1>2, <2>1
<1>5. ASSUME NEW i \in 1..Len(y) PROVE b[(d + Len(x)) + i] = y[i]
  <2>1. Len(x) + i \in 1..Len(o) /\ (d + Len(x)) + i = d + (Len(x) + i)
    BY <1>1
  <2>2. QED
    BY <1>1, <1>2, <2>1
<1>6. QED
  BY <1>3, <1>4, <1>5 DEF Tiene

-----------------------------------------------------------------------------
(* Messages *)

LEMMA Resto ==
    ASSUME NEW a, NEW b, EsFlujo(a), EsFlujo(b)
    PROVE  SubSeq(a \o b, Len(a) + 1, Len(a \o b)) = b
<1>1. PICK S, T : a \in Seq(S) /\ b \in Seq(T)
  BY DEF EsFlujo
<1> DEFINE U == S \cup T
<1>2. a \in Seq(U) /\ b \in Seq(U)
  BY <1>1
<1> HIDE DEF U
<1>3. Len(a) \in Nat /\ Len(b) \in Nat /\ Len(a \o b) = Len(a) + Len(b) /\ a \o b \in Seq(U)
  BY <1>2
<1>4. CASE Len(b) = 0
  <2>1. b = <<>>
    BY <1>2, <1>4, EmptySeq
  <2>2. SubSeq(a \o b, Len(a) + 1, Len(a \o b)) = <<>>
    BY <1>3, <1>4, SubSeqEmpty
  <2>3. QED
    BY <2>1, <2>2
<1>5. CASE Len(b) > 0
  <2>1. /\ Len(a) + 1 \in Len(a) + 1..Len(a) + Len(b)
        /\ Len(a) + Len(b) \in Len(a) + 1..Len(a) + Len(b)
    BY <1>3, <1>5
  <2>2. SubSeq(a \o b, Len(a) + 1, Len(a) + Len(b))
          = SubSeq(b, (Len(a) + 1) - Len(a), (Len(a) + Len(b)) - Len(a))
    BY <1>2, <2>1, SubSeqOfConcat2
  <2>3. (Len(a) + 1) - Len(a) = 1 /\ (Len(a) + Len(b)) - Len(a) = Len(b)
    BY <1>3
  <2>4. SubSeq(b, 1, Len(b)) = b
    BY <1>2, SubSeqFull
  <2>5. QED
    BY <1>3, <2>2, <2>3, <2>4
<1>6. QED
  BY <1>3, <1>4, <1>5

LEMMA Asociativa ==
    ASSUME NEW a, NEW b, NEW c, EsFlujo(a), EsFlujo(b), EsFlujo(c)
    PROVE  (a \o b) \o c = a \o (b \o c)
<1>1. PICK S, T, V : a \in Seq(S) /\ b \in Seq(T) /\ c \in Seq(V)
  BY DEF EsFlujo
<1> DEFINE U == S \cup T \cup V
<1>2. a \in Seq(U) /\ b \in Seq(U) /\ c \in Seq(U)
  BY <1>1
<1> HIDE DEF U
<1>3. QED
  BY ONLY <1>2, ConcatAssociative

\* The same, for opaque streams.
TresFlujos(a, b, c) == EsFlujo(a) /\ EsFlujo(b) /\ EsFlujo(c)
Asocian(a, b, c) == (a \o b) \o c = a \o (b \o c)

LEMMA AsociativaDe ==
    ASSUME NEW a, NEW b, NEW c, TresFlujos(a, b, c)
    PROVE  Asocian(a, b, c)
<1>1. EsFlujo(a) /\ EsFlujo(b) /\ EsFlujo(c)
  BY DEF TresFlujos
<1>2. PICK S, T, V : a \in Seq(S) /\ b \in Seq(T) /\ c \in Seq(V)
  BY ONLY <1>1 DEF EsFlujo
<1> DEFINE U == S \cup T \cup V
<1>3. a \in Seq(U) /\ b \in Seq(U) /\ c \in Seq(U)
  BY ONLY <1>2
<1> HIDE DEF U
<1>4. (a \o b) \o c = a \o (b \o c)
  BY ONLY <1>3, ConcatAssociative
<1>5. QED
  BY ONLY <1>4 DEF Asocian

\* What is at the start of a stream.
LEMMA TieneAlPrincipio ==
    ASSUME NEW o, NEW c, EsFlujo(o), EsFlujo(c)
    PROVE  Tiene(o \o c, 0, o)
<1>1. Len(o) \in Nat /\ Len(c) \in Nat /\ Len(o \o c) = Len(o) + Len(c)
  BY Concatenado
<1>2. ASSUME NEW i \in 1..Len(o) PROVE (o \o c)[0 + i] = o[i]
  <2>1. 0 + i = i
    BY <1>1
  <2>2. (o \o c)[i] = o[i]
    BY Concatenado
  <2>3. QED
    BY <2>1, <2>2
<1>3. 0 + Len(o) <= Len(o \o c)
  BY <1>1
<1>4. QED
  BY <1>2, <1>3 DEF Tiene

\* What is in the middle of one.
LEMMA TieneEnMedio ==
    ASSUME NEW a, NEW o, NEW c, EsFlujo(a), EsFlujo(o), EsFlujo(c)
    PROVE  Tiene((a \o o) \o c, Len(a), o)
<1>1. EsFlujo(a \o o) /\ Len(a) \in Nat
  BY Concatenado
<1>2. Tiene(a \o o, Len(a), o)
  BY TieneAlFinal
<1>3. QED
  BY <1>1, <1>2, TieneAntes

\* Two objects, one after the other.
DosObjetos(a, x, y, c) ==
    LET f == (a \o (x \o y)) \o c IN Tiene(f, Len(a), x) /\ Tiene(f, Len(a) + Len(x), y)

LEMMA DosSeguidos ==
    ASSUME NEW a, NEW x, NEW y, NEW c, EsFlujo(a), EsFlujo(x), EsFlujo(y), EsFlujo(c)
    PROVE  DosObjetos(a, x, y, c)
<1>1. EsFlujo(a \o x) /\ Len(a \o x) = Len(a) + Len(x) /\ EsFlujo(y \o c)
      /\ EsFlujo((a \o x) \o y)
  BY Concatenado
<1>2. (a \o (x \o y)) \o c = ((a \o x) \o y) \o c
  BY Asociativa
<1>3. ((a \o x) \o y) \o c = (a \o x) \o (y \o c)
  <2> DEFINE u == a \o x
  <2>1. EsFlujo(u)
    BY <1>1
  <2> HIDE DEF u
  <2>2. (u \o y) \o c = u \o (y \o c)
    <3>1. TresFlujos(u, y, c)
      BY ONLY EsFlujo(y), EsFlujo(c), <2>1 DEF TresFlujos
    <3>2. Asocian(u, y, c)
      BY ONLY <3>1, AsociativaDe
    <3>3. QED
      BY ONLY <3>2 DEF Asocian
  <2>3. QED
    BY <2>2 DEF u
<1>4. Tiene((a \o x) \o (y \o c), Len(a), x)
  BY <1>1, TieneEnMedio
<1>5. Tiene(((a \o x) \o y) \o c, Len(a) + Len(x), y)
  <2>1. Tiene(((a \o x) \o y) \o c, Len(a \o x), y)
    BY <1>1, TieneEnMedio
  <2>2. QED
    BY <1>1, <2>1
<1>6. QED
  BY <1>2, <1>3, <1>4, <1>5 DEF DosObjetos

\* A code sent on its own is read whole, and nothing of what follows it.
THEOREM CodigoEntero ==
    ASSUME NEW codigo, NEW resto, EsFlujo(resto)
    PROVE  /\ Operacion(Codigo(codigo) \o resto) = codigo
           /\ TrasOperacion(Codigo(codigo) \o resto) = resto
<1>1. EsFlujo(Codigo(codigo)) /\ Len(Codigo(codigo)) = AnchoInt
  BY Anchos
<1>2. Tiene(Codigo(codigo) \o resto, 0, Codigo(codigo))
  BY <1>1, TieneAlPrincipio
<1>3. LeerCodigo(Codigo(codigo) \o resto, 0) = codigo
  BY <1>2, Lectores
<1>4. SubSeq(Codigo(codigo) \o resto, AnchoInt + 1, Len(Codigo(codigo) \o resto)) = resto
  BY <1>1, Resto
<1>5. QED
  BY <1>3, <1>4 DEF Operacion, TrasOperacion

\* A message is read as it was written, whatever its code and its payload and however
\* much of the next messages has already arrived: the reader takes the code and the
\* payload and leaves exactly what follows.
THEOREM MensajeEntero ==
    ASSUME NEW codigo, NEW stream, NEW resto, EsFlujo(stream), EsFlujo(resto)
    PROVE  LET f == Paquete(codigo, stream) \o resto IN
           Operacion(f) = codigo /\ Buffer(f) = stream /\ TrasPaquete(f) = resto
<1> DEFINE c == Codigo(codigo)
           n == Entero(Len(stream))
           h == c \o n
           p == Paquete(codigo, stream)
           f == p \o resto
<1>1. /\ EsFlujo(c) /\ Len(c) = AnchoInt /\ EsFlujo(n) /\ Len(n) = AnchoInt
      /\ AnchoInt \in Nat
  BY Anchos
<1>2. p = h \o stream
  BY DEF Paquete
<1> HIDE DEF c, n, p
<1>3. EsFlujo(h) /\ Len(h) = AnchoInt + AnchoInt
  BY <1>1, Concatenado
<1>4. EsFlujo(p) /\ Len(p) = Len(h) + Len(stream) /\ Len(stream) \in Nat
  BY <1>2, <1>3, Concatenado
<1>5. EsFlujo(stream \o resto) /\ f = h \o (stream \o resto)
  BY <1>2, <1>3, Concatenado, Asociativa
<1>6. Tiene(h, 0, c) /\ Tiene(h, AnchoInt, n)
  BY <1>1, TieneAlPrincipio, TieneAlFinal
<1>7. Tiene(f, 0, c) /\ Tiene(f, AnchoInt, n)
  <2>1. Tiene(h \o (stream \o resto), 0, c)
    BY <1>1, <1>3, <1>5, <1>6, TieneAntes
  <2>2. Tiene(h \o (stream \o resto), AnchoInt, n)
    BY <1>1, <1>3, <1>5, <1>6, TieneAntes
  <2>3. QED
    BY <1>5, <2>1, <2>2
<1>8. LeerCodigo(f, 0) = codigo
  BY <1>7, Lectores DEF c
<1>9. LeerEntero(f, AnchoInt) = Len(stream)
  BY <1>1, <1>7, Lectores DEF n
<1>10. SubSeq(f, Len(p) + 1, Len(f)) = resto
  BY <1>4, Resto
<1>11. SubSeq(f, Len(h) + 1, Len(h) + Len(stream)) = stream
  <2>1. CASE Len(stream) = 0
    <3>1. SubSeq(f, Len(h) + 1, Len(h) + Len(stream)) = <<>>
      <4>1. /\ Len(h) + 1 \in Int /\ Len(h) + Len(stream) \in Int
            /\ Len(h) + Len(stream) < Len(h) + 1
        BY <1>1, <1>3, <2>1
      <4>2. QED
        BY <4>1, SubSeqEmpty
    <3>2. stream = <<>>
      BY <2>1, EmptySeq DEF EsFlujo
    <3>3. QED
      BY <3>1, <3>2
  <2>2. CASE Len(stream) > 0
    <3>1. SubSeq(p \o resto, Len(h) + 1, Len(p)) = SubSeq(p, Len(h) + 1, Len(p))
      <4>1. PICK S, T : p \in Seq(S) /\ resto \in Seq(T)
        BY <1>4 DEF EsFlujo
      <4> DEFINE U == S \cup T
      <4>2. p \in Seq(U) /\ resto \in Seq(U)
        BY <4>1
      <4> HIDE DEF U, f, h
      <4>3. Len(h) + 1 \in 1..Len(p) /\ Len(p) \in 1..Len(p)
        BY <1>1, <1>3, <1>4, <2>2
      <4>4. QED
        BY <4>2, <4>3, SubSeqOfConcat1
    <3>2. SubSeq(p, Len(h) + 1, Len(p)) = stream
      BY <1>2, <1>3, Resto
    <3>3. QED
      BY <1>4, <3>1, <3>2
  <2>3. QED
    BY <1>4, <2>1, <2>2
<1> HIDE DEF f, h
<1>12. Buffer(f) = stream
  <2>1. 2 * AnchoInt + 1 = Len(h) + 1 /\ 2 * AnchoInt + Len(stream) = Len(h) + Len(stream)
    BY <1>1, <1>3, <1>4
  <2>2. QED
    BY <1>9, <1>11, <2>1 DEF Buffer
<1>13. TrasPaquete(f) = resto
  <2>1. 2 * AnchoInt + 1 + Len(stream) = Len(p) + 1
    BY <1>1, <1>3, <1>4
  <2>2. QED
    BY <1>9, <1>10, <2>1 DEF TrasPaquete
<1>14. QED
  BY <1>8, <1>12, <1>13 DEF Operacion, f, p

-----------------------------------------------------------------------------
(* The objects of a message *)

\* A page is read where it was written, for every table and number; the null pointer
\* of a message that carries no page is read as the page of -1 (recibir_pagina).
THEOREM PaginaEntera ==
    ASSUME NEW a, NEW b, NEW antes, NEW tras, EsFlujo(antes), EsFlujo(tras)
    PROVE  LET lugar == Len(antes)
               f(pagina) == (antes \o empaquetar_pagina(pagina)) \o tras IN
           /\ <<a, b>> # Nulo /\ deserializar_pagina(f(<<a, b>>), lugar) = <<a, b>>
           /\ deserializar_pagina(f(Nulo), lugar) = <<-1, -1>>
<1>1. ASSUME NEW x, NEW y
      PROVE  deserializar_pagina((antes \o (Entero(x) \o Entero(y))) \o tras, Len(antes))
                 = <<x, y>>
  <2>1. EsFlujo(Entero(x)) /\ Len(Entero(x)) = AnchoInt /\ EsFlujo(Entero(y))
    BY Anchos
  <2>2. DosObjetos(antes, Entero(x), Entero(y), tras)
    BY <2>1, DosSeguidos
  <2>3. Len(antes) \in Nat /\ Len(antes) + AnchoInt \in Nat
    BY LargoFlujo, Anchos
  <2>4. QED
    BY <2>1, <2>2, <2>3, Lectores DEF DosObjetos, deserializar_pagina
<1>2. <<a, b>> # Nulo
  BY DEF Nulo
<1>3. /\ empaquetar_pagina(<<a, b>>) = Entero(a) \o Entero(b)
      /\ empaquetar_pagina(Nulo) = Entero(-1) \o Entero(-1)
  BY <1>2 DEF empaquetar_pagina
<1>4. QED
  BY <1>1, <1>2, <1>3

\* A segment is read as it was written, and the next object where it ended.
THEOREM SegmentoEntero ==
    ASSUME NEW n, NEW t, NEW p, NEW antes, NEW tras, EsFlujo(antes), EsFlujo(tras)
    PROVE  LET s == [nro_segmento |-> n, tamanio_segmento |-> t, indice_tabla_paginas |-> p]
               f == (antes \o empaquetar_segmento(s)) \o tras IN
           deserializar_segmento(f, Len(antes))
               = [valor |-> s, d |-> Len(antes \o empaquetar_segmento(s))]
<1> DEFINE s == [nro_segmento |-> n, tamanio_segmento |-> t, indice_tabla_paginas |-> p]
           o == empaquetar_segmento(s)
           f == (antes \o o) \o tras
           d == Len(antes)
<1>1. o = (Entero(n) \o Entero(t)) \o Entero(p)
  BY DEF empaquetar_segmento
<1> HIDE DEF o
<1>2. /\ EsFlujo(Entero(n)) /\ EsFlujo(Entero(t)) /\ EsFlujo(Entero(p))
      /\ Len(Entero(n)) = AnchoInt /\ Len(Entero(t)) = AnchoInt /\ Len(Entero(p)) = AnchoInt
      /\ AnchoInt \in Nat
  BY Anchos
<1>3. /\ EsFlujo(Entero(n) \o Entero(t)) /\ Len(Entero(n) \o Entero(t)) = AnchoInt + AnchoInt
  BY <1>2, Concatenado
<1>4. EsFlujo(o) /\ Len(o) = AnchoInt + AnchoInt + AnchoInt
  BY <1>1, <1>2, <1>3, Concatenado
<1>5. Tiene(f, d, o) /\ d \in Nat /\ Len(antes \o o) = d + Len(o)
  BY <1>4, TieneEnMedio, Concatenado
<1> HIDE DEF f, d
<1>6. Tiene(f, d, Entero(n) \o Entero(t)) /\ Tiene(f, d + (AnchoInt + AnchoInt), Entero(p))
  BY <1>1, <1>2, <1>3, <1>5, Partes
<1>7. Tiene(f, d, Entero(n)) /\ Tiene(f, d + AnchoInt, Entero(t))
  BY <1>2, <1>5, <1>6, Partes
<1>8. d + (AnchoInt + AnchoInt) = d + 2 * AnchoInt
  BY <1>2, <1>5
<1>9. /\ LeerEntero(f, d) = n /\ LeerEntero(f, d + AnchoInt) = t
      /\ LeerEntero(f, d + 2 * AnchoInt) = p
  <2>1. d + AnchoInt \in Nat /\ d + 2 * AnchoInt \in Nat
    BY <1>2, <1>5
  <2>2. Tiene(f, d + 2 * AnchoInt, Entero(p))
    BY <1>6, <1>8
  <2>3. QED
    BY <1>5, <1>7, <2>1, <2>2, Lectores
<1>10. d + 3 * AnchoInt = Len(antes \o o)
  BY <1>2, <1>4, <1>5
<1>11. QED
  BY <1>9, <1>10 DEF deserializar_segmento, f, d, o

-----------------------------------------------------------------------------
(* The fixed fields of the PCB *)

LEMMA Registros4 ==
    ASSUME NEW b, NEW d \in Nat, NEW r, Tiene(b, d, empaquetar_registros(r))
    PROVE  /\ LeerEntero(b, d) = r.AX /\ LeerEntero(b, d + AnchoInt) = r.BX
           /\ LeerEntero(b, d + 2 * AnchoInt) = r.CX /\ LeerEntero(b, d + 3 * AnchoInt) = r.DX
<1> DEFINE x == Entero(r.AX)
           y == Entero(r.BX)
           z == Entero(r.CX)
           w == Entero(r.DX)
<1>1. /\ EsFlujo(x) /\ Len(x) = AnchoInt /\ EsFlujo(y) /\ Len(y) = AnchoInt
      /\ EsFlujo(z) /\ Len(z) = AnchoInt /\ EsFlujo(w) /\ AnchoInt \in Nat
  BY Anchos
<1>2. Tiene(b, d, ((x \o y) \o z) \o w)
  BY DEF empaquetar_registros
<1> HIDE DEF x, y, z, w
<1>3. EsFlujo(x \o y) /\ Len(x \o y) = AnchoInt + AnchoInt
  BY <1>1, Concatenado
<1>4. EsFlujo((x \o y) \o z) /\ Len((x \o y) \o z) = AnchoInt + AnchoInt + AnchoInt
  BY <1>1, <1>3, Concatenado
<1>5. /\ Tiene(b, d, (x \o y) \o z) /\ Tiene(b, d + (AnchoInt + AnchoInt + AnchoInt), w)
  BY <1>1, <1>2, <1>4, Partes
<1>6. Tiene(b, d, x \o y) /\ Tiene(b, d + (AnchoInt + AnchoInt), z)
  BY <1>1, <1>3, <1>5, Partes
<1>7. Tiene(b, d, x) /\ Tiene(b, d + AnchoInt, y)
  BY <1>1, <1>6, Partes
<1>8. /\ d + (AnchoInt + AnchoInt) = d + 2 * AnchoInt
      /\ d + (AnchoInt + AnchoInt + AnchoInt) = d + 3 * AnchoInt
      /\ d + AnchoInt \in Nat /\ d + 2 * AnchoInt \in Nat /\ d + 3 * AnchoInt \in Nat
  BY <1>1
<1>9. Tiene(b, d + 2 * AnchoInt, z) /\ Tiene(b, d + 3 * AnchoInt, w)
  BY <1>5, <1>6, <1>8
<1>10. QED
  BY <1>7, <1>8, <1>9, Lectores DEF x, y, z, w

LEMMA PaginaLeida ==
    ASSUME NEW b, NEW d \in Nat, NEW x, NEW y, Tiene(b, d, Entero(x) \o Entero(y))
    PROVE  deserializar_pagina(b, d) = <<x, y>>
<1>1. /\ EsFlujo(Entero(x)) /\ Len(Entero(x)) = AnchoInt /\ EsFlujo(Entero(y))
      /\ AnchoInt \in Nat
  BY Anchos
<1>2. Tiene(b, d, Entero(x)) /\ Tiene(b, d + AnchoInt, Entero(y))
  BY <1>1, Partes
<1>3. QED
  BY <1>1, <1>2, Lectores DEF deserializar_pagina

LEMMA RegistrosFlujo ==
    ASSUME NEW r
    PROVE  EsFlujo(empaquetar_registros(r)) /\ Len(empaquetar_registros(r)) = 4 * AnchoInt
<1> DEFINE x == Entero(r.AX)
           y == Entero(r.BX)
           z == Entero(r.CX)
           w == Entero(r.DX)
<1>1. /\ EsFlujo(x) /\ Len(x) = AnchoInt /\ EsFlujo(y) /\ Len(y) = AnchoInt
      /\ EsFlujo(z) /\ Len(z) = AnchoInt /\ EsFlujo(w) /\ Len(w) = AnchoInt /\ AnchoInt \in Nat
  BY Anchos
<1>2. empaquetar_registros(r) = ((x \o y) \o z) \o w
  BY DEF empaquetar_registros
<1> HIDE DEF x, y, z, w
<1>3. EsFlujo(x \o y) /\ Len(x \o y) = AnchoInt + AnchoInt
  BY <1>1, Concatenado
<1>4. EsFlujo((x \o y) \o z) /\ Len((x \o y) \o z) = AnchoInt + AnchoInt + AnchoInt
  BY <1>1, <1>3, Concatenado
<1>5. /\ EsFlujo(((x \o y) \o z) \o w)
      /\ Len(((x \o y) \o z) \o w) = AnchoInt + AnchoInt + AnchoInt + AnchoInt
  <2>1. PICK t : t = (x \o y) \o z
    OBVIOUS
  <2>2. EsFlujo(t) /\ Len(t) = AnchoInt + AnchoInt + AnchoInt
    BY ONLY <1>4, <2>1
  <2>3. EsFlujo(t \o w) /\ Len(t \o w) = AnchoInt + AnchoInt + AnchoInt + AnchoInt
    BY ONLY <1>1, <2>2, Concatenado
  <2> QED BY ONLY <2>1, <2>3
<1>6. AnchoInt + AnchoInt + AnchoInt + AnchoInt = 4 * AnchoInt
  BY <1>1
<1>7. QED
  BY <1>2, <1>5, <1>6

LEMMA PaginaFlujo == ASSUME NEW p PROVE EsFlujo(empaquetar_pagina(p))
<1>1. ASSUME NEW x, NEW y PROVE EsFlujo(Entero(x) \o Entero(y))
  BY Anchos, Concatenado
<1>2. QED
  BY <1>1 DEF empaquetar_pagina

\* Nothing of what is written first changes when more is written.
LEMMA Sigue ==
    ASSUME NEW a, NEW o, NEW n \in Nat, EsFlujo(a), EsFlujo(o), Len(a) = n
    PROVE  /\ EsFlujo(a \o o) /\ Len(a \o o) = n + Len(o) /\ Tiene(a \o o, n, o)
           /\ Prefijo(a, a \o o)
<1>1. EsFlujo(a \o o) /\ Len(a \o o) = n + Len(o) /\ Tiene(a \o o, n, o)
  BY Concatenado, TieneAlFinal
<1>2. Len(a) <= Len(a \o o)
  BY <1>1, LargoFlujo
<1>3. QED
  BY <1>1, <1>2, Concatenado DEF Prefijo

LEMMA PrefijoTransitivo ==
    ASSUME NEW a, NEW b, NEW c, EsFlujo(a), EsFlujo(b), EsFlujo(c), Prefijo(a, b), Prefijo(b, c)
    PROVE  Prefijo(a, c)
<1>1. Len(a) \in Nat /\ Len(b) \in Nat /\ Len(c) \in Nat
  BY LargoFlujo
<1>2. QED
  BY <1>1 DEF Prefijo

LEMMA PrefijoTiene ==
    ASSUME NEW a, NEW b, NEW o, NEW d \in Nat, EsFlujo(a), EsFlujo(b), EsFlujo(o),
           Tiene(a, d, o), Prefijo(a, b)
    PROVE  Tiene(b, d, o)
<1>1. Len(a) \in Nat /\ Len(b) \in Nat /\ Len(o) \in Nat
  BY LargoFlujo
<1>2. d + Len(o) <= Len(b)
  BY <1>1 DEF Tiene, Prefijo
<1>3. ASSUME NEW i \in 1..Len(o) PROVE b[d + i] = o[i]
  <2>1. d + i \in 1..Len(a)
    BY <1>1 DEF Tiene
  <2>2. QED
    BY <2>1 DEF Tiene, Prefijo
<1>4. QED
  BY <1>2, <1>3 DEF Tiene

\* Each fixed field of a PCB is read from where it was written, whatever the rest of the
\* message is: recibir_pcb takes them in the order in which enviar_pcb puts them.  The page
\* of a PCB without a page fault arrives as that of -1.
THEOREM CamposFijosEnteros ==
    ASSUME NEW pcb, NEW resto, EsFlujo(resto), NEW instrucciones, NEW tabla
    PROVE  deserializar_campos_fijos(campos_fijos_pcb(pcb) \o resto, instrucciones, tabla) =
             [pid |-> pcb.pid, program_counter |-> pcb.program_counter,
              estado |-> pcb.estado, socket_consola |-> pcb.socket_consola,
              interrupcion |-> pcb.interrupcion, con_desalojo |-> pcb.con_desalojo,
              page_fault |-> pcb.page_fault, segmentation_fault |-> pcb.segmentation_fault,
              registros |-> [AX |-> pcb.registros.AX, BX |-> pcb.registros.BX,
                             CX |-> pcb.registros.CX, DX |-> pcb.registros.DX],
              pagina_fault |-> IF pcb.pagina_fault = Nulo THEN <<-1, -1>>
                               ELSE <<pcb.pagina_fault[1], pcb.pagina_fault[2]>>,
              instrucciones |-> instrucciones, tabla_de_segmentos |-> tabla,
              tamanio_segmentos |-> Nulo]
<1> DEFINE o1 == Entero(pcb.pid)
           o2 == Entero(pcb.program_counter)
           o3 == Codigo(pcb.estado)
           o4 == Entero(pcb.socket_consola)
           o5 == Booleano(pcb.interrupcion)
           o6 == Booleano(pcb.con_desalojo)
           o7 == Booleano(pcb.page_fault)
           o8 == Booleano(pcb.segmentation_fault)
           o9 == empaquetar_registros(pcb.registros)
           o10 == empaquetar_pagina(pcb.pagina_fault)
           p1 == o1
           p2 == p1 \o o2
           p3 == p2 \o o3
           p4 == p3 \o o4
           p5 == p4 \o o5
           p6 == p5 \o o6
           p7 == p6 \o o7
           p8 == p7 \o o8
           p9 == p8 \o o9
           p10 == p9 \o o10
           f == p10 \o resto
<1>1. campos_fijos_pcb(pcb) = p10
  BY DEF campos_fijos_pcb
<1>2. /\ AnchoInt \in Nat /\ AnchoBool \in Nat
      /\ LugarFlags = 4 * AnchoInt /\ LugarRegistros = LugarFlags + 4 * AnchoBool
      /\ LugarPagina = LugarRegistros + 4 * AnchoInt
  BY Anchos DEF LugarFlags, LugarRegistros, LugarPagina
<1>3. /\ EsFlujo(o1) /\ Len(o1) = AnchoInt
      /\ EsFlujo(o2) /\ Len(o2) = AnchoInt
      /\ EsFlujo(o3) /\ Len(o3) = AnchoInt
      /\ EsFlujo(o4) /\ Len(o4) = AnchoInt
      /\ EsFlujo(o5) /\ Len(o5) = AnchoBool
      /\ EsFlujo(o6) /\ Len(o6) = AnchoBool
      /\ EsFlujo(o7) /\ Len(o7) = AnchoBool
      /\ EsFlujo(o8) /\ Len(o8) = AnchoBool
      /\ EsFlujo(o9) /\ Len(o9) = 4 * AnchoInt
      /\ EsFlujo(o10)
  BY Anchos, RegistrosFlujo, PaginaFlujo
<1> HIDE DEF o1, o2, o3, o4, o5, o6, o7, o8, o9, o10
<1>4. EsFlujo(p1) /\ Len(p1) = AnchoInt /\ Tiene(p1, 0, o1)
  <2>1. Len(o1) \in Nat /\ \A i \in 1..Len(o1) : 0 + i = i
    BY <1>2, <1>3
  <2>2. QED
    BY <1>3, <2>1 DEF Tiene
<1> HIDE DEF p1
<1>5. EsFlujo(p2) /\ Len(p2) = 2 * AnchoInt /\ Tiene(p2, AnchoInt, o2) /\ Prefijo(p1, p2)
  <2>1. AnchoInt \in Nat /\ (AnchoInt) + Len(o2) = 2 * AnchoInt
    BY <1>2, <1>3
  <2>2. QED
    BY <1>3, <1>4, <2>1, Sigue
<1> HIDE DEF p2
<1>6. EsFlujo(p3) /\ Len(p3) = 3 * AnchoInt /\ Tiene(p3, 2 * AnchoInt, o3) /\ Prefijo(p2, p3)
  <2>1. 2 * AnchoInt \in Nat /\ (2 * AnchoInt) + Len(o3) = 3 * AnchoInt
    BY <1>2, <1>3
  <2>2. QED
    BY <1>3, <1>5, <2>1, Sigue
<1> HIDE DEF p3
<1>7. EsFlujo(p4) /\ Len(p4) = LugarFlags /\ Tiene(p4, 3 * AnchoInt, o4) /\ Prefijo(p3, p4)
  <2>1. 3 * AnchoInt \in Nat /\ (3 * AnchoInt) + Len(o4) = LugarFlags
    BY <1>2, <1>3
  <2>2. QED
    BY <1>3, <1>6, <2>1, Sigue
<1> HIDE DEF p4
<1>8. EsFlujo(p5) /\ Len(p5) = LugarFlags + AnchoBool /\ Tiene(p5, LugarFlags, o5)
      /\ Prefijo(p4, p5)
  <2>1. LugarFlags \in Nat /\ (LugarFlags) + Len(o5) = LugarFlags + AnchoBool
    BY <1>2, <1>3
  <2>2. QED
    BY <1>3, <1>7, <2>1, Sigue
<1> HIDE DEF p5
<1>9. EsFlujo(p6) /\ Len(p6) = LugarFlags + 2 * AnchoBool
      /\ Tiene(p6, LugarFlags + AnchoBool, o6) /\ Prefijo(p5, p6)
  <2>1. LugarFlags + AnchoBool \in Nat
        /\ (LugarFlags + AnchoBool) + Len(o6) = LugarFlags + 2 * AnchoBool
    BY <1>2, <1>3
  <2>2. QED
    BY <1>3, <1>8, <2>1, Sigue
<1> HIDE DEF p6
<1>10. EsFlujo(p7) /\ Len(p7) = LugarFlags + 3 * AnchoBool
      /\ Tiene(p7, LugarFlags + 2 * AnchoBool, o7) /\ Prefijo(p6, p7)
  <2>1. LugarFlags + 2 * AnchoBool \in Nat
        /\ (LugarFlags + 2 * AnchoBool) + Len(o7) = LugarFlags + 3 * AnchoBool
    BY <1>2, <1>3
  <2>2. QED
    BY <1>3, <1>9, <2>1, Sigue
<1> HIDE DEF p7
<1>11. EsFlujo(p8) /\ Len(p8) = LugarRegistros /\ Tiene(p8, LugarFlags + 3 * AnchoBool, o8)
      /\ Prefijo(p7, p8)
  <2>1. LugarFlags + 3 * AnchoBool \in Nat
        /\ (LugarFlags + 3 * AnchoBool) + Len(o8) = LugarRegistros
    BY <1>2, <1>3
  <2>2. QED
    BY <1>3, <1>10, <2>1, Sigue
<1> HIDE DEF p8
<1>12. EsFlujo(p9) /\ Len(p9) = LugarPagina /\ Tiene(p9, LugarRegistros, o9) /\ Prefijo(p8, p9)
  <2>1. LugarRegistros \in Nat /\ (LugarRegistros) + Len(o9) = LugarPagina
    BY <1>2, <1>3
  <2>2. QED
    BY <1>3, <1>11, <2>1, Sigue
<1> HIDE DEF p9
<1>13. EsFlujo(p10) /\ Tiene(p10, LugarPagina, o10) /\ Prefijo(p9, p10)
  <2>1. LugarPagina \in Nat
    BY <1>2
  <2>2. QED
    BY <1>3, <1>12, <2>1, Sigue
<1> HIDE DEF p10
<1>14. EsFlujo(f) /\ Prefijo(p10, f)
  <2>1. Len(p10) \in Nat
    BY <1>13, LargoFlujo
  <2>2. QED
    BY <1>13, <2>1, Sigue
<1> HIDE DEF f
<1>15. Prefijo(p9, f)
  BY <1>12, <1>13, <1>14, <1>14, PrefijoTransitivo
<1>16. Prefijo(p8, f)
  BY <1>11, <1>12, <1>15, <1>14, PrefijoTransitivo
<1>17. Prefijo(p7, f)
  BY <1>10, <1>11, <1>16, <1>14, PrefijoTransitivo
<1>18. Prefijo(p6, f)
  BY <1>9, <1>10, <1>17, <1>14, PrefijoTransitivo
<1>19. Prefijo(p5, f)
  BY <1>8, <1>9, <1>18, <1>14, PrefijoTransitivo
<1>20. Prefijo(p4, f)
  BY <1>7, <1>8, <1>19, <1>14, PrefijoTransitivo
<1>21. Prefijo(p3, f)
  BY <1>6, <1>7, <1>20, <1>14, PrefijoTransitivo
<1>22. Prefijo(p2, f)
  BY <1>5, <1>6, <1>21, <1>14, PrefijoTransitivo
<1>23. Prefijo(p1, f)
  BY <1>4, <1>5, <1>22, <1>14, PrefijoTransitivo
<1>24. 0 \in Nat /\ Tiene(f, 0, o1)
  <2>1. 0 \in Nat
    BY <1>2
  <2>2. QED
    BY <1>3, <1>4, <1>23, <1>14, <2>1, PrefijoTiene
<1>25. AnchoInt \in Nat /\ Tiene(f, AnchoInt, o2)
  <2>1. AnchoInt \in Nat
    BY <1>2
  <2>2. QED
    BY <1>3, <1>5, <1>22, <1>14, <2>1, PrefijoTiene
<1>26. 2 * AnchoInt \in Nat /\ Tiene(f, 2 * AnchoInt, o3)
  <2>1. 2 * AnchoInt \in Nat
    BY <1>2
  <2>2. QED
    BY <1>3, <1>6, <1>21, <1>14, <2>1, PrefijoTiene
<1>27. 3 * AnchoInt \in Nat /\ Tiene(f, 3 * AnchoInt, o4)
  <2>1. 3 * AnchoInt \in Nat
    BY <1>2
  <2>2. QED
    BY <1>3, <1>7, <1>20, <1>14, <2>1, PrefijoTiene
<1>28. LugarFlags \in Nat /\ Tiene(f, LugarFlags, o5)
  <2>1. LugarFlags \in Nat
    BY <1>2
  <2>2. QED
    BY <1>3, <1>8, <1>19, <1>14, <2>1, PrefijoTiene
<1>29. LugarFlags + AnchoBool \in Nat /\ Tiene(f, LugarFlags + AnchoBool, o6)
  <2>1. LugarFlags + AnchoBool \in Nat
    BY <1>2
  <2>2. QED
    BY <1>3, <1>9, <1>18, <1>14, <2>1, PrefijoTiene
<1>30. LugarFlags + 2 * AnchoBool \in Nat /\ Tiene(f, LugarFlags + 2 * AnchoBool, o7)
  <2>1. LugarFlags + 2 * AnchoBool \in Nat
    BY <1>2
  <2>2. QED
    BY <1>3, <1>10, <1>17, <1>14, <2>1, PrefijoTiene
<1>31. LugarFlags + 3 * AnchoBool \in Nat /\ Tiene(f, LugarFlags + 3 * AnchoBool, o8)
  <2>1. LugarFlags + 3 * AnchoBool \in Nat
    BY <1>2
  <2>2. QED
    BY <1>3, <1>11, <1>16, <1>14, <2>1, PrefijoTiene
<1>32. LugarRegistros \in Nat /\ Tiene(f, LugarRegistros, o9)
  <2>1. LugarRegistros \in Nat
    BY <1>2
  <2>2. QED
    BY <1>3, <1>12, <1>15, <1>14, <2>1, PrefijoTiene
<1>33. LugarPagina \in Nat /\ Tiene(f, LugarPagina, o10)
  <2>1. LugarPagina \in Nat
    BY <1>2
  <2>2. QED
    BY <1>3, <1>13, <1>14, <1>14, <2>1, PrefijoTiene
<1>34. /\ LeerEntero(f, 0) = pcb.pid /\ LeerEntero(f, AnchoInt) = pcb.program_counter
       /\ LeerCodigo(f, 2 * AnchoInt) = pcb.estado
       /\ LeerEntero(f, 3 * AnchoInt) = pcb.socket_consola
  BY <1>24, <1>25, <1>26, <1>27, Lectores DEF o1, o2, o3, o4
<1>35. /\ LeerBooleano(f, LugarFlags) = pcb.interrupcion
       /\ LeerBooleano(f, LugarFlags + AnchoBool) = pcb.con_desalojo
       /\ LeerBooleano(f, LugarFlags + 2 * AnchoBool) = pcb.page_fault
       /\ LeerBooleano(f, LugarFlags + 3 * AnchoBool) = pcb.segmentation_fault
  BY <1>28, <1>29, <1>30, <1>31, Lectores DEF o5, o6, o7, o8
<1>36. /\ LeerEntero(f, LugarRegistros) = pcb.registros.AX
       /\ LeerEntero(f, LugarRegistros + AnchoInt) = pcb.registros.BX
       /\ LeerEntero(f, LugarRegistros + 2 * AnchoInt) = pcb.registros.CX
       /\ LeerEntero(f, LugarRegistros + 3 * AnchoInt) = pcb.registros.DX
  BY <1>32, Registros4 DEF o9
<1>37. deserializar_pagina(f, LugarPagina) =
         IF pcb.pagina_fault = Nulo THEN <<-1, -1>>
         ELSE <<pcb.pagina_fault[1], pcb.pagina_fault[2]>>
  <2>1. CASE pcb.pagina_fault = Nulo
    <3>1. o10 = Entero(-1) \o Entero(-1)
      BY <2>1 DEF o10, empaquetar_pagina
    <3>2. QED
      BY <1>33, <2>1, <3>1, PaginaLeida
  <2>2. CASE pcb.pagina_fault # Nulo
    <3>1. o10 = Entero(pcb.pagina_fault[1]) \o Entero(pcb.pagina_fault[2])
      BY <2>2 DEF o10, empaquetar_pagina
    <3>2. QED
      BY <1>33, <2>2, <3>1, PaginaLeida
  <2>3. QED
    BY <2>1, <2>2
<1>38. campos_fijos_pcb(pcb) \o resto = f
  BY <1>1 DEF f
<1>39. QED
  BY <1>34, <1>35, <1>36, <1>37, <1>38 DEF deserializar_campos_fijos

---------------------------------------------------------------------------
(* Lists of any length *)

\* Induction by the set of the numbers a fact holds of.
LEMMA Induccion ==
    ASSUME NEW S, 0 \in S, \A n \in Nat : n \in S => n + 1 \in S
    PROVE  \A n \in Nat : n \in S
<1> DEFINE T == {n \in Nat : n \notin S}
           R == {z \in Nat \X Nat : z[1] < z[2]}
<1>1. IsWellFoundedOn(R, Nat)
  <2>1. OpToRel(<, Nat) = R
    BY DEF OpToRel
  <2> QED BY <2>1, NatLessThanWellFounded
<1>2. SUFFICES ASSUME T # {} PROVE FALSE
  OBVIOUS
<1>3. PICK m \in T : \A n \in T : <<n, m>> \notin R
  <2>1. T \subseteq Nat
    OBVIOUS
  <2> HIDE DEF T, R
  <2> QED BY <1>1, <1>2, <2>1, WFMin
<1>4. m # 0
  OBVIOUS
<1>5. m - 1 \in Nat /\ m - 1 < m
  BY <1>4
<1>6. m - 1 \in S
  BY <1>3, <1>5
<1>7. (m - 1) + 1 \in S /\ (m - 1) + 1 = m
  BY <1>5, <1>6
<1> QED BY <1>7

\* FlattenSeq puts each sequence after the ones before it.
Aplanada(s, f) ==
    /\ DOMAIN f = 1..Len(s)
    /\ \A i \in 1..Len(s) : f[i] = IF i = 1 THEN s[i] ELSE f[i - 1] \o s[i]

LEMMA HayAplanada ==
    ASSUME NEW S, NEW s \in Seq(Seq(S))
    PROVE  \E f : Aplanada(s, f)
<1> DEFINE Paso(f, i) == IF i = 1 THEN s[i] ELSE f[i - 1] \o s[i]
           n == Len(s)
           K == {k \in Nat : k <= n =>
                    \E f : DOMAIN f = 1..k /\ \A i \in 1..k : f[i] = Paso(f, i)}
<1>1. n \in Nat
  OBVIOUS
<1>2. 0 \in K
  <2> DEFINE f == [i \in 1..0 |-> s[i]]
  <2>1. DOMAIN f = 1..0 /\ \A i \in 1..0 : f[i] = Paso(f, i)
    OBVIOUS
  <2> QED BY <2>1
<1>3. ASSUME NEW k \in Nat, k \in K PROVE k + 1 \in K
  <2> SUFFICES ASSUME k + 1 <= n
               PROVE  \E f : DOMAIN f = 1..(k + 1) /\ \A i \in 1..(k + 1) : f[i] = Paso(f, i)
    OBVIOUS
  <2>1. PICK f : DOMAIN f = 1..k /\ \A i \in 1..k : f[i] = Paso(f, i)
    BY <1>1, <1>3
  <2> DEFINE u == IF k = 0 THEN s[1] ELSE f[k] \o s[k + 1]
             g == [i \in 1..(k + 1) |-> IF i \in 1..k THEN f[i] ELSE u]
  <2>2. DOMAIN g = 1..(k + 1)
    OBVIOUS
  <2>3. ASSUME NEW i \in 1..(k + 1) PROVE g[i] = Paso(g, i)
    <3>1. CASE i \in 1..k
      <4>1. g[i] = Paso(f, i)
        BY <2>1, <3>1
      <4>2. i # 1 => i - 1 \in 1..k /\ i - 1 \in 1..(k + 1)
        BY <3>1
      <4>3. i # 1 => g[i - 1] = f[i - 1]
        BY <4>2
      <4> QED BY <4>1, <4>3
    <3>2. CASE i \notin 1..k
      <4>1. i = k + 1 /\ g[i] = u
        BY <3>2
      <4>2. k # 0 => k \in 1..k /\ k \in 1..(k + 1)
        OBVIOUS
      <4>3. k # 0 => g[k] = f[k]
        BY <4>2
      <4>4. i = 1 <=> k = 0
        BY <4>1
      <4>5. i - 1 = k
        BY <4>1
      <4> HIDE DEF g
      <4>6. CASE k = 0
        BY <4>1, <4>4, <4>6
      <4>7. CASE k # 0
        BY <4>1, <4>3, <4>4, <4>5, <4>7
      <4> QED BY <4>6, <4>7
    <3> QED BY <3>1, <3>2
  <2> HIDE DEF g, Paso
  <2> QED BY <2>2, <2>3
<1>4. n \in K
  <2> HIDE DEF K
  <2> QED BY <1>1, <1>2, <1>3, Induccion
<1>5. PICK f : DOMAIN f = 1..n /\ \A i \in 1..n : f[i] = Paso(f, i)
  BY <1>1, <1>4
<1> QED BY <1>5 DEF Aplanada

LEMMA FlattenSeqEs ==
    ASSUME NEW S, NEW s \in Seq(Seq(S)), Len(s) # 0
    PROVE  \E f : Aplanada(s, f) /\ FlattenSeq(s) = f[Len(s)]
<1> DEFINE Cuerpo(f) == [i \in 1..Len(s) |-> IF i = 1 THEN s[i] ELSE f[i - 1] \o s[i]]
           h == CHOOSE f : f = Cuerpo(f)
<1>1. FlattenSeq(s) = h[Len(s)]
  BY Zenon DEF FlattenSeq
<1>2. PICK f : Aplanada(s, f)
  BY HayAplanada
<1> DEFINE g == [i \in 1..Len(s) |-> f[i]]
<1>3. g = Cuerpo(g)
  <2>1. \A i \in 1..Len(s) : i # 1 => i - 1 \in 1..Len(s)
    OBVIOUS
  <2>2. \A i \in 1..Len(s) : g[i] = IF i = 1 THEN s[i] ELSE g[i - 1] \o s[i]
    BY <1>2, <2>1 DEF Aplanada
  <2> QED BY <2>2
<1>4. h = Cuerpo(h)
  <2> HIDE DEF Cuerpo
  <2> QED BY <1>3, Zenon
<1>5. Aplanada(s, h)
  <2> HIDE DEF h
  <2> QED BY <1>4 DEF Aplanada
<1> HIDE DEF h
<1> QED BY <1>1, <1>5

\* A sequence of sequences, whatever they are of.
LEMMA UnSoloTipo ==
    ASSUME NEW n \in Nat, NEW s, DOMAIN s = 1..n, s = [i \in 1..n |-> s[i]],
           \A i \in 1..n : EsFlujo(s[i])
    PROVE  \E S : s \in Seq(Seq(S)) /\ Len(s) = n
<1> DEFINE S == UNION {{s[i][j] : j \in DOMAIN s[i]} : i \in 1..n}
<1>1. ASSUME NEW i \in 1..n PROVE s[i] \in Seq(S)
  <2>1. PICK T : s[i] \in Seq(T)
    BY DEF EsFlujo
  <2>2. \A j \in 1..Len(s[i]) : s[i][j] \in S
    BY <2>1
  <2>3. s[i] = [j \in 1..Len(s[i]) |-> s[i][j]] /\ Len(s[i]) \in Nat
    BY <2>1
  <2> HIDE DEF S
  <2> DEFINE m == Len(s[i])
             f == [j \in 1..m |-> s[i][j]]
  <2>4. f \in [1..m -> S]
    BY <2>2
  <2>5. f \in Seq(S)
    <3> HIDE DEF f
    <3> QED BY <2>3, <2>4
  <2> QED BY <2>3, <2>5
<1> HIDE DEF S
<1>2. [i \in 1..n |-> s[i]] \in [1..n -> Seq(S)]
  BY <1>1
<1>3. s \in [1..n -> Seq(S)]
  BY <1>2
<1>4. s \in Seq(Seq(S)) /\ Len(s) = n
  BY <1>3
<1> QED BY <1>4

\* Where each sequence is in FlattenSeq.
LEMMA Lugares ==
    ASSUME NEW n \in Nat, NEW s, DOMAIN s = 1..n, s = [i \in 1..n |-> s[i]],
           \A i \in 1..n : EsFlujo(s[i])
    PROVE  /\ EsFlujo(FlattenSeq(s))
           /\ \E D \in [0..n -> Nat] :
                 /\ D[0] = 0 /\ D[n] = Len(FlattenSeq(s))
                 /\ \A i \in 1..n : /\ D[i] = D[i - 1] + Len(s[i])
                                    /\ Tiene(FlattenSeq(s), D[i - 1], s[i])
<1>1. PICK S : s \in Seq(Seq(S)) /\ Len(s) = n
  BY UnSoloTipo
<1>2. CASE n = 0
  <2>1. s = <<>> /\ FlattenSeq(s) = s
    BY <1>1, <1>2 DEF FlattenSeq
  <2>2. EsFlujo(<<>>) /\ Len(<<>>) = 0
    BY DEF EsFlujo
  <2> DEFINE D == [i \in 0..n |-> 0]
  <2>3. D \in [0..n -> Nat] /\ D[0] = 0 /\ D[n] = 0
    BY <1>2
  <2>4. 1..n = {}
    BY <1>2
  <2> HIDE DEF D
  <2> QED BY <2>1, <2>2, <2>3, <2>4
<1>3. CASE n # 0
  <2>1. PICK f : Aplanada(s, f) /\ FlattenSeq(s) = f[n]
    BY <1>1, <1>3, FlattenSeqEs
  <2>2. \A i \in 1..n : f[i] = IF i = 1 THEN s[i] ELSE f[i - 1] \o s[i]
    BY <1>1, <2>1 DEF Aplanada
  <2> DEFINE K == {k \in Nat : k + 1 \in 1..n => EsFlujo(f[k + 1])}
  <2>3. \A k \in Nat : k \in K
    <3>1. 0 \in K
      BY <1>3, <2>2
    <3>2. ASSUME NEW k \in Nat, k \in K PROVE k + 1 \in K
      <4> SUFFICES ASSUME (k + 1) + 1 \in 1..n PROVE EsFlujo(f[(k + 1) + 1])
        OBVIOUS
      <4>1. k + 1 \in 1..n /\ (k + 1) + 1 # 1 /\ ((k + 1) + 1) - 1 = k + 1
        OBVIOUS
      <4>2. f[(k + 1) + 1] = f[k + 1] \o s[(k + 1) + 1]
        BY <2>2, <4>1
      <4>3. EsFlujo(f[k + 1])
        BY <3>2, <4>1
      <4> QED BY <4>2, <4>3, Concatenado
    <3> HIDE DEF K
    <3> QED BY <3>1, <3>2, Induccion
  <2>4. ASSUME NEW i \in 1..n PROVE EsFlujo(f[i]) /\ Len(f[i]) \in Nat
    <3>1. i - 1 \in Nat /\ (i - 1) + 1 = i
      OBVIOUS
    <3>2. EsFlujo(f[i])
      BY <2>3, <3>1
    <3> QED BY <3>2, LargoFlujo
  <2> HIDE DEF K
  <2> DEFINE D == [i \in 0..n |-> IF i = 0 THEN 0 ELSE Len(f[i])]
  <2>5. D \in [0..n -> Nat] /\ D[0] = 0 /\ D[n] = Len(f[n])
    <3>1. \A i \in 0..n : i # 0 => i \in 1..n
      OBVIOUS
    <3>2. 0 \in 0..n /\ n \in 0..n
      OBVIOUS
    <3> QED BY <1>3, <2>4, <3>1, <3>2
  <2>6. ASSUME NEW i \in 1..n
        PROVE  D[i] = D[i - 1] + Len(s[i]) /\ Tiene(f[i], D[i - 1], s[i])
    <3>1. D[i] = Len(f[i]) /\ i - 1 \in 0..n
      OBVIOUS
    <3>2. CASE i = 1
      <4>1. f[i] = s[i] /\ D[i - 1] = 0
        BY <2>2, <3>2
      <4>2. Len(s[i]) \in Nat
        BY LargoFlujo
      <4>3. \A j \in 1..Len(s[i]) : 0 + j = j
        BY <4>2
      <4>4. 0 + Len(s[i]) = Len(s[i])
        BY <4>2
      <4> HIDE DEF D
      <4> QED BY <3>1, <4>1, <4>2, <4>3, <4>4 DEF Tiene
    <3>3. CASE i # 1
      <4>1. f[i] = f[i - 1] \o s[i] /\ i - 1 \in 1..n
        <5>1. f[i] = f[i - 1] \o s[i]
          BY <2>2, <3>3, Zenon
        <5> QED BY <3>3, <5>1
      <4>2. D[i - 1] = Len(f[i - 1])
        BY <3>1, <4>1
      <4> HIDE DEF D
      <4> QED BY <2>4, <3>1, <4>1, <4>2, Concatenado, TieneAlFinal
    <3> QED BY <3>2, <3>3
  <2> DEFINE C == {k \in Nat : \A i \in 1..n : i + k <= n => Prefijo(f[i], f[i + k])}
  <2>7. \A k \in Nat : k \in C
    <3>1. 0 \in C
      <4> SUFFICES ASSUME NEW i \in 1..n PROVE Prefijo(f[i], f[i + 0])
        BY Zenon
      <4>1. i + 0 = i
        OBVIOUS
      <4> QED BY <2>4, <4>1 DEF Prefijo
    <3>2. ASSUME NEW k \in Nat, k \in C PROVE k + 1 \in C
      <4> SUFFICES ASSUME NEW i \in 1..n, i + (k + 1) <= n PROVE Prefijo(f[i], f[i + (k + 1)])
        OBVIOUS
      <4> DEFINE m == i + k
      <4>1. m \in 1..n /\ m + 1 \in 1..n /\ i + (k + 1) = m + 1 /\ m + 1 # 1 /\ (m + 1) - 1 = m
        OBVIOUS
      <4>2. Prefijo(f[i], f[m])
        BY <3>2, <4>1
      <4>3. f[m + 1] = f[m] \o s[m + 1]
        BY <2>2, <4>1
      <4> HIDE DEF m
      <4>4. EsFlujo(f[m]) /\ EsFlujo(f[i]) /\ EsFlujo(s[m + 1]) /\ Len(f[m]) \in Nat
            /\ EsFlujo(f[m + 1])
        BY <2>4, <4>1
      <4>5. Prefijo(f[m], f[m + 1])
        BY <4>3, <4>4, Sigue
      <4> QED BY <4>1, <4>2, <4>4, <4>5, PrefijoTransitivo
    <3> HIDE DEF C
    <3> QED BY <3>1, <3>2, Induccion
  <2>8. ASSUME NEW i \in 1..n PROVE Tiene(f[n], D[i - 1], s[i])
    <3>1. n - i \in Nat /\ i + (n - i) <= n /\ i + (n - i) = n
      OBVIOUS
    <3>2. Prefijo(f[i], f[n])
      BY <2>7, <3>1
    <3>3. EsFlujo(f[i]) /\ EsFlujo(f[n])
      BY <1>3, <2>4
    <3>4. D[i - 1] \in Nat
      <4> HIDE DEF D
      <4> QED BY <2>5
    <3> HIDE DEF D
    <3> QED BY <2>6, <3>2, <3>3, <3>4, PrefijoTiene
  <2>9. EsFlujo(FlattenSeq(s))
    BY <1>3, <2>1, <2>4
  <2> HIDE DEF D, C
  <2> QED BY <2>1, <2>5, <2>6, <2>8, <2>9
<1> QED BY <1>2, <1>3

\* What an object has is where the object is.
LEMMA TieneDentro ==
    ASSUME NEW b, NEW d \in Nat, NEW t, NEW e \in Nat, NEW o, EsFlujo(t), EsFlujo(o),
           Tiene(b, d, t), Tiene(t, e, o)
    PROVE  Tiene(b, d + e, o)
<1>1. Len(t) \in Nat /\ Len(o) \in Nat
  BY LargoFlujo
<1>2. e + Len(o) <= Len(t) /\ d + Len(t) <= Len(b)
  BY DEF Tiene
<1>3. (d + e) + Len(o) <= Len(b)
  <2>1. (d + e) + Len(o) <= d + Len(t)
    BY <1>1, <1>2
  <2>2. Len(b) >= d + Len(t)
    BY <1>2
  <2> QED BY <1>1, <1>2, <2>1, <2>2
<1>4. ASSUME NEW i \in 1..Len(o) PROVE b[(d + e) + i] = o[i]
  <2>1. e + i \in 1..Len(t) /\ (d + e) + i = d + (e + i)
    BY <1>1, <1>2
  <2> QED BY <2>1 DEF Tiene
<1> QED BY <1>3, <1>4 DEF Tiene

\* Where each element of a list is, if the list is at d.
LEMMA Casillas ==
    ASSUME NEW b, NEW d \in Nat, NEW n \in Nat, NEW s,
           DOMAIN s = 1..n, s = [i \in 1..n |-> s[i]], \A i \in 1..n : EsFlujo(s[i]),
           Tiene(b, d, Entero(n) \o FlattenSeq(s))
    PROVE  /\ LeerEntero(b, d) = n
           /\ EsFlujo(Entero(n) \o FlattenSeq(s))
           /\ \E E \in [0..n -> Nat] :
                 /\ E[0] = d + AnchoInt /\ E[n] = d + Len(Entero(n) \o FlattenSeq(s))
                 /\ \A i \in 1..n : E[i] = E[i - 1] + Len(s[i]) /\ Tiene(b, E[i - 1], s[i])
<1> DEFINE t == FlattenSeq(s)
           h == Entero(n)
<1>1. EsFlujo(t)
  BY Lugares
<1>2. PICK D \in [0..n -> Nat] :
        /\ D[0] = 0 /\ D[n] = Len(t)
        /\ \A i \in 1..n : D[i] = D[i - 1] + Len(s[i]) /\ Tiene(t, D[i - 1], s[i])
  BY Lugares
<1>3. EsFlujo(h) /\ Len(h) = AnchoInt /\ AnchoInt \in Nat
  BY Anchos
<1> HIDE DEF t
<1>4. EsFlujo(h \o t) /\ Len(h \o t) = AnchoInt + Len(t) /\ Len(t) \in Nat
  BY <1>1, <1>3, Concatenado
<1>5. Tiene(b, d, h \o t)
  BY DEF t
<1>6. Tiene(b, d, h) /\ Tiene(b, d + AnchoInt, t)
  <2> HIDE DEF h
  <2> QED BY <1>1, <1>3, <1>5, Partes
<1>7. LeerEntero(b, d) = n
  BY <1>6, Lectores
<1> HIDE DEF h
<1> DEFINE E == [i \in 0..n |-> d + AnchoInt + D[i]]
<1>8. E \in [0..n -> Nat] /\ \A i \in 0..n : E[i] = d + AnchoInt + D[i]
  BY <1>3
<1>9. E[0] = d + AnchoInt /\ E[n] = d + Len(h \o t)
  BY <1>2, <1>3, <1>4
<1> HIDE DEF E
<1>10. ASSUME NEW i \in 1..n
       PROVE  E[i] = E[i - 1] + Len(s[i]) /\ Tiene(b, E[i - 1], s[i])
  <2>1. /\ i \in 0..n /\ i - 1 \in 0..n /\ D[i] \in Nat /\ D[i - 1] \in Nat
        /\ EsFlujo(s[i])
    OBVIOUS
  <2>2. Len(s[i]) \in Nat
    BY <2>1, LargoFlujo
  <2>3. D[i] = D[i - 1] + Len(s[i]) /\ Tiene(t, D[i - 1], s[i])
    BY <1>2
  <2>4. E[i] = d + AnchoInt + D[i] /\ E[i - 1] = (d + AnchoInt) + D[i - 1]
    BY <1>8, <2>1
  <2>5. E[i] = E[i - 1] + Len(s[i])
    BY <1>3, <2>1, <2>2, <2>3, <2>4
  <2>6. Tiene(b, (d + AnchoInt) + D[i - 1], s[i])
    <3>1. d + AnchoInt \in Nat
      BY <1>3
    <3> QED BY <1>1, <1>6, <2>1, <2>3, <3>1, TieneDentro
  <2> QED BY <2>4, <2>5, <2>6
<1> QED BY <1>4, <1>7, <1>8, <1>9, <1>10 DEF h, t

-----------------------------------------------------------------------------
(* The elements of the lists *)

LEMMA TextoFlujo ==
    ASSUME NEW t, EsTexto(t)
    PROVE  /\ EsFlujo(Texto(t)) /\ Len(Texto(t)) = AnchoTexto(t) /\ AnchoTexto(t) \in Nat \ {0}
           /\ EsFlujo(ConHeader(t)) /\ Len(ConHeader(t)) = AnchoInt + AnchoTexto(t)
           /\ Len(ConHeader(t)) \in Nat
<1>1. AnchoTexto(t) \in Nat \ {0}
  BY DEF AnchoTexto, EsTexto
<1>2. EsFlujo(Texto(t)) /\ Len(Texto(t)) = AnchoTexto(t)
  BY <1>1, BytesFlujo DEF Texto
<1>3. EsFlujo(Entero(AnchoTexto(t))) /\ Len(Entero(AnchoTexto(t))) = AnchoInt /\ AnchoInt \in Nat
  BY Anchos
<1> QED BY <1>1, <1>2, <1>3, Concatenado DEF ConHeader

LEMMA TextoLeido ==
    ASSUME NEW b, NEW d \in Nat, NEW t, EsTexto(t), NEW si_no, Tiene(b, d, Texto(t))
    PROVE  Leer(b, d, "texto", AnchoTexto(t), si_no) = t
<1>1. Tiene(b, d, Bytes("texto", t, AnchoTexto(t)))
  BY DEF Texto
<1>2. AnchoTexto(t) \in Nat \ {0}
  BY TextoFlujo
<1> QED BY <1>1, <1>2, LeerObjeto

LEMMA ConHeaderLeido ==
    ASSUME NEW b, NEW d \in Nat, NEW t, EsTexto(t), Tiene(b, d, ConHeader(t))
    PROVE  LeerConHeader(b, d) = [valor |-> t, d |-> d + Len(ConHeader(t))]
<1> DEFINE n == AnchoTexto(t)
<1>1. /\ EsFlujo(Texto(t)) /\ n \in Nat /\ Len(ConHeader(t)) = AnchoInt + n
      /\ EsFlujo(Entero(n)) /\ Len(Entero(n)) = AnchoInt /\ AnchoInt \in Nat
  BY TextoFlujo, Anchos
<1>2. Tiene(b, d, Entero(n) \o Texto(t))
  BY DEF ConHeader
<1>3. Tiene(b, d, Entero(n)) /\ Tiene(b, d + AnchoInt, Texto(t))
  <2> DEFINE x == Entero(n)
             y == Texto(t)
  <2>1. EsFlujo(x) /\ EsFlujo(y) /\ Tiene(b, d, x \o y) /\ Len(x) = AnchoInt
    BY <1>1, <1>2
  <2> HIDE DEF x, y
  <2>2. Tiene(b, d, x) /\ Tiene(b, d + AnchoInt, y)
    BY <2>1, Partes
  <2> QED BY <2>2 DEF x, y
<1>4. LeerEntero(b, d) = n
  BY <1>3, Lectores
<1>5. d + AnchoInt \in Nat
  BY <1>1
<1>6. Leer(b, d + AnchoInt, "texto", n, "") = t
  BY <1>3, <1>5, TextoLeido
<1>7. d + AnchoInt + n = d + Len(ConHeader(t))
  BY <1>1
<1> QED BY <1>4, <1>6, <1>7 DEF LeerConHeader

\* t_instruccion.
EsInstruccion(i) ==
    /\ i = [operacion |-> i.operacion, parametro1 |-> i.parametro1, parametro2 |-> i.parametro2]
    /\ EsTexto(i.parametro1) /\ EsTexto(i.parametro2)

LEMMA InstruccionFlujo ==
    ASSUME NEW i, EsInstruccion(i)
    PROVE  /\ EsFlujo(serializar_instruccion(i))
           /\ Len(serializar_instruccion(i)) = AnchoInt + Len(ConHeader(i.parametro1))
                                                + Len(ConHeader(i.parametro2))
<1> DEFINE o == Codigo(i.operacion)
           x == ConHeader(i.parametro1)
           y == ConHeader(i.parametro2)
<1>1. /\ EsFlujo(o) /\ Len(o) = AnchoInt /\ AnchoInt \in Nat
      /\ EsFlujo(x) /\ EsFlujo(y) /\ Len(x) \in Nat /\ Len(y) \in Nat
  BY Anchos, TextoFlujo DEF EsInstruccion
<1>2. serializar_instruccion(i) = (o \o x) \o y
  BY DEF serializar_instruccion
<1> HIDE DEF o, x, y
<1>3. EsFlujo(o \o x) /\ Len(o \o x) = AnchoInt + Len(x)
  BY <1>1, Concatenado
<1>4. EsFlujo((o \o x) \o y) /\ Len((o \o x) \o y) = AnchoInt + Len(x) + Len(y)
  BY <1>1, <1>3, Concatenado
<1> QED BY <1>2, <1>4 DEF x, y

LEMMA InstruccionLeida ==
    ASSUME NEW b, NEW d \in Nat, NEW i, EsInstruccion(i), Tiene(b, d, serializar_instruccion(i))
    PROVE  deserializar_instruccion(b, d) =
             [valor |-> i, d |-> d + Len(serializar_instruccion(i))]
<1> DEFINE o == Codigo(i.operacion)
           x == ConHeader(i.parametro1)
           y == ConHeader(i.parametro2)
           d1 == d + AnchoInt
           d2 == d1 + Len(x)
<1>1. /\ EsFlujo(o) /\ Len(o) = AnchoInt /\ AnchoInt \in Nat
      /\ EsFlujo(x) /\ EsFlujo(y) /\ Len(x) \in Nat /\ Len(y) \in Nat
  BY Anchos, TextoFlujo DEF EsInstruccion
<1>2. Tiene(b, d, (o \o x) \o y)
  BY DEF serializar_instruccion
<1>3. Len(serializar_instruccion(i)) = AnchoInt + Len(x) + Len(y)
  BY InstruccionFlujo
<1> HIDE DEF o, x, y
<1>4. EsFlujo(o \o x) /\ Len(o \o x) = AnchoInt + Len(x)
  BY <1>1, Concatenado
<1>5. Tiene(b, d, o \o x) /\ Tiene(b, d + (AnchoInt + Len(x)), y)
  BY <1>1, <1>2, <1>4, Partes
<1>6. Tiene(b, d, o) /\ Tiene(b, d1, x)
  BY <1>1, <1>5, Partes
<1>7. d1 \in Nat /\ d2 \in Nat /\ d + (AnchoInt + Len(x)) = d2
      /\ d2 + Len(y) = d + Len(serializar_instruccion(i))
  BY <1>1, <1>3
<1>8. Tiene(b, d2, y)
  BY <1>5, <1>7
<1> HIDE DEF d1, d2
<1>9. LeerCodigo(b, d) = i.operacion
  BY <1>6, Lectores DEF o
<1>10. LeerConHeader(b, d1) = [valor |-> i.parametro1, d |-> d2]
  BY <1>6, <1>7, ConHeaderLeido DEF x, d2, EsInstruccion
<1>11. LeerConHeader(b, d2) = [valor |-> i.parametro2, d |-> d2 + Len(y)]
  BY <1>7, <1>8, ConHeaderLeido DEF y, EsInstruccion
<1>12. deserializar_instruccion(b, d) =
         [valor |-> [operacion |-> i.operacion, parametro1 |-> i.parametro1,
                     parametro2 |-> i.parametro2], d |-> d2 + Len(y)]
  BY <1>9, <1>10, <1>11 DEF deserializar_instruccion, d1
<1> QED BY <1>7, <1>12 DEF EsInstruccion

\* t_segmento.
EsSegmento(s) ==
    s = [nro_segmento |-> s.nro_segmento, tamanio_segmento |-> s.tamanio_segmento,
         indice_tabla_paginas |-> s.indice_tabla_paginas]

LEMMA SegmentoFlujo ==
    ASSUME NEW s
    PROVE  EsFlujo(empaquetar_segmento(s)) /\ Len(empaquetar_segmento(s)) = 3 * AnchoInt
<1> DEFINE x == Entero(s.nro_segmento)
           y == Entero(s.tamanio_segmento)
           z == Entero(s.indice_tabla_paginas)
<1>1. /\ EsFlujo(x) /\ Len(x) = AnchoInt /\ EsFlujo(y) /\ Len(y) = AnchoInt
      /\ EsFlujo(z) /\ Len(z) = AnchoInt /\ AnchoInt \in Nat
  BY Anchos
<1>2. empaquetar_segmento(s) = (x \o y) \o z
  BY DEF empaquetar_segmento
<1> HIDE DEF x, y, z
<1>3. EsFlujo(x \o y) /\ Len(x \o y) = AnchoInt + AnchoInt
  BY <1>1, Concatenado
<1>4. EsFlujo((x \o y) \o z) /\ Len((x \o y) \o z) = AnchoInt + AnchoInt + AnchoInt
  BY <1>1, <1>3, Concatenado
<1> QED BY <1>1, <1>2, <1>4

LEMMA SegmentoLeido ==
    ASSUME NEW b, NEW d \in Nat, NEW s, EsSegmento(s), Tiene(b, d, empaquetar_segmento(s))
    PROVE  deserializar_segmento(b, d) =
             [valor |-> s, d |-> d + Len(empaquetar_segmento(s))]
<1> DEFINE x == Entero(s.nro_segmento)
           y == Entero(s.tamanio_segmento)
           z == Entero(s.indice_tabla_paginas)
<1>1. /\ EsFlujo(x) /\ Len(x) = AnchoInt /\ EsFlujo(y) /\ Len(y) = AnchoInt
      /\ EsFlujo(z) /\ Len(z) = AnchoInt /\ AnchoInt \in Nat
  BY Anchos
<1>2. Tiene(b, d, (x \o y) \o z)
  BY DEF empaquetar_segmento
<1> HIDE DEF x, y, z
<1>3. EsFlujo(x \o y) /\ Len(x \o y) = AnchoInt + AnchoInt
  BY <1>1, Concatenado
<1>4. Tiene(b, d, x \o y) /\ Tiene(b, d + (AnchoInt + AnchoInt), z)
  BY <1>1, <1>2, <1>3, Partes
<1>5. Tiene(b, d, x) /\ Tiene(b, d + AnchoInt, y)
  BY <1>1, <1>4, Partes
<1>6. d + (AnchoInt + AnchoInt) = d + 2 * AnchoInt /\ d + AnchoInt \in Nat
      /\ d + 2 * AnchoInt \in Nat
  BY <1>1
<1>7. Tiene(b, d + 2 * AnchoInt, z)
  BY <1>4, <1>6
<1>8. /\ LeerEntero(b, d) = s.nro_segmento /\ LeerEntero(b, d + AnchoInt) = s.tamanio_segmento
      /\ LeerEntero(b, d + 2 * AnchoInt) = s.indice_tabla_paginas
  BY <1>5, <1>6, <1>7, Lectores DEF x, y, z
<1>9. Len(empaquetar_segmento(s)) = 3 * AnchoInt
  BY SegmentoFlujo
<1> QED BY <1>8, <1>9 DEF deserializar_segmento, EsSegmento

-----------------------------------------------------------------------------
(* The lists *)

LEMMA Tramos ==
    ASSUME NEW n \in Nat, NEW L, EsFlujo(L), Len(L) = n
    PROVE  /\ SubSeq(L, 1, 0) = <<>> /\ SubSeq(L, 1, n) = L
           /\ \A i \in 1..n : SubSeq(L, 1, i) = Append(SubSeq(L, 1, i - 1), L[i])
<1>1. PICK S : L \in Seq(S)
  BY DEF EsFlujo
<1>2. SubSeq(L, 1, 0) = <<>>
  BY <1>1, SubSeqEmpty
<1>3. SubSeq(L, 1, n) = L
  BY <1>1, SubSeqFull
<1>4. ASSUME NEW i \in 1..n PROVE SubSeq(L, 1, i) = Append(SubSeq(L, 1, i - 1), L[i])
  <2> DEFINE a == SubSeq(L, 1, i)
             b == Append(SubSeq(L, 1, i - 1), L[i])
  <2>1. a \in Seq(S) /\ Len(a) = i /\ \A j \in 1..i : a[j] = L[j]
    BY <1>1
  <2>2. SubSeq(L, 1, i - 1) \in Seq(S) /\ Len(SubSeq(L, 1, i - 1)) = i - 1
        /\ \A j \in 1..(i - 1) : SubSeq(L, 1, i - 1)[j] = L[j]
    BY <1>1
  <2>3. L[i] \in S
    BY <1>1
  <2> DEFINE c == SubSeq(L, 1, i - 1)
  <2> HIDE DEF c, a
  <2>4. Append(c, L[i]) \in Seq(S) /\ Len(Append(c, L[i])) = i
        /\ \A j \in 1..i : Append(c, L[i])[j] = L[j]
    BY <2>2, <2>3 DEF c
  <2>5. a = Append(c, L[i])
    BY <2>1, <2>4, SeqEqual
  <2> QED BY <2>5 DEF a, c
<1> QED BY <1>2, <1>3, <1>4

\* The reader of a list takes its elements one after the other.
EnOrden(n, L, E, H) ==
    /\ H[0] = [valor |-> <<>>, d |-> E[0]]
    /\ \A i \in 1..n : H[i - 1].d = E[i - 1] =>
          H[i] = [valor |-> Append(H[i - 1].valor, L[i]), d |-> E[i]]

LEMMA ListaSeguida ==
    ASSUME NEW n \in Nat, NEW L, EsFlujo(L), Len(L) = n, NEW E, NEW H, EnOrden(n, L, E, H)
    PROVE  H[n] = [valor |-> L, d |-> E[n]]
<1> DEFINE K == {k \in Nat : k <= n => H[k] = [valor |-> SubSeq(L, 1, k), d |-> E[k]]}
<1>1. 0 \in K
  BY Tramos DEF EnOrden
<1>2. ASSUME NEW k \in Nat, k \in K PROVE k + 1 \in K
  <2> SUFFICES ASSUME k + 1 <= n
               PROVE  H[k + 1] = [valor |-> SubSeq(L, 1, k + 1), d |-> E[k + 1]]
    OBVIOUS
  <2>1. k + 1 \in 1..n /\ (k + 1) - 1 = k /\ k <= n
    OBVIOUS
  <2>2. H[k] = [valor |-> SubSeq(L, 1, k), d |-> E[k]]
    BY <1>2, <2>1
  <2>3. H[k].d = E[k] /\ H[k].valor = SubSeq(L, 1, k)
    BY <2>2
  <2>4. H[k + 1] = [valor |-> Append(SubSeq(L, 1, k), L[k + 1]), d |-> E[k + 1]]
    BY <2>1, <2>3 DEF EnOrden
  <2>5. SubSeq(L, 1, k + 1) = Append(SubSeq(L, 1, k), L[k + 1])
    BY <2>1, Tramos
  <2> QED BY <2>4, <2>5
<1>3. n \in K
  <2> HIDE DEF K
  <2> QED BY <1>1, <1>2, Induccion
<1> QED BY <1>3, Tramos

LEMMA TextosLeidos ==
    ASSUME NEW b, NEW d \in Nat, NEW L, EsFlujo(L), \A i \in DOMAIN L : EsTexto(L[i]),
           Tiene(b, d, empaquetar_strings(L))
    PROVE  /\ EsFlujo(empaquetar_strings(L))
           /\ deserializar_strings(b, d) = [valor |-> L, d |-> d + Len(empaquetar_strings(L))]
<1> DEFINE n == Len(L)
           s == [i \in DOMAIN L |-> ConHeader(L[i])]
<1>1. n \in Nat /\ DOMAIN L = 1..n
  BY DEF EsFlujo
<1>2. DOMAIN s = 1..n /\ s = [i \in 1..n |-> s[i]] /\ \A i \in 1..n : s[i] = ConHeader(L[i])
  BY <1>1
<1>3. \A i \in 1..n : EsFlujo(s[i])
  BY <1>1, <1>2, TextoFlujo
<1>4. empaquetar_strings(L) = Entero(n) \o FlattenSeq(s)
  BY DEF empaquetar_strings, Empaquetar
<1> HIDE DEF s, n
<1>5. Tiene(b, d, Entero(n) \o FlattenSeq(s))
  BY <1>4
<1>6. LeerEntero(b, d) = n /\ EsFlujo(Entero(n) \o FlattenSeq(s))
  BY <1>1, <1>2, <1>3, <1>5, Casillas
<1>7. PICK E \in [0..n -> Nat] :
        /\ E[0] = d + AnchoInt /\ E[n] = d + Len(Entero(n) \o FlattenSeq(s))
        /\ \A i \in 1..n : E[i] = E[i - 1] + Len(s[i]) /\ Tiene(b, E[i - 1], s[i])
  <2>1. d \in Nat /\ n \in Nat /\ DOMAIN s = 1..n /\ s = [i \in 1..n |-> s[i]]
    BY <1>1, <1>2
  <2> QED BY ONLY <1>3, <1>5, <2>1, Casillas, ZenonT(60)
<1>8. ASSUME NEW i \in 1..n PROVE LeerConHeader(b, E[i - 1]) = [valor |-> L[i], d |-> E[i]]
  <2>1. E[i - 1] \in Nat /\ EsTexto(L[i]) /\ Tiene(b, E[i - 1], ConHeader(L[i]))
        /\ E[i] = E[i - 1] + Len(ConHeader(L[i]))
    BY <1>1, <1>2, <1>7
  <2> QED BY <2>1, ConHeaderLeido
<1> DEFINE Paso(f, i) ==
              IF i = 0 THEN [valor |-> <<>>, d |-> d + AnchoInt]
              ELSE [valor |-> Append(f[i - 1].valor, LeerConHeader(b, f[i - 1].d).valor),
                    d |-> LeerConHeader(b, f[i - 1].d).d]
           H == CHOOSE f : f = [i \in 0..n |-> Paso(f, i)]
           G == [i \in 0..n |-> [valor |-> SubSeq(L, 1, i), d |-> E[i]]]
<1>9. deserializar_strings(b, d) = H[n]
  BY <1>1, <1>6 DEF deserializar_strings, LeerLista
<1>10. ASSUME NEW i \in 0..n PROVE G[i] = Paso(G, i)
  <2>1. CASE i = 0
    BY <1>1, <1>7, <2>1, Tramos DEF n
  <2>2. CASE i # 0
    <3>1. i \in 1..n /\ i - 1 \in 0..n
      BY <1>1, <2>2
    <3>2. G[i - 1].valor = SubSeq(L, 1, i - 1) /\ G[i - 1].d = E[i - 1]
      BY <3>1
    <3>3. SubSeq(L, 1, i) = Append(SubSeq(L, 1, i - 1), L[i])
      BY <1>1, <3>1, Tramos DEF n
    <3>4. G[i] = [valor |-> SubSeq(L, 1, i), d |-> E[i]]
      OBVIOUS
    <3> HIDE DEF G
    <3>5. LeerConHeader(b, G[i - 1].d) = [valor |-> L[i], d |-> E[i]]
      BY <1>8, <3>1, <3>2
    <3> DEFINE r == LeerConHeader(b, G[i - 1].d)
    <3>6. Paso(G, i) = [valor |-> Append(G[i - 1].valor, r.valor), d |-> r.d]
      BY <2>2
    <3>7. r = [valor |-> L[i], d |-> E[i]]
      BY <3>5
    <3> HIDE DEF r, Paso
    <3>8. r.valor = L[i] /\ r.d = E[i]
      BY <3>7
    <3> QED BY <3>2, <3>3, <3>4, <3>6, <3>8
  <2> QED BY <2>1, <2>2
<1>11. G = [i \in 0..n |-> Paso(G, i)]
  <2> HIDE DEF Paso
  <2>1. G = [i \in 0..n |-> G[i]]
    OBVIOUS
  <2> HIDE DEF G
  <2> QED BY <1>10, <2>1
<1>12. H = [i \in 0..n |-> Paso(H, i)]
  <2> HIDE DEF Paso, G
  <2> QED BY <1>11, Zenon
<1> HIDE DEF H
<1>13. H[0] = [valor |-> <<>>, d |-> E[0]]
  BY <1>1, <1>7, <1>12
<1>14. ASSUME NEW i \in 1..n, H[i - 1].d = E[i - 1]
       PROVE  H[i] = [valor |-> Append(H[i - 1].valor, L[i]), d |-> E[i]]
  <2>1. i \in 0..n /\ i # 0
    OBVIOUS
  <2>2. H[i] = Paso(H, i)
    <3> HIDE DEF Paso
    <3> QED BY <1>12, <2>1
  <2>3. LeerConHeader(b, H[i - 1].d) = [valor |-> L[i], d |-> E[i]]
    BY <1>8, <1>14
  <2> QED BY <2>1, <2>2, <2>3
<1>15. H[n] = [valor |-> L, d |-> E[n]]
  <2> HIDE DEF Paso
  <2>1. EnOrden(n, L, E, H)
    BY <1>13, <1>14 DEF EnOrden
  <2>2. Len(L) = n
    BY DEF n
  <2> QED BY <1>1, <2>1, <2>2, ListaSeguida
<1> QED BY <1>4, <1>6, <1>7, <1>9, <1>15

LEMMA InstruccionesLeidas ==
    ASSUME NEW b, NEW d \in Nat, NEW L, EsFlujo(L), \A i \in DOMAIN L : EsInstruccion(L[i]),
           Tiene(b, d, empaquetar_instrucciones(L))
    PROVE  /\ EsFlujo(empaquetar_instrucciones(L))
           /\ deserializar_instrucciones(b, d) =
                 [valor |-> L, d |-> d + Len(empaquetar_instrucciones(L))]
<1> DEFINE n == Len(L)
           s == [i \in DOMAIN L |-> serializar_instruccion(L[i])]
<1>1. n \in Nat /\ DOMAIN L = 1..n
  BY DEF EsFlujo
<1>2. DOMAIN s = 1..n /\ s = [i \in 1..n |-> s[i]]
      /\ \A i \in 1..n : s[i] = serializar_instruccion(L[i])
  BY <1>1
<1>3. \A i \in 1..n : EsFlujo(s[i])
  BY <1>1, <1>2, InstruccionFlujo
<1>4. empaquetar_instrucciones(L) = Entero(n) \o FlattenSeq(s)
  BY DEF empaquetar_instrucciones, Empaquetar
<1> HIDE DEF s, n
<1>5. Tiene(b, d, Entero(n) \o FlattenSeq(s))
  BY <1>4
<1>6. LeerEntero(b, d) = n /\ EsFlujo(Entero(n) \o FlattenSeq(s))
  BY <1>1, <1>2, <1>3, <1>5, Casillas
<1>7. PICK E \in [0..n -> Nat] :
        /\ E[0] = d + AnchoInt /\ E[n] = d + Len(Entero(n) \o FlattenSeq(s))
        /\ \A i \in 1..n : E[i] = E[i - 1] + Len(s[i]) /\ Tiene(b, E[i - 1], s[i])
  BY <1>1, <1>2, <1>3, <1>5, Casillas, ZenonT(60)
<1>8. ASSUME NEW i \in 1..n
      PROVE deserializar_instruccion(b, E[i - 1]) = [valor |-> L[i], d |-> E[i]]
  <2>1. E[i - 1] \in Nat /\ EsInstruccion(L[i]) /\ Tiene(b, E[i - 1], serializar_instruccion(L[i]))
        /\ E[i] = E[i - 1] + Len(serializar_instruccion(L[i]))
    BY <1>1, <1>2, <1>7
  <2> QED BY <2>1, InstruccionLeida
<1> DEFINE Paso(f, i) ==
              IF i = 0 THEN [valor |-> <<>>, d |-> d + AnchoInt]
              ELSE [valor |-> Append(f[i - 1].valor, deserializar_instruccion(b, f[i - 1].d).valor),
                    d |-> deserializar_instruccion(b, f[i - 1].d).d]
           H == CHOOSE f : f = [i \in 0..n |-> Paso(f, i)]
           G == [i \in 0..n |-> [valor |-> SubSeq(L, 1, i), d |-> E[i]]]
<1>9. deserializar_instrucciones(b, d) = H[n]
  BY <1>1, <1>6 DEF deserializar_instrucciones, LeerLista
<1>10. ASSUME NEW i \in 0..n PROVE G[i] = Paso(G, i)
  <2>1. CASE i = 0
    BY <1>1, <1>7, <2>1, Tramos DEF n
  <2>2. CASE i # 0
    <3>1. i \in 1..n /\ i - 1 \in 0..n
      BY <1>1, <2>2
    <3>2. G[i - 1].valor = SubSeq(L, 1, i - 1) /\ G[i - 1].d = E[i - 1]
      BY <3>1
    <3>3. SubSeq(L, 1, i) = Append(SubSeq(L, 1, i - 1), L[i])
      BY <1>1, <3>1, Tramos DEF n
    <3>4. G[i] = [valor |-> SubSeq(L, 1, i), d |-> E[i]]
      OBVIOUS
    <3> HIDE DEF G
    <3>5. deserializar_instruccion(b, G[i - 1].d) = [valor |-> L[i], d |-> E[i]]
      BY <1>8, <3>1, <3>2
    <3> DEFINE r == deserializar_instruccion(b, G[i - 1].d)
    <3>6. Paso(G, i) = [valor |-> Append(G[i - 1].valor, r.valor), d |-> r.d]
      BY <2>2
    <3>7. r = [valor |-> L[i], d |-> E[i]]
      BY <3>5
    <3> HIDE DEF r, Paso
    <3>8. r.valor = L[i] /\ r.d = E[i]
      BY <3>7
    <3> QED BY <3>2, <3>3, <3>4, <3>6, <3>8
  <2> QED BY <2>1, <2>2
<1>11. G = [i \in 0..n |-> Paso(G, i)]
  <2> HIDE DEF Paso
  <2>1. G = [i \in 0..n |-> G[i]]
    OBVIOUS
  <2> HIDE DEF G
  <2> QED BY <1>10, <2>1
<1>12. H = [i \in 0..n |-> Paso(H, i)]
  <2> HIDE DEF Paso, G
  <2> QED BY <1>11, Zenon
<1> HIDE DEF H
<1>13. H[0] = [valor |-> <<>>, d |-> E[0]]
  BY <1>1, <1>7, <1>12
<1>14. ASSUME NEW i \in 1..n, H[i - 1].d = E[i - 1]
       PROVE  H[i] = [valor |-> Append(H[i - 1].valor, L[i]), d |-> E[i]]
  <2>1. i \in 0..n /\ i # 0
    OBVIOUS
  <2>2. H[i] = Paso(H, i)
    <3> HIDE DEF Paso
    <3> QED BY <1>12, <2>1
  <2>3. deserializar_instruccion(b, H[i - 1].d) = [valor |-> L[i], d |-> E[i]]
    BY <1>8, <1>14
  <2> QED BY <2>1, <2>2, <2>3
<1>15. H[n] = [valor |-> L, d |-> E[n]]
  <2> HIDE DEF Paso
  <2>1. EnOrden(n, L, E, H)
    BY <1>13, <1>14 DEF EnOrden
  <2>2. Len(L) = n
    BY DEF n
  <2> QED BY <1>1, <2>1, <2>2, ListaSeguida
<1> QED BY <1>4, <1>6, <1>7, <1>9, <1>15

LEMMA SegmentosLeidos ==
    ASSUME NEW b, NEW d \in Nat, NEW L, EsFlujo(L), \A i \in DOMAIN L : EsSegmento(L[i]),
           Tiene(b, d, empaquetar_tabla_segmentos(L))
    PROVE  /\ EsFlujo(empaquetar_tabla_segmentos(L))
           /\ deserializar_tabla_segmentos(b, d) =
                 [valor |-> L, d |-> d + Len(empaquetar_tabla_segmentos(L))]
<1> DEFINE n == Len(L)
           s == [i \in DOMAIN L |-> empaquetar_segmento(L[i])]
<1>1. n \in Nat /\ DOMAIN L = 1..n
  BY DEF EsFlujo
<1>2. DOMAIN s = 1..n /\ s = [i \in 1..n |-> s[i]]
      /\ \A i \in 1..n : s[i] = empaquetar_segmento(L[i])
  BY <1>1
<1>3. \A i \in 1..n : EsFlujo(s[i])
  BY <1>1, <1>2, SegmentoFlujo
<1>4. empaquetar_tabla_segmentos(L) = Entero(n) \o FlattenSeq(s)
  BY DEF empaquetar_tabla_segmentos, Empaquetar
<1> HIDE DEF s, n
<1>5. Tiene(b, d, Entero(n) \o FlattenSeq(s))
  BY <1>4
<1>6. LeerEntero(b, d) = n /\ EsFlujo(Entero(n) \o FlattenSeq(s))
  BY <1>1, <1>2, <1>3, <1>5, Casillas
<1>7. PICK E \in [0..n -> Nat] :
        /\ E[0] = d + AnchoInt /\ E[n] = d + Len(Entero(n) \o FlattenSeq(s))
        /\ \A i \in 1..n : E[i] = E[i - 1] + Len(s[i]) /\ Tiene(b, E[i - 1], s[i])
  BY <1>1, <1>2, <1>3, <1>5, Casillas, ZenonT(60)
<1>8. ASSUME NEW i \in 1..n PROVE deserializar_segmento(b, E[i - 1]) = [valor |-> L[i], d |-> E[i]]
  <2>1. E[i - 1] \in Nat /\ EsSegmento(L[i]) /\ Tiene(b, E[i - 1], empaquetar_segmento(L[i]))
        /\ E[i] = E[i - 1] + Len(empaquetar_segmento(L[i]))
    BY <1>1, <1>2, <1>7
  <2> QED BY <2>1, SegmentoLeido
<1> DEFINE Paso(f, i) ==
              IF i = 0 THEN [valor |-> <<>>, d |-> d + AnchoInt]
              ELSE [valor |-> Append(f[i - 1].valor, deserializar_segmento(b, f[i - 1].d).valor),
                    d |-> deserializar_segmento(b, f[i - 1].d).d]
           H == CHOOSE f : f = [i \in 0..n |-> Paso(f, i)]
           G == [i \in 0..n |-> [valor |-> SubSeq(L, 1, i), d |-> E[i]]]
<1>9. deserializar_tabla_segmentos(b, d) = H[n]
  BY <1>1, <1>6 DEF deserializar_tabla_segmentos, LeerLista
<1>10. ASSUME NEW i \in 0..n PROVE G[i] = Paso(G, i)
  <2>1. CASE i = 0
    BY <1>1, <1>7, <2>1, Tramos DEF n
  <2>2. CASE i # 0
    <3>1. i \in 1..n /\ i - 1 \in 0..n
      BY <1>1, <2>2
    <3>2. G[i - 1].valor = SubSeq(L, 1, i - 1) /\ G[i - 1].d = E[i - 1]
      BY <3>1
    <3>3. SubSeq(L, 1, i) = Append(SubSeq(L, 1, i - 1), L[i])
      BY <1>1, <3>1, Tramos DEF n
    <3>4. G[i] = [valor |-> SubSeq(L, 1, i), d |-> E[i]]
      OBVIOUS
    <3> HIDE DEF G
    <3>5. deserializar_segmento(b, G[i - 1].d) = [valor |-> L[i], d |-> E[i]]
      BY <1>8, <3>1, <3>2
    <3> DEFINE r == deserializar_segmento(b, G[i - 1].d)
    <3>6. Paso(G, i) = [valor |-> Append(G[i - 1].valor, r.valor), d |-> r.d]
      BY <2>2
    <3>7. r = [valor |-> L[i], d |-> E[i]]
      BY <3>5
    <3> HIDE DEF r, Paso
    <3>8. r.valor = L[i] /\ r.d = E[i]
      BY <3>7
    <3> QED BY <3>2, <3>3, <3>4, <3>6, <3>8
  <2> QED BY <2>1, <2>2
<1>11. G = [i \in 0..n |-> Paso(G, i)]
  <2> HIDE DEF Paso
  <2>1. G = [i \in 0..n |-> G[i]]
    OBVIOUS
  <2> HIDE DEF G
  <2> QED BY <1>10, <2>1
<1>12. H = [i \in 0..n |-> Paso(H, i)]
  <2> HIDE DEF Paso, G
  <2> QED BY <1>11, Zenon
<1> HIDE DEF H
<1>13. H[0] = [valor |-> <<>>, d |-> E[0]]
  BY <1>1, <1>7, <1>12
<1>14. ASSUME NEW i \in 1..n, H[i - 1].d = E[i - 1]
       PROVE  H[i] = [valor |-> Append(H[i - 1].valor, L[i]), d |-> E[i]]
  <2>1. i \in 0..n /\ i # 0
    OBVIOUS
  <2>2. H[i] = Paso(H, i)
    <3> HIDE DEF Paso
    <3> QED BY <1>12, <2>1
  <2>3. deserializar_segmento(b, H[i - 1].d) = [valor |-> L[i], d |-> E[i]]
    BY <1>8, <1>14
  <2> QED BY <2>1, <2>2, <2>3
<1>15. H[n] = [valor |-> L, d |-> E[n]]
  <2> HIDE DEF Paso
  <2>1. EnOrden(n, L, E, H)
    BY <1>13, <1>14 DEF EnOrden
  <2>2. Len(L) = n
    BY DEF n
  <2> QED BY <1>1, <2>1, <2>2, ListaSeguida
<1> QED BY <1>4, <1>6, <1>7, <1>9, <1>15

---------------------------------------------------------------------------
(* Messages with lists *)

LEMMA ListasFlujo ==
    ASSUME NEW L, EsFlujo(L)
    PROVE  /\ (\A i \in DOMAIN L : EsTexto(L[i])) => EsFlujo(empaquetar_strings(L))
           /\ (\A i \in DOMAIN L : EsInstruccion(L[i])) => EsFlujo(empaquetar_instrucciones(L))
           /\ EsFlujo(empaquetar_tabla_segmentos(L))
<1>1. Len(L) \in Nat /\ DOMAIN L = 1..Len(L)
  BY DEF EsFlujo
<1>2. ASSUME NEW s, DOMAIN s = 1..Len(L), s = [i \in 1..Len(L) |-> s[i]],
             \A i \in 1..Len(L) : EsFlujo(s[i])
      PROVE  EsFlujo(Entero(Len(L)) \o FlattenSeq(s))
  <2>1. EsFlujo(FlattenSeq(s))
    BY <1>1, <1>2, Lugares
  <2>2. EsFlujo(Entero(Len(L)))
    BY Anchos
  <2> QED BY <2>1, <2>2, Concatenado
<1>3. ASSUME \A i \in DOMAIN L : EsTexto(L[i]) PROVE EsFlujo(empaquetar_strings(L))
  <2> DEFINE s == [i \in DOMAIN L |-> ConHeader(L[i])]
  <2>1. DOMAIN s = 1..Len(L) /\ s = [i \in 1..Len(L) |-> s[i]]
    BY <1>1
  <2>2. \A i \in 1..Len(L) : EsFlujo(s[i])
    BY <1>1, <1>3, TextoFlujo
  <2>3. empaquetar_strings(L) = Entero(Len(L)) \o FlattenSeq(s)
    BY DEF empaquetar_strings, Empaquetar
  <2> HIDE DEF s
  <2> QED BY <1>2, <2>1, <2>2, <2>3
<1>4. ASSUME \A i \in DOMAIN L : EsInstruccion(L[i]) PROVE EsFlujo(empaquetar_instrucciones(L))
  <2> DEFINE s == [i \in DOMAIN L |-> serializar_instruccion(L[i])]
  <2>1. DOMAIN s = 1..Len(L) /\ s = [i \in 1..Len(L) |-> s[i]]
    BY <1>1
  <2>2. \A i \in 1..Len(L) : EsFlujo(s[i])
    BY <1>1, <1>4, InstruccionFlujo
  <2>3. empaquetar_instrucciones(L) = Entero(Len(L)) \o FlattenSeq(s)
    BY DEF empaquetar_instrucciones, Empaquetar
  <2> HIDE DEF s
  <2> QED BY <1>2, <2>1, <2>2, <2>3
<1>5. EsFlujo(empaquetar_tabla_segmentos(L))
  <2> DEFINE s == [i \in DOMAIN L |-> empaquetar_segmento(L[i])]
  <2>1. DOMAIN s = 1..Len(L) /\ s = [i \in 1..Len(L) |-> s[i]]
    BY <1>1
  <2>2. \A i \in 1..Len(L) : EsFlujo(s[i])
    BY <1>1, SegmentoFlujo
  <2>3. empaquetar_tabla_segmentos(L) = Entero(Len(L)) \o FlattenSeq(s)
    BY DEF empaquetar_tabla_segmentos, Empaquetar
  <2> HIDE DEF s
  <2> QED BY <1>2, <2>1, <2>2, <2>3
<1> QED BY <1>3, <1>4, <1>5

LEMMA TieneTodo == ASSUME NEW o, EsFlujo(o) PROVE Tiene(o, 0, o)
<1>1. Len(o) \in Nat /\ \A i \in 1..Len(o) : 0 + i = i
  BY LargoFlujo
<1> QED BY <1>1 DEF Tiene

\* A list of texts is read as it was written: the sizes of the segments a console sends to
\* the kernel and the kernel to the memory, the indices of the tables the memory answers.
THEOREM TextosEnteros ==
    ASSUME NEW L, EsFlujo(L), \A i \in DOMAIN L : EsTexto(L[i])
    PROVE  deserializar_strings(empaquetar_strings(L), 0).valor = L
<1>1. EsFlujo(empaquetar_strings(L))
  BY ListasFlujo
<1>2. Tiene(empaquetar_strings(L), 0, empaquetar_strings(L))
  BY <1>1, TieneTodo
<1>3. 0 \in Nat
  OBVIOUS
<1> QED BY <1>2, <1>3, TextosLeidos

\* t_proceso: what a console sends.
EsProceso(p) ==
    /\ p = [instrucciones |-> p.instrucciones, segmentos |-> p.segmentos]
    /\ EsFlujo(p.instrucciones)
    /\ \A i \in DOMAIN p.instrucciones : EsInstruccion(p.instrucciones[i])
    /\ EsFlujo(p.segmentos) /\ \A i \in DOMAIN p.segmentos : EsTexto(p.segmentos[i])

\* The kernel reads the program and the segments the console wrote, of any length
\* (enviar_proceso, deserializar_proceso).
THEOREM ProcesoEntero ==
    ASSUME NEW p, EsProceso(p)
    PROVE  /\ EsFlujo(empaquetar_proceso(p))
           /\ deserializar_proceso(empaquetar_proceso(p)) = p
<1> DEFINE x == empaquetar_instrucciones(p.instrucciones)
           y == empaquetar_strings(p.segmentos)
           b == x \o y
<1>1. EsFlujo(x) /\ EsFlujo(y)
  BY ListasFlujo DEF EsProceso
<1>2. empaquetar_proceso(p) = b
  BY DEF empaquetar_proceso
<1> DEFINE n == Len(x)
<1>3. EsFlujo(b) /\ Tiene(b, 0, x) /\ Tiene(b, n, y) /\ n \in Nat
  <2> HIDE DEF x, y
  <2> QED BY <1>1, Concatenado, TieneAlPrincipio, TieneAlFinal
<1> HIDE DEF b
<1>4. deserializar_instrucciones(b, 0) = [valor |-> p.instrucciones, d |-> 0 + n]
  BY <1>3, InstruccionesLeidas DEF EsProceso
<1>5. deserializar_strings(b, n) = [valor |-> p.segmentos, d |-> n + Len(y)]
  BY <1>3, TextosLeidos DEF EsProceso
<1> HIDE DEF n, y
<1>6. 0 + n = n
  BY <1>3
<1>7. deserializar_proceso(b) = [instrucciones |-> p.instrucciones, segmentos |-> p.segmentos]
  BY <1>4, <1>5, <1>6 DEF deserializar_proceso
<1> QED BY <1>2, <1>3, <1>7 DEF EsProceso

\* The memory reads the process and the sizes of its segments that the kernel wrote
\* (enviar_pcb_memoria, recibir_pcb_memoria).
THEOREM PedidoDeEstructurasEntero ==
    ASSUME NEW pid, NEW L, EsFlujo(L), \A i \in DOMAIN L : EsTexto(L[i])
    PROVE  LET p == [pid |-> pid, segmentos |-> L]
               b == empaquetar_pcb_memoria(p)
           IN EsFlujo(b) /\ recibir_pcb_memoria(b) = p
<1> DEFINE p == [pid |-> pid, segmentos |-> L]
           x == Entero(pid)
           y == empaquetar_strings(L)
           b == x \o y
<1>1. EsFlujo(x) /\ EsFlujo(y) /\ Len(x) = AnchoInt /\ AnchoInt \in Nat
  BY ListasFlujo, Anchos
<1>2. empaquetar_pcb_memoria(p) = b
  BY DEF empaquetar_pcb_memoria
<1>3. EsFlujo(b) /\ Tiene(b, 0, x) /\ Tiene(b, AnchoInt, y)
  <2> HIDE DEF x, y
  <2>1. Tiene(b, Len(x), y)
    BY <1>1, TieneAlFinal
  <2> QED BY <1>1, <2>1, Concatenado, TieneAlPrincipio
<1> HIDE DEF b
<1>4. LeerEntero(b, 0) = pid
  BY <1>3, Lectores
<1>5. deserializar_strings(b, AnchoInt).valor = L
  BY <1>1, <1>3, TextosLeidos
<1>6. recibir_pcb_memoria(b) = p
  BY <1>4, <1>5 DEF recibir_pcb_memoria
<1> QED BY <1>2, <1>3, <1>6

\* The fields of t_pcb and t_registros.
TieneCampos(pcb) ==
    /\ pcb = [pid |-> pcb.pid, program_counter |-> pcb.program_counter, estado |-> pcb.estado,
              socket_consola |-> pcb.socket_consola, interrupcion |-> pcb.interrupcion,
              con_desalojo |-> pcb.con_desalojo, page_fault |-> pcb.page_fault,
              segmentation_fault |-> pcb.segmentation_fault, registros |-> pcb.registros,
              pagina_fault |-> pcb.pagina_fault, instrucciones |-> pcb.instrucciones,
              tabla_de_segmentos |-> pcb.tabla_de_segmentos,
              tamanio_segmentos |-> pcb.tamanio_segmentos]
    /\ pcb.registros = [AX |-> pcb.registros.AX, BX |-> pcb.registros.BX,
                        CX |-> pcb.registros.CX, DX |-> pcb.registros.DX]

\* t_pcb.
EsPcb(pcb) ==
    /\ TieneCampos(pcb)
    /\ pcb.pagina_fault # Nulo =>
          pcb.pagina_fault = <<pcb.pagina_fault[1], pcb.pagina_fault[2]>>
    /\ EsFlujo(pcb.instrucciones)
    /\ \A i \in DOMAIN pcb.instrucciones : EsInstruccion(pcb.instrucciones[i])
    /\ EsFlujo(pcb.tabla_de_segmentos)
    /\ \A i \in DOMAIN pcb.tabla_de_segmentos : EsSegmento(pcb.tabla_de_segmentos[i])

\* What arrives of a PCB: the sizes of the segments stay behind, and no page is sent as
\* that of -1.
Viajado(pcb) ==
    [pid |-> pcb.pid, program_counter |-> pcb.program_counter, estado |-> pcb.estado,
     socket_consola |-> pcb.socket_consola, interrupcion |-> pcb.interrupcion,
     con_desalojo |-> pcb.con_desalojo, page_fault |-> pcb.page_fault,
     segmentation_fault |-> pcb.segmentation_fault, registros |-> pcb.registros,
     pagina_fault |-> IF pcb.pagina_fault = Nulo THEN <<-1, -1>> ELSE pcb.pagina_fault,
     instrucciones |-> pcb.instrucciones, tabla_de_segmentos |-> pcb.tabla_de_segmentos,
     tamanio_segmentos |-> Nulo]

LEMMA CamposFijosFlujo ==
    ASSUME NEW pcb
    PROVE  EsFlujo(campos_fijos_pcb(pcb))
           /\ Len(campos_fijos_pcb(pcb)) = LugarPagina + 2 * AnchoInt
<1> DEFINE o1 == Entero(pcb.pid)
           o2 == Entero(pcb.program_counter)
           o3 == Codigo(pcb.estado)
           o4 == Entero(pcb.socket_consola)
           o5 == Booleano(pcb.interrupcion)
           o6 == Booleano(pcb.con_desalojo)
           o7 == Booleano(pcb.page_fault)
           o8 == Booleano(pcb.segmentation_fault)
           o9 == empaquetar_registros(pcb.registros)
           o10 == empaquetar_pagina(pcb.pagina_fault)
           a == ((o1 \o o2) \o o3) \o o4
           c == (((a \o o5) \o o6) \o o7) \o o8
<1>1. campos_fijos_pcb(pcb) = (c \o o9) \o o10
  BY DEF campos_fijos_pcb
<1>2. /\ EsFlujo(o1) /\ EsFlujo(o2) /\ EsFlujo(o3) /\ EsFlujo(o4) /\ EsFlujo(o5)
      /\ EsFlujo(o6) /\ EsFlujo(o7) /\ EsFlujo(o8) /\ EsFlujo(o9)
      /\ Len(o1) = AnchoInt /\ Len(o2) = AnchoInt /\ Len(o3) = AnchoInt /\ Len(o4) = AnchoInt
      /\ Len(o5) = AnchoBool /\ Len(o6) = AnchoBool /\ Len(o7) = AnchoBool /\ Len(o8) = AnchoBool
      /\ Len(o9) = 4 * AnchoInt
      /\ AnchoInt \in Nat /\ AnchoBool \in Nat
  BY Anchos, RegistrosFlujo
<1>3. EsFlujo(o10) /\ Len(o10) = 2 * AnchoInt
  <2>1. ASSUME NEW x, NEW y
        PROVE  EsFlujo(Entero(x) \o Entero(y)) /\ Len(Entero(x) \o Entero(y)) = 2 * AnchoInt
    <3>1. /\ EsFlujo(Entero(x)) /\ EsFlujo(Entero(y)) /\ Len(Entero(x)) = AnchoInt
          /\ Len(Entero(y)) = AnchoInt
      BY Anchos
    <3>2. Len(Entero(x) \o Entero(y)) = AnchoInt + AnchoInt /\ EsFlujo(Entero(x) \o Entero(y))
      BY <3>1, Concatenado
    <3> QED BY <1>2, <3>2
  <2> QED BY <2>1 DEF empaquetar_pagina
<1> HIDE DEF o1, o2, o3, o4, o5, o6, o7, o8, o9, o10
<1>4. EsFlujo(a) /\ Len(a) = 4 * AnchoInt
  <2>1. EsFlujo(o1 \o o2) /\ Len(o1 \o o2) = 2 * AnchoInt
    <3> HIDE DEF a, c
    <3>1. EsFlujo(o1 \o o2) /\ Len(o1 \o o2) = Len(o1) + Len(o2)
      BY <1>2, Concatenado
    <3> QED BY <1>2, <3>1
  <2> DEFINE u == o1 \o o2
  <2> HIDE DEF u
  <2>2. EsFlujo(u \o o3) /\ Len(u \o o3) = 3 * AnchoInt
    <3> HIDE DEF a, c
    <3>1. EsFlujo(u) /\ Len(u) = 2 * AnchoInt
      BY <2>1 DEF u
    <3>2. EsFlujo(u \o o3) /\ Len(u \o o3) = Len(u) + Len(o3)
      BY <1>2, <3>1, Concatenado
    <3> QED BY <1>2, <3>1, <3>2
  <2> DEFINE v == u \o o3
  <2> HIDE DEF v
  <2>3. EsFlujo(v \o o4) /\ Len(v \o o4) = 4 * AnchoInt
    <3> HIDE DEF a, c
    <3>1. EsFlujo(v) /\ Len(v) = 3 * AnchoInt
      BY <2>2 DEF v
    <3>2. EsFlujo(v \o o4) /\ Len(v \o o4) = Len(v) + Len(o4)
      BY <1>2, <3>1, Concatenado
    <3> QED BY <1>2, <3>1, <3>2
  <2> QED BY <2>3 DEF u, v
<1> HIDE DEF a
<1>5. EsFlujo(c) /\ Len(c) = LugarRegistros
  <2>1. EsFlujo(a \o o5) /\ Len(a \o o5) = 4 * AnchoInt + AnchoBool
    <3> HIDE DEF c
    <3>1. EsFlujo(a \o o5) /\ Len(a \o o5) = Len(a) + Len(o5)
      BY <1>2, <1>4, Concatenado
    <3> QED BY <1>2, <1>4, <3>1
  <2> DEFINE u == a \o o5
  <2> HIDE DEF u
  <2>2. EsFlujo(u \o o6) /\ Len(u \o o6) = 4 * AnchoInt + 2 * AnchoBool
    <3> HIDE DEF c
    <3>1. EsFlujo(u) /\ Len(u) = 4 * AnchoInt + AnchoBool
      BY <2>1 DEF u
    <3>2. EsFlujo(u \o o6) /\ Len(u \o o6) = Len(u) + Len(o6)
      BY <1>2, <3>1, Concatenado
    <3> QED BY <1>2, <3>1, <3>2
  <2> DEFINE v == u \o o6
  <2> HIDE DEF v
  <2>3. EsFlujo(v \o o7) /\ Len(v \o o7) = 4 * AnchoInt + 3 * AnchoBool
    <3> HIDE DEF c
    <3>1. EsFlujo(v) /\ Len(v) = 4 * AnchoInt + 2 * AnchoBool
      BY <2>2 DEF v
    <3>2. EsFlujo(v \o o7) /\ Len(v \o o7) = Len(v) + Len(o7)
      BY <1>2, <3>1, Concatenado
    <3> QED BY <1>2, <3>1, <3>2
  <2> DEFINE w == v \o o7
  <2> HIDE DEF w
  <2>4. EsFlujo(w \o o8) /\ Len(w \o o8) = 4 * AnchoInt + 4 * AnchoBool
    <3> HIDE DEF c
    <3>1. EsFlujo(w) /\ Len(w) = 4 * AnchoInt + 3 * AnchoBool
      BY <2>3 DEF w
    <3>2. EsFlujo(w \o o8) /\ Len(w \o o8) = Len(w) + Len(o8)
      BY <1>2, <3>1, Concatenado
    <3> QED BY <1>2, <3>1, <3>2
  <2> QED BY <2>4 DEF u, v, w, LugarRegistros, LugarFlags
<1> HIDE DEF c
<1>6. LugarRegistros \in Nat /\ LugarPagina = LugarRegistros + 4 * AnchoInt
  BY <1>2 DEF LugarRegistros, LugarFlags, LugarPagina
<1>7. EsFlujo(c \o o9) /\ Len(c \o o9) = LugarPagina
  BY <1>2, <1>5, <1>6, Concatenado
<1>8. EsFlujo((c \o o9) \o o10) /\ Len((c \o o9) \o o10) = LugarPagina + 2 * AnchoInt
  BY <1>3, <1>7, Concatenado
<1> QED BY <1>1, <1>8

\* A PCB crosses the sockets between kernel and CPU whole, whatever its program, its segments
\* and its state are, and its reader takes exactly its bytes (enviar_pcb, recibir_pcb).
THEOREM PcbEntero ==
    ASSUME NEW pcb, EsPcb(pcb)
    PROVE  /\ EsFlujo(empaquetar_pcb(pcb))
           /\ deserializar_pcb(empaquetar_pcb(pcb)) =
                [valor |-> Viajado(pcb), d |-> Len(empaquetar_pcb(pcb))]
<1> DEFINE c == campos_fijos_pcb(pcb)
           x == empaquetar_instrucciones(pcb.instrucciones)
           y == empaquetar_tabla_segmentos(pcb.tabla_de_segmentos)
           b == (c \o x) \o y
           e == LugarPagina + 2 * AnchoInt
           h == e + Len(x)
           lista == pcb.instrucciones
           tabla == pcb.tabla_de_segmentos
<1>1. EsFlujo(c) /\ Len(c) = e /\ EsFlujo(x) /\ EsFlujo(y)
  BY CamposFijosFlujo, ListasFlujo DEF EsPcb
<1>2. empaquetar_pcb(pcb) = b
  BY DEF empaquetar_pcb
<1>3. deserializar_campos_fijos(b, lista, tabla) = Viajado(pcb)
  <2> HIDE DEF x, y
  <2>1. EsFlujo(x \o y)
    BY <1>1, Concatenado
  <2>2. b = c \o (x \o y)
    <3> HIDE DEF c
    <3>1. EsFlujo(c) /\ EsFlujo(x) /\ EsFlujo(y)
      BY ONLY <1>1
    <3>2. (c \o x) \o y = c \o (x \o y)
      <4>1. TresFlujos(c, x, y)
        BY ONLY <3>1 DEF TresFlujos
      <4>2. Asocian(c, x, y)
        BY ONLY <4>1, AsociativaDe
      <4> QED BY ONLY <4>2 DEF Asocian
    <3> QED BY <3>2
  <2> HIDE DEF b
  <2>3. pcb.registros = [AX |-> pcb.registros.AX, BX |-> pcb.registros.BX,
                         CX |-> pcb.registros.CX, DX |-> pcb.registros.DX]
        /\ (pcb.pagina_fault # Nulo =>
              pcb.pagina_fault = <<pcb.pagina_fault[1], pcb.pagina_fault[2]>>)
    BY DEF EsPcb, TieneCampos
  <2> DEFINE u == x \o y
  <2> HIDE DEF u
  <2>4. deserializar_campos_fijos(campos_fijos_pcb(pcb) \o u, lista, tabla) =
          [pid |-> pcb.pid, program_counter |-> pcb.program_counter,
           estado |-> pcb.estado, socket_consola |-> pcb.socket_consola,
           interrupcion |-> pcb.interrupcion, con_desalojo |-> pcb.con_desalojo,
           page_fault |-> pcb.page_fault, segmentation_fault |-> pcb.segmentation_fault,
           registros |-> [AX |-> pcb.registros.AX, BX |-> pcb.registros.BX,
                          CX |-> pcb.registros.CX, DX |-> pcb.registros.DX],
           pagina_fault |-> IF pcb.pagina_fault = Nulo THEN <<-1, -1>>
                            ELSE <<pcb.pagina_fault[1], pcb.pagina_fault[2]>>,
           instrucciones |-> lista, tabla_de_segmentos |-> tabla,
           tamanio_segmentos |-> Nulo]
    BY <2>1, CamposFijosEnteros DEF u
  <2>5. b = campos_fijos_pcb(pcb) \o u
    BY <2>2 DEF u
  <2> QED BY <2>3, <2>4, <2>5 DEF Viajado
<1> HIDE DEF c, x, y
<1>4. EsFlujo(c \o x) /\ Len(c \o x) = h /\ EsFlujo(b) /\ h \in Nat /\ e \in Nat
      /\ Len(b) = h + Len(y)
  <2>1. e \in Nat /\ Len(x) \in Nat
    BY <1>1, LargoFlujo
  <2>2. EsFlujo(c \o x) /\ Len(c \o x) = h
    BY <1>1, Concatenado
  <2> HIDE DEF h
  <2> DEFINE u == c \o x
  <2> HIDE DEF u
  <2>3. EsFlujo(u \o y) /\ Len(u \o y) = h + Len(y)
    BY <1>1, <2>2, Concatenado DEF u
  <2> QED BY <2>1, <2>2, <2>3 DEF u, h
<1>5. Tiene(b, e, x) /\ Tiene(b, h, y)
  <2>1. Tiene(b, Len(c), x)
    BY <1>1, TieneEnMedio
  <2>2. Tiene(b, Len(c \o x), y)
    BY <1>1, <1>4, TieneAlFinal
  <2> QED BY <1>1, <1>4, <2>1, <2>2
<1> HIDE DEF b
<1>6. deserializar_instrucciones(b, e) = [valor |-> pcb.instrucciones, d |-> h]
  BY <1>4, <1>5, InstruccionesLeidas DEF EsPcb, x
<1> HIDE DEF h
<1>7. deserializar_tabla_segmentos(b, h) = [valor |-> pcb.tabla_de_segmentos, d |-> Len(b)]
  BY <1>4, <1>5, SegmentosLeidos DEF EsPcb, y
<1> HIDE DEF e
<1>8. deserializar_pcb(b) = [valor |-> Viajado(pcb), d |-> Len(b)]
  BY <1>3, <1>6, <1>7 DEF deserializar_pcb, e
<1> QED BY <1>2, <1>4, <1>8
=============================================================================
