------------------------ MODULE PeriodoPagamento_proofs ------------------------
(***************************************************************************)
(* The calendar of the payments, proved for every day.                     *)
(***************************************************************************)
EXTENDS PeriodoPagamento, TLAPS

\* A day of the week is one of seven.
LEMMA DiaDaSemanaEmSete == ASSUME NEW d \in Int PROVE DiaDaSemana(d) \in 0..6
BY DEF DiaDaSemana

\* The begin of the cycle and the payment, without remainders.
LEMMA PorDiaDaSemana ==
    ASSUME NEW d \in Int
    PROVE  /\ DataInicio(d) = d - <<2, 3, 0, 1, 2, 0, 1>>[DiaDaSemana(d) + 1]
           /\ DataPagamento(d) = DataReferencia(d)
<1> DEFINE w == DiaDaSemana(d)
<1>1. w \in 0..6 BY DiaDaSemanaEmSete
<1>2. QED
  BY <1>1 DEF DataInicio, DataPagamento, DataReferencia, Proximo, FimDeSemanaEstendido,
     GetPreviousFriday, GetPreviousTuesday, OuSemana, Domingo, Segunda, Terca, Quarta,
     Quinta, Sexta, Sabado

\* A day is a week and a day of the week.
LEMMA SemanaEDia ==
    ASSUME NEW d \in Int
    PROVE  \E s \in Int : d = 7 * s + DiaDaSemana(d)
<1>1. d = 7 * (d \div 7) + (d % 7) BY SMT
<1>2. d \div 7 \in Int BY SMT
<1>3. QED BY <1>1, <1>2 DEF DiaDaSemana

\* The day of the week of a day given by its week.
LEMMA DiaDeSemana ==
    ASSUME NEW s \in Int, NEW w \in 0..6
    PROVE  DiaDaSemana(7 * s + w) = w
BY SMT DEF DiaDaSemana

\* The windows of calcularPeriodoPagamento tile the calendar: whatever the
\* day, the days of its cycle are those with the same payment.
THEOREM JanelasLadrilhamSempre ==
    ASSUME NEW d \in Int, NEW e \in Int
    PROVE  CicloLadrilha(d, e)
<1>1. DiaDaSemana(d) \in 0..6 /\ DiaDaSemana(e) \in 0..6 BY DiaDaSemanaEmSete
<1>2. PICK s \in Int : d = 7 * s + DiaDaSemana(d) BY SemanaEDia
<1>3. PICK t \in Int : e = 7 * t + DiaDaSemana(e) BY SemanaEDia
<1>4. /\ DataInicio(d) = d - <<2, 3, 0, 1, 2, 0, 1>>[DiaDaSemana(d) + 1]
      /\ DataPagamento(d) = DataReferencia(d)
      /\ DataPagamento(e) = DataReferencia(e)
  BY PorDiaDaSemana
<1>5. QED
  BY <1>1, <1>2, <1>3, <1>4, SMTT(60) DEF CicloLadrilha, Ciclo, DataReferencia

\* Every copy of the rule gives a day the payment, and a payment the days,
\* that calcularPeriodoPagamento does.
THEOREM CopiasConcordamSempre ==
    ASSUME NEW d \in Int
    PROVE  CopiasDe(d)
<1> DEFINE w == DiaDaSemana(d)
           p == DataPagamento(d)
<1>1. w \in 0..6 BY DiaDaSemanaEmSete
<1>2. PICK s \in Int : d = 7 * s + w BY SemanaEDia
<1>3. /\ DataInicio(d) = d - <<2, 3, 0, 1, 2, 0, 1>>[w + 1]
      /\ p = DataReferencia(d)
  BY PorDiaDaSemana
<1>4. p = IF w \in {5, 6} THEN 7 * (s + 1) + 2
          ELSE IF w \in {0, 1} THEN 7 * s + 2 ELSE 7 * s + 5
  BY <1>1, <1>2, <1>3 DEF DataReferencia
<1>5. p \in Int BY <1>4
<1>6. DiaDaSemana(p) = IF w \in {5, 6, 0, 1} THEN 2 ELSE 5
  <2>1. CASE w \in {5, 6}
    <3>1. p = 7 * s + 9 BY <1>4, <2>1
    <3>2. (7 * s + 9) % 7 = 2 BY SMT
    <3>3. QED BY <3>1, <3>2, <2>1 DEF DiaDaSemana
  <2>2. CASE w \in {0, 1}
    <3>1. p = 7 * s + 2 BY <1>4, <2>2
    <3>2. QED BY <3>1, <2>2, DiaDeSemana
  <2>3. CASE w \in {2, 3, 4}
    <3>1. p = 7 * s + 5 BY <1>4, <2>3
    <3>2. QED BY <3>1, <2>3, DiaDeSemana
  <2>4. QED BY <1>1, <2>1, <2>2, <2>3
<1>7. Ciclo(d) = IF w \in {5, 6, 0, 1} THEN (p - 4)..(p - 1) ELSE (p - 3)..(p - 1)
  <2>1. DataInicio(d) = IF w \in {5, 6, 0, 1} THEN p - 4 ELSE p - 3
    BY <1>1, <1>2, <1>3, <1>4
  <2>2. QED BY <2>1 DEF Ciclo
<1>8. DiaDePagamento(p)
  BY <1>6 DEF DiaDePagamento, Terca, Sexta
<1>9. StucDataPagamento(d) = p
  BY DEF StucDataPagamento, DataPagamento
<1>10. /\ JanelaConsorcios(p) = Ciclo(d)
       /\ DatasBase(p) = Ciclo(d)
       /\ CalcularJanelaPagamento(p) = Ciclo(d)
  <2>1. CASE w \in {5, 6, 0, 1}
    <3>1. DiaDaSemana(p) = Terca /\ Terca # Sexta BY <1>6, <2>1 DEF Terca, Sexta
    <3>2. Ciclo(d) = (p - 4)..(p - 1) BY <1>7, <2>1
    <3>3. QED
      BY <3>1, <3>2 DEF JanelaConsorcios, DatasBase, CalcularJanelaPagamento
  <2>2. CASE w \notin {5, 6, 0, 1}
    <3>1. DiaDaSemana(p) = Sexta /\ Terca # Sexta BY <1>6, <2>2 DEF Terca, Sexta
    <3>2. Ciclo(d) = (p - 3)..(p - 1) BY <1>7, <2>2
    <3>3. QED
      BY <3>1, <3>2 DEF JanelaConsorcios, DatasBase, CalcularJanelaPagamento
  <2>3. QED BY <2>1, <2>2
<1>11. ResolveStucWindowDays(p)[StucDayIndex(d) + 1] = d
  <2>1. CASE w \in {5, 6, 0, 1}
    <3>1. DiaDaSemana(p) = Terca BY <1>6, <2>1 DEF Terca
    <3>2. ResolveStucWindowDays(p) = <<p - 4, p - 3, p - 2, p - 1>>
      BY <3>1 DEF ResolveStucWindowDays
    <3>3. QED BY <3>2, <1>2, <1>4, <1>5, <2>1 DEF StucDayIndex
  <2>2. CASE w \in {2, 3, 4}
    <3>1. DiaDaSemana(p) = Sexta /\ Sexta # Terca BY <1>6, <2>2 DEF Terca, Sexta
    <3>2. ResolveStucWindowDays(p) = <<p - 3, p - 2, p - 1>>
      BY <3>1 DEF ResolveStucWindowDays
    <3>3. QED BY <3>2, <1>2, <1>4, <1>5, <2>2 DEF StucDayIndex
  <2>3. QED BY <1>1, <2>1, <2>2
<1>12. QED
  BY <1>3, <1>8, <1>9, <1>10, <1>11 DEF CopiasDe

\* The safe limit of the pending payments: an order captured before it has
\* had its own payment day, also when today is the first day of a cycle.
THEOREM LimiteProtegeSempre ==
    ASSUME NEW d \in Int, NEW e \in Int
    PROVE  LimiteProtege(d, e)
<1>1. DiaDaSemana(d) \in 0..6 /\ DiaDaSemana(e) \in 0..6 BY DiaDaSemanaEmSete
<1>2. PICK s \in Int : d = 7 * s + DiaDaSemana(d) BY SemanaEDia
<1>3. PICK t \in Int : e = 7 * t + DiaDaSemana(e) BY SemanaEDia
<1>4. /\ DataInicio(d) = d - <<2, 3, 0, 1, 2, 0, 1>>[DiaDaSemana(d) + 1]
      /\ DataPagamento(e) = DataReferencia(e)
      /\ DataInicio(d - 1) = (d - 1) - <<2, 3, 0, 1, 2, 0, 1>>[DiaDaSemana(d - 1) + 1]
  BY PorDiaDaSemana
<1>5. DiaDaSemana(d) \in {2, 5} => DiaDaSemana(d - 1) = DiaDaSemana(d) - 1
  <2>1. d - 1 = 7 * s + (DiaDaSemana(d) - 1) BY <1>1, <1>2
  <2>2. QED BY <2>1, <1>1, DiaDeSemana
<1>6. QED
  BY <1>1, <1>2, <1>3, <1>4, <1>5, SMTT(60) DEF LimiteProtege, LimiteSeguro, DataReferencia
=============================================================================
