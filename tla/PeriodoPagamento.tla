--------------------------- MODULE PeriodoPagamento ---------------------------
(***************************************************************************)
(* The calendar of the payments.  A day is an integer; day 0 is a Sunday,  *)
(* so DiaDaSemana(d) is what getDay() and extract(dow) return.             *)
(*                                                                         *)
(* Orders captured from Friday to Monday are paid on Tuesday, those from   *)
(* Tuesday to Thursday on Friday.  The rule is written several times in    *)
(* the code: calcularPeriodoPagamento (the hourly job), the exec of the    *)
(* consortia, the two SQL tables of the monthly report, its detail, and    *)
(* the report of gratuities.  Each copy is an operator here; that they     *)
(* agree is proved in PeriodoPagamento_proofs.                             *)
(***************************************************************************)
EXTENDS Integers

Domingo == 0
Segunda == 1
Terca   == 2
Quarta  == 3
Quinta  == 4
Sexta   == 5
Sabado  == 6

DiaDaSemana(d) == d % 7

\* nextMonday ... nextFriday of date-fns: the first such day after d.
Proximo(d, dia) == d + ((dia - DiaDaSemana(d) + 6) % 7) + 1

FimDeSemanaEstendido(d) == DiaDaSemana(d) \in {Sexta, Sabado, Domingo, Segunda}

\* `|| 7`: no remainder is a whole week.
OuSemana(n) == IF n = 0 THEN 7 ELSE n

GetPreviousFriday(d)  == d - OuSemana((DiaDaSemana(d) + 2) % 7)
GetPreviousTuesday(d) == d - OuSemana((DiaDaSemana(d) + 5) % 7)

-----------------------------------------------------------------------------
(* calcularPeriodoPagamento.                                               *)

\* Mutant: the cycle of Friday is taken to begin the day after.
DataInicioSemSexta(d) ==
    IF FimDeSemanaEstendido(d)
    THEN GetPreviousFriday(d)
    ELSE IF DiaDaSemana(d) = Terca THEN d ELSE GetPreviousTuesday(d)

DataInicio(d) ==
    IF FimDeSemanaEstendido(d)
    THEN IF DiaDaSemana(d) = Sexta THEN d ELSE GetPreviousFriday(d)
    ELSE IF DiaDaSemana(d) = Terca THEN d ELSE GetPreviousTuesday(d)

\* On the last day of a cycle this is a week ahead: orders of the cycles in
\* between do not exist yet.
DataFim(d) == IF FimDeSemanaEstendido(d) THEN Proximo(d, Segunda)
                                         ELSE Proximo(d, Quinta)

DataPagamento(d) == IF FimDeSemanaEstendido(d) THEN Proximo(d, Terca)
                                               ELSE Proximo(d, Sexta)

\* getLimiteSeguroPendentes: the orders captured before it are of cycles
\* whose payment day has passed.
LimiteSeguro(d) ==
    IF DataInicio(d) = d THEN DataInicio(d - 1) ELSE DataInicio(d)

-----------------------------------------------------------------------------
(* The copies.                                                             *)

DiaDePagamento(d) == DiaDaSemana(d) \in {Terca, Sexta}

\* remessaConsorciosExec: the days sent on a payment day; none on another.
JanelaConsorcios(d) ==
    IF DiaDaSemana(d) = Terca THEN (d - 4)..(d - 1)
    ELSE IF DiaDaSemana(d) = Sexta THEN (d - 3)..(d - 1)
    ELSE {}

\* datas_base of the monthly report, and calcularJanelaPagamento of its
\* detail, for payment days after August 2025.
DatasBase(p) ==
    (IF DiaDaSemana(p) = Sexta THEN p - 3 ELSE p - 4)..(p - 1)

\* On a day that is not of payment, no day is subtracted.
CalcularJanelaPagamento(p) ==
    LET subDays == IF DiaDaSemana(p) = Sexta THEN 3
                   ELSE IF DiaDaSemana(p) = Terca THEN 4 ELSE 0
    IN  (p - subDays)..(p - 1)

\* capturas_com_referencia of the monthly report: Sunday first.
DataReferencia(d) == d + <<2, 1, 3, 2, 1, 4, 3>>[DiaDaSemana(d) + 1]

\* resolveStucPaymentWindow of the report of gratuities.
StucDataPagamento(d) ==
    IF FimDeSemanaEstendido(d) THEN Proximo(d, Terca) ELSE Proximo(d, Sexta)
StucDayIndex(d) == <<2, 3, 0, 1, 2, 0, 1>>[DiaDaSemana(d) + 1]

\* resolveStucWindowDays: the columns of a payment day; another day throws.
ResolveStucWindowDays(p) ==
    IF DiaDaSemana(p) = Terca THEN <<p - 4, p - 3, p - 2, p - 1>>
    ELSE IF DiaDaSemana(p) = Sexta THEN <<p - 3, p - 2, p - 1>>
    ELSE <<>>

-----------------------------------------------------------------------------
(* What the calendar has to satisfy, day by day.                           *)

\* The days paid together with d.
Ciclo(d) == DataInicio(d)..(DataPagamento(d) - 1)

\* The cycle of a day holds it, and a day is in it exactly when it has the
\* same payment: no order is left between two cycles, or is in both.
CicloLadrilha(d, e) == e \in Ciclo(d) <=> DataPagamento(e) = DataPagamento(d)

\* The reports and the file of the consortia show a day under the payment
\* the job gives it, and the gratuities in the column of that day.
CopiasDe(d) ==
    LET p == DataPagamento(d)
    IN  /\ DiaDePagamento(p)
        /\ DataReferencia(d) = p
        /\ StucDataPagamento(d) = p
        /\ JanelaConsorcios(p) = Ciclo(d)
        /\ DatasBase(p) = Ciclo(d)
        /\ CalcularJanelaPagamento(p) = Ciclo(d)
        /\ ResolveStucWindowDays(p)[StucDayIndex(d) + 1] = d

\* An order before the safe limit has had its payment day.
LimiteProtege(d, e) == e < LimiteSeguro(d) => DataPagamento(e) < d
=============================================================================
