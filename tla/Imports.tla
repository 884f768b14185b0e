------------------------------ MODULE Imports -------------------------------
(***************************************************************************)
(* Importing customers from a sheet, and exporting tables as CSV.          *)
(* Modelled code: src/internal/app/importexport/service.go,                *)
(* src/internal/domain/importexport/, src/internal/domain/shared/csv.go    *)
(* and src/internal/adapter/postgres/importexport/repository.go.           *)
(*                                                                         *)
(* A confirmed job is processed by the request that confirmed it and, from *)
(* the queue, by the worker as well: a desk stands for either.  Each of    *)
(* them keeps the copy of the job it has read and writes it back whole.    *)
(***************************************************************************)
EXTENDS Rows, Integers, Sequences, SequencesExt, FiniteSetsExt

CONSTANTS SheetRows,     \* the sheet: its rows' phones, "" for a row that does not validate
          MaxImportWork, \* edits, confirmations and worker deliveries explored
          MaxImportCrashes

(* A file has finitely many rows of text, and finitely many passes overlap.*)
ASSUME ImportAssumption == SheetRows \in Seq(STRING) /\ IsFiniteSet(Desks)

VARIABLES
    impJob,              \* import_jobs: the job's row, NoRow before the upload
    impErrors,           \* import_row_errors of the job: numbers of the rows
    impCusts,            \* customers: phone -> the rows it has
    impQueue,            \* the worker's queue holds the job
    impTold,             \* outbox: ImportCompleted events, as the status they carry
    impDesk,             \* desk -> what it has read and where it stands
    impWork, impCrashes, \* bounds
    sheetAnswer          \* one question about sheets and its answer

importVars == <<impJob, impErrors, impCusts, impQueue, impTold, impDesk, impWork, impCrashes>>
sheetVars == <<importVars, sheetAnswer>>

-----------------------------------------------------------------------------
(* Jobs.                                                                   *)
ImportModes == {"create", "update", "upsert"}
ImportStatuses == {"uploaded", "mapped", "validated", "queued", "processing", "completed", "failed"}
EntityTypes == {"customers", "bookings", "payments", "departures"}
ValidEntityType(e) == e \in EntityTypes
ValidMode(m) == m \in ImportModes
Importable(e) == e = "customers"
ImportPhones == {SheetRows[i] : i \in DOMAIN SheetRows} \ {""}

CreateJob(row) == impJob' = row
UpdateJob(row) == impJob' = row
GetJob == {row \in {impJob} : row # NoRow}
ReplaceRowErrors(rows) == impErrors' = rows
ImportWork == impWork < MaxImportWork /\ impWork' = impWork + 1

(* A new job of an importable entity: a suggested mapping, nothing counted. *)
Upload ==
    /\ impJob = NoRow
    /\ \E entity \in EntityTypes, m \in ImportModes \cup {""} :
        LET mode == IF m = "" THEN "upsert" ELSE m IN
        /\ ValidEntityType(entity) /\ ValidMode(mode) /\ Importable(entity) /\ SheetRows # <<>>
        /\ CreateJob([mode |-> mode, status |-> "uploaded", success |-> 0, failed |-> 0, skipped |-> 0])
    /\ UNCHANGED <<impErrors, impCusts, impQueue, impTold, impDesk, impWork, impCrashes>>

(* Rows of the sheet that do not validate.                                 *)
FailedRows == {i \in DOMAIN SheetRows : SheetRows[i] = ""}

Editable(row) == row.status \in {"uploaded", "mapped", "validated"}
SetMapping(d) ==
    /\ impDesk[d] = Free /\ ImportWork
    /\ \E row \in GetJob, m \in ImportModes :
        /\ Editable(row) /\ ValidMode(m)
        /\ impDesk' = [impDesk EXCEPT ![d] = [op |-> "write", row |-> [row EXCEPT !.mode = m, !.status = "mapped"]]]
    /\ UNCHANGED <<impJob, impErrors, impCusts, impQueue, impTold, impCrashes>>
(* Validating replaces the errors first and writes the row after.          *)
Validate(d) ==
    /\ impDesk[d] = Free /\ ImportWork
    /\ \E row \in GetJob :
        /\ Editable(row)
        /\ impDesk' = [impDesk EXCEPT ![d] = [op |-> "write",
                        row |-> [row EXCEPT !.failed = Cardinality(FailedRows), !.status = "validated"]]]
    /\ ReplaceRowErrors(FailedRows)
    /\ UNCHANGED <<impJob, impCusts, impQueue, impTold, impCrashes>>
WriteEdit(d) ==
    /\ impDesk[d].op = "write"
    /\ UpdateJob(impDesk[d].row)
    /\ impDesk' = [impDesk EXCEPT ![d] = Free]
    /\ UNCHANGED <<impErrors, impCusts, impQueue, impTold, impWork, impCrashes>>

-----------------------------------------------------------------------------
(* Confirming and processing.                                              *)
Confirm(d) ==
    /\ impDesk[d] = Free /\ ImportWork
    /\ \E row \in GetJob :
        /\ row.status \in {"validated", "mapped", "queued"}
        /\ impDesk' = [impDesk EXCEPT ![d] = [op |-> "confirm", row |-> [row EXCEPT !.status = "queued"]]]
    /\ UNCHANGED <<impJob, impErrors, impCusts, impQueue, impTold, impCrashes>>
ConfirmWrite(d) ==
    /\ impDesk[d].op = "confirm"
    /\ UpdateJob(impDesk[d].row)
    /\ impDesk' = [impDesk EXCEPT ![d] = [op |-> "enqueue"]]
    /\ UNCHANGED <<impErrors, impCusts, impQueue, impTold, impWork, impCrashes>>
(* Under its unique key the job is queued once; a failure is ignored.      *)
ConfirmEnqueue(d) ==
    /\ impDesk[d].op = "enqueue"
    /\ impQueue' \in {TRUE, impQueue}
    /\ impDesk' = [impDesk EXCEPT ![d] = [op |-> "process", worker |-> FALSE]]
    /\ UNCHANGED <<impJob, impErrors, impCusts, impTold, impWork, impCrashes>>
(* The worker takes the job; it stays queued until it has been processed.  *)
ProcessByStringID(d) ==
    /\ impDesk[d] = Free /\ impQueue /\ ImportWork
    /\ impDesk' = [impDesk EXCEPT ![d] = [op |-> "process", worker |-> TRUE]]
    /\ UNCHANGED <<impJob, impErrors, impCusts, impQueue, impTold, impCrashes>>
(* The queue after a pass: the worker's own is gone when it went well, and *)
(* may be tried again when it did not.                                     *)
PassEnds(t, well) == impQueue' \in (IF ~t.worker THEN {impQueue} ELSE IF well THEN {FALSE} ELSE {FALSE, impQueue})
(* What Process reads decides: done, refused, or begun.                    *)
ProcessRead(d) ==
    /\ impDesk[d].op = "process"
    /\ \E row \in GetJob :
        IF row.status \in {"queued", "validated", "mapped", "processing"}
        THEN /\ impDesk' = [impDesk EXCEPT ![d] = [op |-> "start", worker |-> impDesk[d].worker,
                            row |-> [row EXCEPT !.status = "processing", !.success = 0, !.failed = 0, !.skipped = 0]]]
             /\ UNCHANGED impQueue
        ELSE /\ impDesk' = [impDesk EXCEPT ![d] = Free]
             /\ PassEnds(impDesk[d], row.status = "completed")
    /\ UNCHANGED <<impJob, impErrors, impCusts, impTold, impWork, impCrashes>>
ProcessBegin(d) ==
    /\ impDesk[d].op = "start"
    /\ UpdateJob(impDesk[d].row)
    /\ impDesk' = [impDesk EXCEPT ![d] = [op |-> "row", worker |-> impDesk[d].worker, row |-> impDesk[d].row, at |-> 1, errors |-> {}]]
    /\ UNCHANGED <<impErrors, impCusts, impQueue, impTold, impWork, impCrashes>>

NextRow(t) == [t EXCEPT !.at = @ + 1]
Failed(t) == [NextRow(t) EXCEPT !.row.failed = @ + 1, !.errors = @ \cup {t.at}]
(* A batch is one transaction; here a batch is a row.  It looks the phone  *)
(* up and decides by the job's mode.                                       *)
FindByPhone(phone) == impCusts[phone] > 0
ApplyRead(d) ==
    /\ impDesk[d].op = "row" /\ impDesk[d].at <= Len(SheetRows)
    /\ LET t == impDesk[d]
           phone == SheetRows[t.at]
       IN  impDesk' = [impDesk EXCEPT ![d] =
             IF phone = "" THEN Failed(t)
             ELSE IF ~FindByPhone(phone) /\ t.row.mode = "update" THEN Failed(t)
             ELSE IF FindByPhone(phone) /\ t.row.mode = "create" THEN [NextRow(t) EXCEPT !.row.skipped = @ + 1]
             ELSE IF FindByPhone(phone) THEN [NextRow(t) EXCEPT !.row.success = @ + 1]
             ELSE [t EXCEPT !.op = "create"]]
    /\ UNCHANGED <<impJob, impErrors, impCusts, impQueue, impTold, impWork, impCrashes>>
ApplyCreate(d) ==
    /\ impDesk[d].op = "create"
    /\ LET t == impDesk[d] IN
        /\ impCusts' = [impCusts EXCEPT ![SheetRows[t.at]] = @ + 1]
        /\ impDesk' = [impDesk EXCEPT ![d] = [NextRow(t) EXCEPT !.op = "row", !.row.success = @ + 1]]
    /\ UNCHANGED <<impJob, impErrors, impQueue, impTold, impWork, impCrashes>>
(* The last statements of Process: the errors, then the row and its event. *)
ProcessErrors(d) ==
    /\ impDesk[d].op = "row" /\ impDesk[d].at > Len(SheetRows)
    /\ ReplaceRowErrors(impDesk[d].errors)
    /\ impDesk' = [impDesk EXCEPT ![d] = [op |-> "finish", worker |-> impDesk[d].worker,
                    row |-> [impDesk[d].row EXCEPT !.status = "completed"]]]
    /\ UNCHANGED <<impJob, impCusts, impQueue, impTold, impWork, impCrashes>>
Finish(d) ==
    /\ impDesk[d].op = "finish"
    /\ UpdateJob(impDesk[d].row)
    /\ impTold' = impTold \cup {impDesk[d].row.status}
    /\ impDesk' = [impDesk EXCEPT ![d] = Free]
    /\ PassEnds(impDesk[d], impDesk[d].row.status = "completed")
    /\ UNCHANGED <<impErrors, impCusts, impWork, impCrashes>>
(* A failed statement stops the pass: the job is failed, the event told.   *)
(* The counters of the row are those the pass began with.                  *)
FailJob(d) ==
    /\ impDesk[d].op \in {"row", "create"} /\ ImportWork
    /\ impDesk' = [impDesk EXCEPT ![d] = [op |-> "finish", worker |-> impDesk[d].worker,
                    row |-> [impDesk[d].row EXCEPT !.status = "failed", !.success = 0, !.failed = 0, !.skipped = 0]]]
    /\ UNCHANGED <<impJob, impErrors, impCusts, impQueue, impTold, impCrashes>>
(* A process dies: what it held is gone, what it committed stays.          *)
ImportCrash(d) ==
    /\ impDesk[d] # Free /\ impCrashes < MaxImportCrashes
    /\ impCrashes' = impCrashes + 1
    /\ impDesk' = [impDesk EXCEPT ![d] = Free]
    /\ UNCHANGED <<impJob, impErrors, impCusts, impQueue, impTold, impWork>>

ImportInit ==
    /\ impJob = NoRow /\ impErrors = {} /\ impQueue = FALSE /\ impTold = {} /\ impWork = 0 /\ impCrashes = 0
    /\ impCusts = [p \in ImportPhones |-> 0]
    /\ impDesk = [d \in Desks |-> Free]
    /\ sheetAnswer = Free
ImportNext ==
    /\ \/ Upload
       \/ \E d \in Desks :
            \/ SetMapping(d) \/ Validate(d) \/ WriteEdit(d)
            \/ Confirm(d) \/ ConfirmWrite(d) \/ ConfirmEnqueue(d) \/ ProcessByStringID(d)
            \/ ProcessRead(d) \/ ProcessBegin(d) \/ ApplyRead(d) \/ ApplyCreate(d)
            \/ ProcessErrors(d) \/ Finish(d) \/ FailJob(d) \/ ImportCrash(d)
    /\ UNCHANGED sheetAnswer
-----------------------------------------------------------------------------
(* Cells.  A cell is a sequence of characters of four kinds: the quote, a  *)
(* character that starts a formula, a tab (which starts one too and is     *)
(* white space), and any other.                                            *)
Formula == {"=", "t"}
Cells == SeqOf({"'", "=", "t", "x"}, 3)
TrimSpace(c) ==
    LET kept == {i \in DOMAIN c : c[i] # "t"} IN
    IF kept = {} THEN <<>> ELSE SubSeq(c, Min(kept), Max(kept))
NeutralizeCSVCell(c) == IF c # <<>> /\ c[1] \in Formula THEN <<"'">> \o c ELSE c
RestoreCSVCell(c) == IF Len(c) >= 2 /\ c[1] = "'" /\ c[2] \in Formula THEN Tail(c) ELSE c
(* Rows of cells.                                                          *)
TrimRow(row) == [i \in DOMAIN row |-> RestoreCSVCell(TrimSpace(row[i]))]
RowEmpty(row) == \A i \in DOMAIN row : TrimSpace(row[i]) = <<>>
PadRow(row, n) == [i \in 1..n |-> IF i <= Len(row) THEN row[i] ELSE <<>>]
PreviewLimit == 1
PreviewRows(rows) == SubSeq(rows, 1, Min({Len(rows), PreviewLimit}))
BuildCSV(headers, rows) == <<headers>> \o [i \in DOMAIN rows |-> PadRow(rows[i], Len(headers))]
BuildCSVFromMaps(headers, rows) == BuildCSV(headers, [i \in DOMAIN rows |-> [j \in DOMAIN headers |-> NeutralizeCSVCell(rows[i][headers[j]])]])
ErrorsCSV(errs) == BuildCSVFromMaps(<<"row_number", "field", "message">>, errs)
ParseCSV(records) ==
    LET rows == [i \in 1..(Len(records) - 1) |-> TrimRow(records[i + 1])] IN
    [headers |-> records[1], rows |-> [i \in DOMAIN SelectSeq(rows, LAMBDA r : ~RowEmpty(r)) |->
        PadRow(SelectSeq(rows, LAMBDA r : ~RowEmpty(r))[i], Len(records[1]))]]
(* A workbook's first sheet is read the same way.                          *)
ParseXLSX(sheets) == {ParseCSV(sheets[i]) : i \in {1} \cap DOMAIN sheets}
ParseFile(isBook, sheets) == IF isBook THEN ParseXLSX(sheets) ELSE {ParseCSV(sheets[1])}

-----------------------------------------------------------------------------
(* Fields: what each entity's sheet may hold, and which are required.      *)
Field(key, type, required) == [key |-> key, type |-> type, required |-> required]
FieldCatalog(entity) ==
    CASE entity = "customers" ->
            {Field("full_name", "string", TRUE), Field("phone", "phone", TRUE), Field("date_of_birth", "date", FALSE)}
            \cup {Field(k, "string", FALSE) : k \in {"full_name_ar", "email", "nationality", "passport_no", "notes", "special_requirements"}}
      [] entity = "bookings" ->
            {Field("customer_phone", "phone", TRUE), Field("departure_code", "string", TRUE), Field("status", "status", FALSE),
             Field("pax_count", "int", FALSE), Field("total_amount", "money", FALSE), Field("currency", "currency", FALSE), Field("notes", "string", FALSE)}
      [] entity = "payments" ->
            {Field("booking_id", "string", TRUE), Field("amount", "money", TRUE), Field("currency", "currency", FALSE), Field("status", "status", FALSE)}
            \cup {Field(k, "string", FALSE) : k \in {"method", "reference", "note"}}
      [] entity = "departures" ->
            {Field("package_code", "string", TRUE), Field("code", "string", TRUE), Field("depart_date", "date", TRUE), Field("return_date", "date", FALSE),
             Field("capacity_total", "int", FALSE), Field("base_price", "money", FALSE), Field("currency", "currency", FALSE)}
      [] OTHER -> {}
FieldKeys(entity) == {f.key : f \in FieldCatalog(entity)}
(* Other names of a field; a field's key is a name of it.                  *)
FieldAliases ==
    [phone |-> {"mobile", "tel", "telephone", "cell", "cellphone"}, full_name |-> {"name", "fullname", "customer_name"},
     full_name_ar |-> {"name_ar", "arabic_name"}, email |-> {"e_mail", "mail"}, nationality |-> {"nation", "country"},
     passport_no |-> {"passport", "passport_number"}, date_of_birth |-> {"dob", "birth_date", "birthday", "birthdate"},
     status |-> {"state"}, currency |-> {"curr"}, departure_code |-> {"depart_code"}, pax_count |-> {"pax", "passengers"},
     total_amount |-> {"total"}, booking_id |-> {"booking"}, method |-> {"payment_method"}, reference |-> {"ref"},
     package_code |-> {"package"}, code |-> {"departure"}, depart_date |-> {"departure_date", "start_date"},
     return_date |-> {"end_date"}, capacity_total |-> {"capacity"}, base_price |-> {"price"},
     customer_phone |-> {}, notes |-> {}, note |-> {}, special_requirements |-> {}, amount |-> {}]
MatchAlias(header) == {f \in DOMAIN FieldAliases : header = f \/ header \in FieldAliases[f]}
(* Each field takes the first header that names it.                        *)
SuggestMapping(headers) ==
    LET named == UNION {MatchAlias(headers[i]) : i \in DOMAIN headers} IN
    [f \in named |-> headers[Min({i \in DOMAIN headers : f \in MatchAlias(headers[i])})]]
(* A header that occurs twice stands for its last column.                  *)
ColumnsOf(headers, h) == {i \in DOMAIN headers : headers[i] = h}
MapRow(headers, row, mapping) ==
    [f \in DOMAIN mapping |->
        IF \E i \in ColumnsOf(headers, mapping[f]) : Max(ColumnsOf(headers, mapping[f])) <= Len(row)
        THEN TrimSpace(row[Max(ColumnsOf(headers, mapping[f]))]) ELSE <<>>]

(* Values.  A date is written in one of the accepted forms, or is not one; *)
(* money is whole minor units, or a decimal in major ones.                 *)
NormalizeDate(v) == IF v.form \in {"iso", "dmy", "short", "rfc3339"} \/ (v.form = "serial" /\ v.day > 0) THEN {v.day} ELSE {}
WriteDate(day) == [form |-> "iso", day |-> day]
NormalizeMoney(v) == IF v.form = "junk" THEN {} ELSE IF v.form = "decimal" THEN {(v.units * 100) + v.cents} ELSE {v.units}
WriteMoney(n) == [form |-> "whole", units |-> n, cents |-> 0]
(* Other values are messy or clean; a phone or a number may be neither.    *)
NormalizeStatus(v) == IF v = "messy" THEN "clean" ELSE v
NormalizeCurrency(v) == IF v = "messy" THEN "clean" ELSE v
NormalizePhone(v) == IF v = "junk" THEN {} ELSE {"clean"}
NormalizeValue(type, v) ==
    CASE type = "status" -> {NormalizeStatus(v)}
      [] type = "currency" -> {NormalizeCurrency(v)}
      [] type = "phone" -> NormalizePhone(v)
      [] type \in {"int", "date", "money"} -> IF v = "junk" THEN {} ELSE {"clean"}
      [] OTHER -> {v}
(* The fields refused, and the values kept.                                *)
RowErrors(entity, values) ==
    {f.key : f \in {g \in FieldCatalog(entity) :
        IF values[g.key] = "" THEN g.required ELSE NormalizeValue(g.type, values[g.key]) = {}}}
ValidateMappedRow(entity, values) ==
    [f \in {g \in FieldCatalog(entity) : g.key \notin RowErrors(entity, values)} |->
        IF values[f.key] = "" THEN "" ELSE CHOOSE n \in NormalizeValue(f.type, values[f.key]) : TRUE]

-----------------------------------------------------------------------------
(* Exports.  A passport leaves masked unless it may be revealed; a masked  *)
(* one that comes back is not taken for a number.                          *)
MaskedCell == <<"x", "x", "x">>
MaskExportPassports(rows) == [i \in DOMAIN rows |-> [rows[i] EXCEPT !.passport_no = IF @ = <<>> THEN @ ELSE MaskedCell]]
ImportedPassport(c) == IF c = MaskedCell THEN <<>> ELSE c
PatchCustomer(row, vals) ==
    [k \in DOMAIN row |->
        IF k \notin DOMAIN vals \/ (k = "passport_no" /\ vals[k] = MaskedCell) \/ (k = "full_name" /\ vals[k] = <<>>) THEN row[k] ELSE vals[k]]
ExportHeaders == <<"full_name", "passport_no", "notes">>
(* Live rows of the branch, newest first, up to the limit.                 *)
ExportCustomers(rows, limit) ==
    LET live == SelectSeq(rows, LAMBDA r : r.live) IN
    [i \in 1..Min({limit, Len(live)}) |-> live[i].row]
ExportCSV(rows, limit, reveal) ==
    LET out == ExportCustomers(rows, IF limit <= 0 THEN 2 ELSE limit) IN
    BuildCSVFromMaps(ExportHeaders, IF reveal THEN out ELSE MaskExportPassports(out))
(* What an import reads of an export: one mapped row per line.             *)
ReadBack(records) ==
    LET sheet == ParseCSV(records) IN
    [i \in DOMAIN sheet.rows |-> MapRow(sheet.headers, sheet.rows[i], SuggestMapping(sheet.headers))]

(* One question about sheets at a time.                                    *)
SheetHeaders == {"phone", "mobile", "name", "other"}
SheetValues == {"", "clean", "messy", "junk"}
Ask(what, in, out) == sheetAnswer' = [op |-> what, in |-> in, out |-> out]
AskCell == \E c \in Cells : Ask("cell", c, NeutralizeCSVCell(c))
AskMapping == \E headers \in SeqOf(SheetHeaders, 3) : Ask("mapping", headers, SuggestMapping(headers))
AskColumns == \E headers \in SeqOf(SheetHeaders, 2), row \in SeqOf({<<"x">>, <<>>}, 2) :
                Ask("columns", [headers |-> headers, row |-> row], MapRow(headers, PadRow(row, Len(headers)), SuggestMapping(headers)))
AskDate == \E v \in [form : {"iso", "dmy", "short", "rfc3339", "serial", "junk"}, day : 0..2] : Ask("date", v, NormalizeDate(v))
AskMoney == \E v \in [form : {"whole", "decimal", "junk"}, units : 0..2, cents : {0, 50}] : Ask("money", v, NormalizeMoney(v))
AskRow == \E entity \in EntityTypes : \E odd \in FieldKeys(entity), v \in SheetValues, w \in SheetValues :
            LET values == [k \in FieldKeys(entity) |-> IF k = odd THEN v ELSE w] IN
            Ask("row", [entity |-> entity, values |-> values], [errors |-> RowErrors(entity, values), kept |-> ValidateMappedRow(entity, values)])
AskExport == \E name \in {<<"x">>, <<"=", "x">>}, pass \in {<<>>, <<"x", "x">>}, notes \in Cells, limit \in 0..1, reveal, live \in BOOLEAN :
                LET row == [full_name |-> name, passport_no |-> pass, notes |-> TrimSpace(notes)]
                    table == <<[live |-> live, row |-> row], [live |-> TRUE, row |-> row]>>
                IN  Ask("export", [row |-> row, table |-> table, limit |-> limit, reveal |-> reveal], ExportCSV(table, limit, reveal))
AskSheet ==
    /\ sheetAnswer = Free
    /\ AskCell \/ AskMapping \/ AskColumns \/ AskDate \/ AskMoney \/ AskRow \/ AskExport
    /\ UNCHANGED importVars

-----------------------------------------------------------------------------
(* Properties.                                                             *)
ImportTypeOK ==
    /\ impJob # NoRow => /\ impJob.mode \in ImportModes /\ impJob.status \in ImportStatuses
                         /\ {impJob.success, impJob.failed, impJob.skipped} \subseteq 0..Len(SheetRows)
    /\ impErrors \subseteq DOMAIN SheetRows
    /\ impCusts \in [ImportPhones -> Nat] /\ impQueue \in BOOLEAN
    /\ impTold \subseteq {"completed", "failed"}

(* A completed job accounts for every row of its sheet, and somebody was   *)
(* told of it; Process writes both in one transaction.                     *)
CompletedAddsUp ==
    (impJob # NoRow /\ impJob.status = "completed") =>
        /\ impJob.success + impJob.failed + impJob.skipped = Len(SheetRows)
        /\ "completed" \in impTold
(* Whatever passes overlapped, failed or died, a completed import of new   *)
(* customers left a customer for each phone that validated.                *)
EveryRowImported ==
    (impJob # NoRow /\ impJob.status = "completed" /\ impJob.mode # "update") =>
        \A p \in ImportPhones : impCusts[p] > 0
(* Passes that overlap may each create the customer of one phone, as no    *)
(* index forbids it; a retry after the fact finds the first.               *)
DuplicatesBounded == \A p \in ImportPhones : impCusts[p] <= Cardinality(Desks)

(* A cell that was neutralised starts no formula, and comes back as it     *)
(* was, up to white space, unless it is blank or was written quoted.       *)
CellsComeBack ==
    sheetAnswer.op = "cell" =>
        LET c == sheetAnswer.in
            quoted == TrimSpace(c) # RestoreCSVCell(TrimSpace(c))
        IN  /\ sheetAnswer.out # <<>> => sheetAnswer.out[1] \notin Formula
            /\ (~quoted /\ TrimSpace(c) # <<>>) => TrimSpace(RestoreCSVCell(TrimSpace(sheetAnswer.out))) = TrimSpace(c)
(* A suggested mapping reads each field from a column that names it, and   *)
(* the sheet an export writes names every field of its entity.             *)
MappingHolds ==
    /\ sheetAnswer.op = "mapping" =>
        \A f \in DOMAIN sheetAnswer.out : \E i \in DOMAIN sheetAnswer.in :
            /\ sheetAnswer.in[i] = sheetAnswer.out[f] /\ f \in MatchAlias(sheetAnswer.in[i])
            /\ \A j \in 1..(i - 1) : f \notin MatchAlias(sheetAnswer.in[j])
    /\ sheetAnswer.op = "columns" => DOMAIN sheetAnswer.out = UNION {MatchAlias(sheetAnswer.in.headers[i]) : i \in DOMAIN sheetAnswer.in.headers}
    /\ sheetAnswer.op = "row" => \A k \in FieldKeys(sheetAnswer.in.entity) : MatchAlias(k) = {k}
(* A value kept is in normal form: the second reading, which applying a    *)
(* row makes, changes nothing and refuses nothing.                         *)
NormalFormStable ==
    /\ sheetAnswer.op = "date" => \A day \in sheetAnswer.out : NormalizeDate(WriteDate(day)) = {day}
    /\ sheetAnswer.op = "money" => \A n \in sheetAnswer.out : NormalizeMoney(WriteMoney(n)) = {n}
    /\ sheetAnswer.op = "row" =>
        LET kept == sheetAnswer.out.kept IN
        /\ {f.key : f \in DOMAIN kept} \cap sheetAnswer.out.errors = {}
        /\ \A f \in DOMAIN kept : kept[f] # "" => NormalizeValue(f.type, kept[f]) = {kept[f]}
        /\ \A f \in DOMAIN kept : f.required => kept[f] # ""
(* An export read back changes nothing of the customer it came from, seen  *)
(* or masked, and no hidden customer leaves.                               *)
ExportReadsBack ==
    sheetAnswer.op = "export" =>
        LET in == sheetAnswer.in
            back == ReadBack(sheetAnswer.out)
            quoted == RestoreCSVCell(in.row.notes) # in.row.notes
        IN  /\ Len(sheetAnswer.out) - 1 <= Cardinality({i \in DOMAIN in.table : in.table[i].live})
            /\ ~quoted => \A i \in DOMAIN back : PatchCustomer(in.row, back[i]) = in.row
            /\ ~in.reveal => \A i \in DOMAIN back : ImportedPassport(back[i]["passport_no"]) = <<>>
=============================================================================
