---------------------------- MODULE MCReportExport ---------------------------
EXTENDS ReportExport
=============================================================================
