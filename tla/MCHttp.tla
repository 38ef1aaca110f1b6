------------------------------- MODULE MCHttp -------------------------------
(***************************************************************************)
(* The two HTTP clients.  They share nothing, so a behaviour exercises one  *)
(* of them, and the state spaces add up.                                    *)
(***************************************************************************)
EXTENDS Uploader, Downloader

VARIABLE client

httpVars == <<client, uploadVars, downloadVars>>

HttpInit ==
    /\ client \in {"uploader", "downloader"}
    /\ UploaderInit /\ DownloaderInit

HttpNext ==
    /\ UNCHANGED client
    /\ \/ client = "uploader" /\ UploaderNext /\ UNCHANGED downloadVars
       \/ client = "downloader" /\ DownloaderNext /\ UNCHANGED uploadVars

\* Fairness: slots return.  The network owes nothing.
SlotsReturn == client = "uploader" /\ Return /\ UNCHANGED <<client, downloadVars>>

HttpSpec == HttpInit /\ [][HttpNext]_httpVars /\ WF_httpVars(SlotsReturn)
=============================================================================
