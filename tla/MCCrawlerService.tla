--------------------------- MODULE MCCrawlerService ---------------------------
(***************************************************************************)
(* Instance of CrawlerService: a chain that outgrows BLOCK_HISTORY, so     *)
(* that a run that begins late steps over blocks; chunks of several        *)
(* blocks; and two handlers, so that one can have sent while the other has *)
(* not.                                                                    *)
(***************************************************************************)
EXTENDS CrawlerService
=============================================================================
