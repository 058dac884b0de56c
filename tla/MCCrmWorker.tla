------------------------------ MODULE MCCrmWorker ------------------------------
EXTENDS CrmWorker
=============================================================================
