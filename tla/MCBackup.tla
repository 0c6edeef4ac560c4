------------------------------- MODULE MCBackup -------------------------------
EXTENDS Backup

CONSTANTS v1, v2

MCValues == {v1, v2}
===============================================================================
