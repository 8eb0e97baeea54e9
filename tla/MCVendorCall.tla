------------------------------ MODULE MCVendorCall ------------------------------
EXTENDS VendorCall
================================================================================
