----------------------------- MODULE Accounting -----------------------------
(***************************************************************************)
(* What internal/service/accounting_entry.go books for a payment and for   *)
(* a refund of it, and what the order view (UpdateOrderView of             *)
(* internal/repository/order.go) makes of the entries.                     *)
(*                                                                         *)
(* Amounts are integers in the unit ToPrecise rounds to. The facts f of an *)
(* order are what the handler reads of it, of the rates of its closing     *)
(* date, of the country and of the cost tables: percentages and rates are  *)
(* in hundredths, so a rate of 100 is the exchange of a currency with      *)
(* itself. A refund is always of the whole charge (processCreateRefund),   *)
(* so the code's partialRefundCorrection is 1.                             *)
(***************************************************************************)
EXTENDS Integers

\* What the handlers read: the charge and its tax, the VAT rate of the country and
\* whether VAT is enabled there, the four rates and the costs found in the tables.
Facts ==
    [charge : Nat, tax : Nat, taxRate : Nat, vatEnabled : BOOLEAN,
     common : Nat, merchant : Nat, centralBank : Nat, stock : Nat,
     psPercent : Nat, methodPercent : Nat, systemPercent : Nat, psFixedFee : Nat,
     methodFixAmount : Nat, systemFixAmount : Nat,
     backPercent : Nat, backFixAmount : Nat, backSystemPercent : Nat,
     backSystemFixAmount : Nat, isPaidByMerchant : BOOLEAN]

-----------------------------------------------------------------------------
(* Conversions.                                                            *)

\* External: tools.GetPercentPartFromAmount, the VAT contained in an amount.
GetPercentPartFromAmount(amount, rate) == (amount * rate) \div (100 + rate)

Percent(amount, percent) == (amount * percent) \div 100

\* External: ExchangeCurrencyByDateCommon and ExchangeCurrencyByDateForMerchant.
Exchange(amount, rate) == IF rate = 100 THEN amount ELSE (amount * rate) \div 100

\* The rate PaySuper buys the currency of the amount at, on the date of the payment.
GetExchangePsByDateCommon(f, amount) == Exchange(amount, f.common)

\* The rate it sells to the merchant at.
GetExchangePsByDateMerchant(f, amount) == Exchange(amount, f.merchant)

\* From the merchant's currency to the VAT currency at the central bank's rate ...
GetExchangeCbByDateCommon(f, amount) == Exchange(amount, f.centralBank)

\* ... and back at the stock rate.
GetExchangeStockByDateCommon(f, amount) == Exchange(amount, f.stock)

\* What the central bank's rate adds to an amount of tax that is paid in the VAT
\* currency, if the merchant's currency is sold for it at the stock rate.
CentralBankFx(f, amount) ==
    GetExchangeStockByDateCommon(f, GetExchangeCbByDateCommon(f, amount)) - amount

-----------------------------------------------------------------------------
(* processPaymentEvent.                                                    *)

\* Entries 1 to 10: the revenue and the taxes.
PaymentRevenue(f) ==
    LET gross   == GetExchangePsByDateCommon(f, f.charge)
        fx      == GetExchangePsByDateMerchant(f, f.charge) - gross
        taxCost == GetPercentPartFromAmount(gross - fx, f.taxRate)
        bankFx  == CentralBankFx(f, taxCost)
    IN  [realGrossRevenue |-> gross,
         realTaxFee |-> GetExchangePsByDateCommon(f, f.tax),
         centralBankTaxFee |-> 0,
         psGrossRevenueFx |-> fx,
         psGrossRevenueFxTaxFee |-> GetPercentPartFromAmount(fx, f.taxRate),
         merchantTaxFeeCostValue |-> taxCost,
         merchantTaxFeeCentralBankFx |-> IF f.vatEnabled /\ bankFx > 0 THEN bankFx ELSE 0]

\* Entries 12 to 22: the fees, on the merchant's gross revenue or on the real one.
PaymentFees(f) ==
    LET gross         == GetExchangePsByDateCommon(f, f.charge)
        merchantGross == 2 * gross - GetExchangePsByDateMerchant(f, f.charge)
    IN  [psMethodFee |-> Percent(merchantGross, f.psPercent),
         merchantMethodFee |-> Percent(merchantGross, f.methodPercent),
         merchantMethodFeeCostValue |-> Percent(gross, f.systemPercent),
         merchantMethodFixedFee |-> GetExchangePsByDateMerchant(f, f.methodFixAmount),
         realMerchantMethodFixedFee |-> GetExchangePsByDateCommon(f, f.methodFixAmount),
         realMerchantMethodFixedFeeCostValue |->
             GetExchangePsByDateCommon(f, f.systemFixAmount),
         merchantPsFixedFee |-> GetExchangePsByDateMerchant(f, f.psFixedFee),
         realMerchantPsFixedFee |-> GetExchangePsByDateCommon(f, f.psFixedFee)]

-----------------------------------------------------------------------------
(* processRefundEvent, with the entries pay of the order that is refunded.  *)

\* Mistake: the merchant pays back the charge without its tax.
RefundCostsNet(f, pay) ==
    LET real     == GetExchangePsByDateCommon(f, f.charge)
        merchant == GetExchangePsByDateMerchant(f, f.charge - f.tax)
    IN  [realRefund |-> real,
         realRefundTaxFee |-> pay.realTaxFee,
         realRefundFee |-> Percent(real, f.backSystemPercent),
         realRefundFixedFee |-> GetExchangePsByDateCommon(f, f.backSystemFixAmount),
         merchantRefund |-> merchant, merchantRefundFee |-> 0,
         merchantRefundFixedFeeCostValue |-> 0, merchantRefundFixedFee |-> 0]

\* Entries 1 to 11: what the customer gets back and what that costs.
RefundCosts(f, pay) ==
    LET real     == GetExchangePsByDateCommon(f, f.charge)
        merchant == GetExchangePsByDateMerchant(f, f.charge)
    IN  [realRefund |-> real,
         realRefundTaxFee |-> pay.realTaxFee,
         realRefundFee |-> Percent(real, f.backSystemPercent),
         realRefundFixedFee |-> GetExchangePsByDateCommon(f, f.backSystemFixAmount),
         merchantRefund |-> merchant,
         merchantRefundFee |->
             IF f.isPaidByMerchant THEN Percent(merchant, f.backPercent) ELSE 0,
         merchantRefundFixedFeeCostValue |->
             IF f.isPaidByMerchant THEN GetExchangePsByDateCommon(f, f.backFixAmount) ELSE 0,
         merchantRefundFixedFee |->
             IF f.isPaidByMerchant THEN GetExchangePsByDateMerchant(f, f.backFixAmount) ELSE 0]

\* Entries 13 to 15: the tax the merchant gets back, and who bears the change of the
\* central bank's part of it.
RefundTaxes(f, pay) ==
    LET restored == GetPercentPartFromAmount(GetExchangePsByDateMerchant(f, f.charge),
                                             f.taxRate)
        result   == IF f.vatEnabled /\ pay.merchantTaxFeeCentralBankFx > 0
                    THEN pay.merchantTaxFeeCentralBankFx - CentralBankFx(f, restored)
                    ELSE 0
    IN  [reverseTaxFee |->
             IF f.vatEnabled
             THEN pay.merchantTaxFeeCostValue + pay.merchantTaxFeeCentralBankFx
             ELSE 0,
         reverseTaxFeeDelta |-> IF result < 0 THEN 0 ELSE result,
         psReverseTaxFeeDelta |-> IF result < 0 THEN -result ELSE 0]

-----------------------------------------------------------------------------
(* UpdateOrderView: the amounts the views and the reports are made of.     *)

\* From the payment's revenue entries e and fee entries g.
PaymentView(e, g) ==
    [net |-> e.realGrossRevenue - e.psGrossRevenueFx - g.merchantPsFixedFee
                 - e.merchantTaxFeeCentralBankFx - g.psMethodFee
                 - e.merchantTaxFeeCostValue,
     tax |-> e.merchantTaxFeeCostValue + e.merchantTaxFeeCentralBankFx,
     fees |-> g.psMethodFee + g.merchantPsFixedFee,
     profit |-> e.psGrossRevenueFx + g.psMethodFee + g.merchantPsFixedFee
                    - e.centralBankTaxFee - e.psGrossRevenueFxTaxFee
                    - g.merchantMethodFeeCostValue
                    - g.realMerchantMethodFixedFeeCostValue]

\* From the refund's cost entries c and tax entries t.
RefundView(c, t) ==
    [net |-> c.merchantRefund + c.merchantRefundFee + c.merchantRefundFixedFee
                 + t.reverseTaxFeeDelta - t.reverseTaxFee,
     tax |-> t.reverseTaxFee + t.reverseTaxFeeDelta,
     fees |-> c.merchantRefundFee + c.merchantRefundFixedFee,
     profit |-> c.merchantRefundFee + c.merchantRefundFixedFee + t.psReverseTaxFeeDelta
                    - c.realRefundFixedFee - c.realRefundFee]

\* Without entries every amount of the view is zero.
EmptyView == [net |-> 0, tax |-> 0, fees |-> 0, profit |-> 0]

\* The report summary of a view with the payment part p and the refund part r.
ReportSummary(p, r) ==
    LET fees == p.fees - r.fees
    IN  [revenue |-> p.net - r.net, vat |-> p.tax - r.tax,
         fees |-> IF fees < 0 THEN -fees ELSE fees]
=============================================================================
